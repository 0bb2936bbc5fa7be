\* Two processes of one image, as in a rollout that keeps the corpus; one fault.
\* The counters move along, and are left out of what tells two states apart.
SPECIFICATION CSpec
CONSTANTS
    None = None
    Key <- MCKey
    Worker = {w1, w2}
    Message = {"fresh", "drift", "priced"}
    Body <- MCBody
    Mapped <- MCMapped
    Model = TRUE
    CrashFlags = {None}
    MaxFaults = 1
    MaxDeliveries = 3
INVARIANTS
    LedgerShape
    AttemptBeforeEmit
    NoMissedNotification
PROPERTIES
    KeepsPromise
SYMMETRY MCSymmetry
VIEW MCFindings
CHECK_DEADLOCK FALSE
