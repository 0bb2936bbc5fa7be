\* Two processes whose corpora price one finding differently.
SPECIFICATION Spec
CONSTANTS
    None = None
    Key <- MCKey
    Worker = {"w1", "w2"}
    Message = {"fresh"}
    Body <- MCBody
    Mapped <- MCRollout
    Model = TRUE
    CrashFlags = {None}
    MaxFaults = 2
    MaxDeliveries = 3
INVARIANTS
    NoMissedNotification
CHECK_DEADLOCK FALSE
