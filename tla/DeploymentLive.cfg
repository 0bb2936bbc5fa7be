\* One replica and its kubelet, with fewer faults than deliveries; one event of
\* a finding and the same finding resolved.
SPECIFICATION DSpec
CONSTANTS
    None = None
    Key <- MCKey
    Worker = {"w1"}
    Message = {"fresh", "resolved", "vuln", "noise"}
    Body <- MCBody
    Raw <- MCRaw
    Mapped <- MCMapped
    Model = TRUE
    CrashFlags = {None}
    MaxFaults = 1
    MaxDeliveries = 2
    IdleLimit = 2
INVARIANTS
    EventsKeptApart
    KeysSafe
PROPERTIES
    EveryFindingSettles
    UnreadableIsKept
    KillSparesWork
    KeepsPromise
