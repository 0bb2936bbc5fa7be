\* Two processes at one time, as in a rollout or a redelivery racing a restart.
SPECIFICATION Spec
CONSTANTS
    Process = {"p1", "p2"}
    Caller = {"c1", "c2", "c3"}
    Of <- MCOf
    Day = {"d1"}
    Price = 2
    Ceiling = 4
    Overlap = TRUE
    MaxFaults = 0
    None = None
INVARIANTS
    CeilingHolds
CHECK_DEADLOCK FALSE
