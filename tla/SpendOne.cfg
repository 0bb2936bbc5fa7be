\* One process at a time, restarted at will; a ceiling two calls meet exactly, two days.
SPECIFICATION FairSpec
CONSTANTS
    Process = {"p1", "p2"}
    Caller = {"c1", "c2", "c3"}
    Of <- MCOf
    Day = {"d1", "d2"}
    Price = 2
    Ceiling = 4
    Overlap = FALSE
    MaxFaults = 2
    None = None
INVARIANTS
    TypeOK
    CeilingHolds
    ReservedBeforeCall
PROPERTIES
    RefusedOnlyAtCeiling
    EveryAskAnswered
