\* The parameters of the tree move after the evaluation.
SPECIFICATION Spec
CONSTANTS
    None = None
    Sets <- MCSets
    Libraries <- MCLibraries
    Locals <- MCLocals
    Upstreams <- MCUpstreams
    Prompts = {"p1", "p2"}
    Params = {"q1", "q2"}
    Start <- MCStart
    Repeats = 2
    Ceiling = 1
    MaxEdits = 1
INVARIANTS
    MovedParametersNoticed
CHECK_DEADLOCK FALSE
