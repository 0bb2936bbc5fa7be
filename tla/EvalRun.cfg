\* Four cases, each decided twice with the model, and two edits of the tree at any
\* time; the ceiling pays for one call a day.
SPECIFICATION Spec
CONSTANTS
    None = None
    Sets <- MCSets
    Libraries <- MCLibraries
    Locals <- MCLocals
    Upstreams <- MCUpstreams
    Prompts = {"p1", "p2"}
    Params = {"q1", "q2"}
    Start <- MCStart
    Repeats = 2
    Ceiling = 1
    MaxEdits = 2
INVARIANTS
    FreshMeansSameQuestions
    RulesReproduced
    EveryRunCounted
    ModelSilencesNothing
PROPERTIES
    OthersStayOut
CHECK_DEADLOCK FALSE
