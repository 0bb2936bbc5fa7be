\* Two findings, one after the other, and every reply a model can give.
SPECIFICATION Spec
CONSTANTS
    Entry = {"control", "decision"}
    Invented = {"invented"}
    Resource = {"r1", "r2"}
    Category = {"c1"}
    Mapping <- MCMapping
    AppliesTo <- MCAppliesTo
    Model = TRUE
    MaxTurns = 2
    None = None
INVARIANTS
    VerdictStands
    QuietOnlyByMapping
    ContradictionAnchored
    AskedSparingly
    CallsCounted
    OverrunsOnRecord
CHECK_DEADLOCK FALSE
