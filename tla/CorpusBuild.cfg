\* Every build from short sources of any content, and the worker that reads it.
SPECIFICATION Spec
CONSTANTS
    Name = {"n1", "n2"}
    Malformed = "malformed"
    Heading = {"plain", "Plain", "other", "bare"}
    Anchor <- MCAnchor
    Text = {"t1", "t2"}
    Blank = ""
    Resource = {"r1"}
    Category = {"c1"}
    Pairing <- MCPairing
    MaxLines <- MCMaxLines
    None = None
INVARIANTS
    TypeOK
    PairingsPrice
    ControlsAnchor
    SourcesPresent
    FindingsRowsOnly
    DecisionsAsWritten
PROPERTIES
    NeverReplaced
CHECK_DEADLOCK FALSE
