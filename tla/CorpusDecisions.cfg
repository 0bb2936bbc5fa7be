\* A decisions.md whose headings carry no Decision line.
SPECIFICATION Spec
CONSTANTS
    Name = {"n1", "n2"}
    Malformed = "malformed"
    Heading = {"plain", "Plain", "other", "bare"}
    Anchor <- MCAnchor
    Text = {"t1", "t2"}
    Blank = ""
    Resource = {"r1"}
    Category = {"c1"}
    Pairing <- MCPairing
    MaxLines <- MCMaxLines
    None = None
INVARIANTS
    DecisionsPresent
CHECK_DEADLOCK FALSE
