\* One replica: a finding, another delivered again with a field gone and a
\* vulnerability; counters reported at any time; two faults, a drill at any
\* boundary among them.
SPECIFICATION CSpec
CONSTANTS
    None = None
    Key <- MCKey
    Worker = {"w1"}
    Message = {"fresh", "priced", "torn", "vuln"}
    Body <- MCBody
    Mapped <- MCMapped
    Model = TRUE
    CrashFlags = {None, "received", "notification_attempted", "acknowledged"}
    MaxFaults = 2
    MaxDeliveries = 3
INVARIANTS
    TypeOK
    EmittedAsRecorded
    DeliveriesAccounted
    DrillBoundaries
    CountsMatchLedger
PROPERTIES
    NoInferenceAfterVerdict
    ClosedStaysQuiet
CHECK_DEADLOCK FALSE
