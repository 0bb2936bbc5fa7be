\* One replica, a finding whose body moves, one fault.
SPECIFICATION Spec
CONSTANTS
    None = None
    Key <- MCKey
    Worker = {"w1"}
    Message = {"fresh", "drift"}
    Body <- MCBody
    Mapped <- MCMapped
    Model = TRUE
    CrashFlags = {None}
    MaxFaults = 1
    MaxDeliveries = 3
PROPERTIES
    DriftWithoutInference
CHECK_DEADLOCK FALSE
