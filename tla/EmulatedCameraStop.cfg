SPECIFICATION Spec
CONSTANTS
    Kinds = {"fake"}
    MaxCalls = 4
    MaxFailures = 0
INVARIANTS
    StopWaits
CHECK_DEADLOCK FALSE
