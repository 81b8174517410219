SPECIFICATION Spec
CONSTANTS
    Prompt = FALSE
    kInFlightQueueSize = 2
    MaxOperations = 3
INVARIANTS
    SameLockOrder
CHECK_DEADLOCK FALSE
