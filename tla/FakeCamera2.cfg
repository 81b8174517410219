SPECIFICATION Spec
CONSTANTS
    Prompt = FALSE
    kInFlightQueueSize = 2
    MaxOperations = 3
INVARIANTS
    TypeOK
    FramesMatchRequests
    CapturesKept
    CountNotShort
    ReleasedUnused
CHECK_DEADLOCK FALSE
