SPECIFICATION Spec
CONSTANTS
    MaxFrame = 4
    JpegFrames = {1, 2, 3, 4}
    kMaxQueueSize = 2
    Prompt = FALSE
    Drained = FALSE
INVARIANTS
    TypeOK
    FramesMatchRequests
    OwnExposure
    QueueBounded
    ReadyMeansIdle
    JpegReturnedOnce
    NoUseAfterFree
PROPERTIES
    NoBufferSetLost
    CapturesInOrder
CHECK_DEADLOCK FALSE
