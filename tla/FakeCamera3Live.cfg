SPECIFICATION FairSpec
CONSTANTS
    MaxFrame = 4
    JpegFrames = {1, 2}
    kMaxQueueSize = 2
    Prompt = TRUE
    Drained = TRUE
PROPERTIES
    RequestsComplete
    JpegsReturn
    CloseReturns
