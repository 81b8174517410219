SPECIFICATION FairSpec
CONSTANTS
    MaxFrame = 3
    JpegFrames = {1, 2, 3}
    kMaxQueueSize = 2
    Prompt = FALSE
    Drained = TRUE
PROPERTY SensorNotStuck
CHECK_DEADLOCK FALSE
