SPECIFICATION Spec
CONSTANTS
    Kinds = {"fake", "qemu"}
    MaxCalls = 7
    MaxFailures = 2
INVARIANTS
    TypeOK
    FrameAlive
PROPERTIES
    PictureTaken
CHECK_DEADLOCK FALSE
