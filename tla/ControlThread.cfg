SPECIFICATION Spec
CONSTANTS
    AfModes = {"AUTO", "CONTINUOUS_VIDEO", "CONTINUOUS_PICTURE"}
    AeModes = {"OFF", "ON"}
    CycleDelay = 2
    AfDurations = {3}
    AeDurations = {3}
    PrecaptureDurations = {2}
    MaxInputs = 3
    CallsApart = TRUE
INVARIANTS
    TypeOK
    TablesCover
    LockedByTrigger
PROPERTIES
    AutoFocusAnswered
    PrecaptureAnswered
CHECK_DEADLOCK FALSE
