SPECIFICATION Spec
CONSTANTS
    MAX_PAYLOAD = 7
    Channels = {255}
    Payloads <- SmallPayloads
    Noise <- SmallNoise
    LineSize = 6
    MaxSends = 2
    MaxNoise = 1
INVARIANTS
    TypeOK
    OwnedOnce
    InputFits
PROPERTIES
    IsPipe
CHECK_DEADLOCK FALSE
