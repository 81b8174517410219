SPECIFICATION FairSpec
CONSTANTS
    Clients = {a, b}
    NoClient = none
    Fds = {1, 2}
    Channels = 5
    MaxOpens = 2
    MaxWrites = 0
    MaxSends = 1
    Hasty = FALSE
PROPERTIES
    RequestsAnswered
    DataArrives
    HangUpNoticed
CHECK_DEADLOCK FALSE
