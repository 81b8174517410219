SPECIFICATION Spec
CONSTANTS
    Clients = {a, b}
    NoClient = none
    Fds = {1, 2}
    Channels = 3
    MaxOpens = 4
    MaxWrites = 0
    MaxSends = 0
    Hasty = FALSE
INVARIANTS
    TypeOK
    UniqueChannels
CHECK_DEADLOCK FALSE
SYMMETRY Symmetry
