SPECIFICATION Spec
CONSTANTS
    Clients = {a, b}
    NoClient = none
    Fds = {1, 2}
    Channels = 5
    MaxOpens = 2
    MaxWrites = 1
    MaxSends = 2
    Hasty = TRUE
INVARIANTS
    NoCrossTalk
    EmulatorAgrees
PROPERTIES
    DeliveredInOrder
CHECK_DEADLOCK FALSE
SYMMETRY Symmetry
