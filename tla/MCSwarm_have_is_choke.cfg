SPECIFICATION Spec
CONSTANTS
    peer1 = peer1
    peer2 = peer2
    seed = seed
    MAX_CONN = 2
    FileSize = 50
    PieceSize = 20
    NULL = NULL
    Clients <- MCClients
    Seeders <- MCSeeders
    Machines <- All
    Capacity = 32
    MaxOpened = 2
INVARIANTS HaveIsHeard
CHECK_DEADLOCK FALSE
