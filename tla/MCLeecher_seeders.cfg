SPECIFICATION FairSpec
CONSTANTS
    MAX_CONN = 2
    FileSize = 6
    PieceSize = 2
    NULL = NULL
    Holdings <- WholeFile
    Behaviours <- NoFaults
    LittleEndian = TRUE
    WordBefore <- AnyWord
    MaxOpened = 2
    MaxWire = 1
PROPERTIES SeedersDeliver
CHECK_DEADLOCK FALSE
