SPECIFICATION Spec
CONSTANTS
    MAX_CONN = 1
    FileSize = 9
    PieceSize = 1
    NULL = NULL
    Holdings <- EightOrNine
    Behaviours <- Growing
    LittleEndian = TRUE
    WordBefore <- Word64Bit
    MaxOpened = 2
    MaxWire = 1
INVARIANTS PieceEightBlocks
CHECK_DEADLOCK FALSE
