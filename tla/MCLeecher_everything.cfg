SPECIFICATION Spec
CONSTANTS
    MAX_CONN = 2
    FileSize = 3
    PieceSize = 2
    NULL = NULL
    Holdings <- AnyHolding
    Behaviours <- AllButQuit
    LittleEndian = FALSE
    WordBefore <- AnyWord
    MaxOpened = 2
    MaxWire = 2
INVARIANTS TypeOK CountersMatchPieces PeersKnowOurPieces
PROPERTIES LostRequestIsNeverRepeated
CHECK_DEADLOCK FALSE
