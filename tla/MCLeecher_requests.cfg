SPECIFICATION Spec
CONSTANTS
    MAX_CONN = 2
    FileSize = 3
    PieceSize = 2
    NULL = NULL
    Holdings <- AnyHolding
    Behaviours <- Polite
    LittleEndian = TRUE
    WordBefore <- Word64Bit
    MaxOpened = 3
    MaxWire = 1
INVARIANTS AnswerIsExpected RequestedOnce GreetingFirst ViewsAgree
PROPERTIES ImplementsDownload LostSlotStaysBusy UnheldPieceBlocks
CHECK_DEADLOCK FALSE
