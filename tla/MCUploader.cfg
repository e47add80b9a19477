SPECIFICATION Spec
CONSTANTS
    MAX_CONN = 2
    FileSize = 3
    PieceSize = 2
    NULL = NULL
    Holdings <- NothingOrFirst
    Manners <- AllManners
    CutPoints = {11}
    Capacity = 20
    MaxOpened = 2
    MaxWire = 22
    MaxSaid = 3
INVARIANTS PoliteStaysInSync AnsweredInOrder StrangersGetNothing OnlyGuestsInArrearsBlock CalmGuestsAreSafe
PROPERTIES RequestsAnswered
CHECK_DEADLOCK FALSE
