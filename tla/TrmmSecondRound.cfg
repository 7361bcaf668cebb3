SPECIFICATION Spec
CHECK_DEADLOCK FALSE
CONSTANTS
    QueueDepth = 5
    Programs <- TrmmOnly
    TrmmCases <- TrmmSecondRound
PROPERTIES
    CleanExit
