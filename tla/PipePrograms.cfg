SPECIFICATION Spec
CONSTANTS
    QueueDepth = 5
    Programs <- AllPrograms
    TrmmCases <- TrmmShort
INVARIANTS
    NoBufferRace
    HeldBack
PROPERTIES
    CallbackOrder
    CleanExit
