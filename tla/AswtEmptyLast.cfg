SPECIFICATION MC_Spec
CONSTANTS
    Shapes <- StreamkShapes
    TileK = 2
    SubBlocks = 2
    Rows = 7
    ComputeLength = 6
    Programs <- SchedulersOnly
    Schedules <- EmptyLastCases
INVARIANTS
    EachElementOnce
