SPECIFICATION MC_Spec
CONSTANTS
    Shapes <- StreamkShapes
    TileK = 2
    SubBlocks = 2
    Rows = 7
    ComputeLength = 6
    Programs <- AllPrograms
    Schedules <- AllSchedules
INVARIANTS
    ResultWhole
    EachRowHasOneLabor
    SlicesFitBuffer
    SplitkWhole
    EachElementOnce
    ProductsInPlace
    ConvolutionsInPlace
    InputFitsL1
PROPERTIES
    PreloadedIsNext
    Returns
