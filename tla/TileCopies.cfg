SPECIFICATION MC_Spec
CONSTANTS
    C0_NUM_PER_FRACTAL = 2
    STRIDE_LIMIT = 13
    L1Outer <- MC_L1Outer
    L1K <- MC_L1K
    L0K <- MC_L0K
    Paths <- MC_Paths
    LineStrides = {8, 14}
    LongGemmStrides = FALSE
INVARIANTS
    InPlace
    WithinBuffers
    NoUbRace
    PaddedBeforeUse
    WithinUB
    PaddedAtExit
