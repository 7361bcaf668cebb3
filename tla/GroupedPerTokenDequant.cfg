SPECIFICATION Spec
CONSTANTS
    aiv0 = aiv0
    aiv1 = aiv1
    AIV <- MCAIV
    Problems <- MCProblems
    PreloadStages = 2
    ReverseDepth = 2
INVARIANTS
    FlagNeverOverflows
    DealtInTurn
PROPERTIES
    Returns
