SPECIFICATION Spec
CONSTANTS
    aic = aic
    aiv0 = aiv0
    aiv1 = aiv1
    AIC = aic
    AIV <- MCAIV
    AIV0 = aiv0
    TaskLists <- MCTaskLists
    Tile = 2
    BlockStackNum = 4
    PreLaunch = 2
    InFlight = 2
INVARIANTS
    OutputWhole
    FlagsWithinRing
PROPERTIES
    Returns
