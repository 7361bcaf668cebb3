SPECIFICATION Spec
CONSTANTS
    AIV = {aiv0, aiv1}
    Loops = 7
    ReverseDepth = 3
INVARIANTS
    IInv
    FlagNeverOverflows
    FlagsClearedAtExit
PROPERTIES
    ImplementsHandoff
