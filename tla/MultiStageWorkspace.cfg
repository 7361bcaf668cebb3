SPECIFICATION Spec
CONSTANTS
    AIV = {aiv0, aiv1}
    Loops = 7
    Stages = 3
    Preload = 1
INVARIANTS
    IInv
    AivReadsItsBlock
    SlotHeldUntilReleased
    FlagsClearedAtExit
PROPERTIES
    ImplementsHandoff
