SPECIFICATION Spec
CONSTANTS
    Pool <- OneAndOne
    RunTimes = 1
    WarmUpTimes = 1
    WarmUpRounds = 0
    AbortKinds = {"op"}
    MaxAborts = 1
    MaxTimeouts = 0
    MaxRestartFailures = 1
    MaxInitFailures = 0
INVARIANTS
    MeasuredOnlyWhileProfiled
