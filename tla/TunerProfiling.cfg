SPECIFICATION Spec
CONSTANTS
    Pool <- OneAndOne
    RunTimes = 1
    WarmUpTimes = 1
    WarmUpRounds = 1
    AbortKinds = {"op"}
    MaxAborts = 1
    MaxTimeouts = 1
    MaxRestartFailures = 1
    MaxInitFailures = 1
INVARIANTS
    Attribution
    EveryOperatorReported
    QuietFinalFlush
    ThreadsJoined
PROPERTIES
    Ends
