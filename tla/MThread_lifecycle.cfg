SPECIFICATION ThreadFairSpec
CONSTANTS
    vflow = vflow
    venc = venc
    Workers <- TwoWorkers
    MayBreak = TRUE
    CreateMayFail = TRUE
INVARIANTS StopMeansQuiet SignalsRealThread
PROPERTIES LoopEndsForAReason StopOfLiveReturns
