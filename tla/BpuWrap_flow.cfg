SPECIFICATION BpuFairSpec
CONSTANTS
    sender = sender
    infer = infer
    post = post
    Workers <- Threads
    MayBreak = TRUE
    CreateMayFail = FALSE
    BPU_INPUT_BUFFER_NUM = 2
    BPU_OUTPUT_BUFFER_NUM = 4
    InputSlots = 1
    OutputSlots = 1
    MaxFrames = 5
INVARIANTS InputOwned ResultIsLive MatchesUnlessSkipped
PROPERTIES ImplementsLossyFifo BpuStopReturns
