SPECIFICATION BoxFairSpec
CONSTANTS
    vdec = vdec
    vflow = vflow
    Vencs = {venc}
    Workers = {vdec, vflow, venc}
    MayBreak = TRUE
    CreateMayFail = FALSE
    DecoderSlots = 1
    ChannelSlots = 1
    Retries = 2
    MaxFrames = 3
INVARIANTS SourceMatches
PROPERTIES StreamIsLossyFifo BoxStopReturns
