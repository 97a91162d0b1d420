SPECIFICATION SyncFairSpec
CONSTANTS
    i1 = i1
    i2 = i2
    i3 = i3
    n2d = n2d
    bpu = bpu
    h264 = h264
    mjpeg = mjpeg
    NoItem = NoItem
    Items <- TwoItems
    Main <- TwoMain
    Joined <- Stitcher
    Codecs <- OneCodec
    MayTimeOut = FALSE
    MayStop = TRUE
CHECK_DEADLOCK FALSE
INVARIANT NoDoubleItem
PROPERTY StopJoins
