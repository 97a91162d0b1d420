SPECIFICATION SyncFairSpec
CONSTANTS
    i1 = i1
    i2 = i2
    i3 = i3
    n2d = n2d
    bpu = bpu
    h264 = h264
    mjpeg = mjpeg
    NoItem = NoItem
    Items <- ThreeItems
    Main <- Stitcher
    Joined <- Stitcher
    Codecs <- TwoCodecs
    MayTimeOut = FALSE
    MayStop = FALSE
INVARIANTS ProducerExclusive CountsExact
PROPERTIES ImplementsBroadcast EveryUserObtains KeepsPublishing
