SPECIFICATION PipelineSpec
CONSTANTS
    vflow = vflow
    venc = venc
    d1 = d1
    d2 = d2
    d3 = d3
    b1 = b1
    b2 = b2
    b3 = b3
    Nil = Nil
    Workers <- Threads
    Descs <- TwoDescs
    Buffers <- TwoBuffers
    MayBreak = FALSE
    CreateMayFail = FALSE
INVARIANT DisplayedIsOwned
