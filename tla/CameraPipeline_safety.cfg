SPECIFICATION PipelineSpec
CONSTANTS
    vflow = vflow
    venc = venc
    d1 = d1
    d2 = d2
    d3 = d3
    b1 = b1
    b2 = b2
    b3 = b3
    Nil = Nil
    Workers <- Threads
    Descs <- ThreeDescs
    Buffers <- ThreeBuffers
    MayBreak = TRUE
    CreateMayFail = FALSE
SYMMETRY BufferSymmetry
INVARIANTS DescriptorsConserved FramesInOrder UsedCountInRange QueuesHaveRoom EncoderReadsLent
