-------------------------- MODULE MCCameraPipeline --------------------------
(* Small instances of CameraPipeline for TLC. *)
EXTENDS CameraPipeline, TLC

CONSTANTS d1, d2, d3, b1, b2, b3

Threads == {vflow, venc}
TwoDescs == {d1, d2}
TwoBuffers == {b1, b2}
ThreeDescs == {d1, d2, d3}
ThreeBuffers == {b1, b2, b3}

\* The VSE may lend any free buffer.
BufferSymmetry == Permutations({b1, b2, b3})
=============================================================================
