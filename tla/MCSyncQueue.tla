---------------------------- MODULE MCSyncQueue ----------------------------
(* Small instances of SyncQueue for TLC. *)
EXTENDS SyncQueue, TLC

CONSTANTS i1, i2, i3, n2d, bpu, h264, mjpeg

TwoItems == {i1, i2}
ThreeItems == {i1, i2, i3}

Stitcher == {n2d}
TwoMain == {n2d, bpu}
OneCodec == {h264}
TwoCodecs == {h264, mjpeg}
=============================================================================
