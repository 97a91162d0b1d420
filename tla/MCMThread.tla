----------------------------- MODULE MCMThread -----------------------------
(* Small instances of MThread for TLC. *)
EXTENDS MThread

CONSTANTS vflow, venc

TwoWorkers == {vflow, venc}
OneWorker == {venc}
=============================================================================
