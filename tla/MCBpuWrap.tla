----------------------------- MODULE MCBpuWrap -----------------------------
(* The rings and queues of bpu_wrap.h and bpu_wrap_init, for TLC. *)
EXTENDS BpuWrap

Threads == {sender, infer, post}
=============================================================================
