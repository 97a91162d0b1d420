---------------------------- MODULE MCWebControl ----------------------------
(* A small instance of WebControl: k3 is k2 with a display.                *)
EXTENDS WebControl, TLC

CONSTANTS k1, k2, k3

MCNoDisplay == k1 :> k1 @@ k2 :> k2 @@ k3 :> k2
=============================================================================
