----------------------------- MODULE LossyFifo -----------------------------
(***************************************************************************)
(* A channel that may forget but never confuses: what is received was put, *)
(* was not received before, and comes in the order it was put.  It is what *)
(* a pipeline that skips frames under load owes to the one at its end.     *)
(***************************************************************************)
EXTENDS Naturals, Sequences, SequencesExt

CONSTANTS Values, NoValue

VARIABLES
    pending,    \* put and neither received nor lost, oldest first
    received    \* what the receiver works on, or NoValue

LossyInit == pending = << >> /\ received = NoValue

Put ==
    /\ \E v \in Values : pending' = Append(pending, v)
    /\ UNCHANGED received

Lose ==
    /\ \E i \in DOMAIN pending : pending' = RemoveAt(pending, i)
    /\ UNCHANGED received

\* Everything on its way is thrown away.
LoseAll == pending' = << >> /\ received' \in {received, NoValue}

Receive ==
    /\ received = NoValue
    /\ pending # << >>
    /\ received' = Head(pending)
    /\ pending' = Tail(pending)

Finish == received' = NoValue /\ UNCHANGED pending

LossyNext == Put \/ Lose \/ LoseAll \/ Receive \/ Finish

LossySpec == LossyInit /\ [][LossyNext]_<<pending, received>>
=============================================================================
