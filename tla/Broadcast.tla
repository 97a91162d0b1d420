----------------------------- MODULE Broadcast -----------------------------
(***************************************************************************)
(* What a sync_queue_t promises: a fixed pool of items, of which one       *)
(* producer publishes to several users.  Each user receives every item     *)
(* once, in the order of publication; an item is free again only when the  *)
(* last of them has returned it.                                           *)
(***************************************************************************)
EXTENDS Sequences, SequencesExt

CONSTANTS Items, Users, NoItem

VARIABLES
    free,       \* items the producer may take, in that order
    filling,    \* the producer's item
    todo,       \* published items each user has yet to receive
    holds       \* the item each user has

bvars == <<free, filling, todo, holds>>

BInit ==
    /\ free \in Seq(Items)
    /\ IsInjective(free) /\ Range(free) = Items
    /\ filling = NoItem
    /\ todo = [u \in Users |-> << >>]
    /\ holds = [u \in Users |-> NoItem]

Acquire ==
    /\ filling = NoItem
    /\ free # << >>
    /\ filling' = Head(free)
    /\ free' = Tail(free)
    /\ UNCHANGED <<todo, holds>>

Publish ==
    /\ filling # NoItem
    /\ todo' = [u \in Users |-> Append(todo[u], filling)]
    /\ filling' = NoItem
    /\ UNCHANGED <<free, holds>>

Receive(u) ==
    /\ holds[u] = NoItem
    /\ todo[u] # << >>
    /\ holds' = [holds EXCEPT ![u] = Head(todo[u])]
    /\ todo' = [todo EXCEPT ![u] = Tail(todo[u])]
    /\ UNCHANGED <<free, filling>>

WantedByOthers(u, i) ==
    \E v \in Users \ {u} : holds[v] = i \/ i \in Range(todo[v])

Return(u) ==
    /\ holds[u] # NoItem
    /\ holds' = [holds EXCEPT ![u] = NoItem]
    /\ free' = IF WantedByOthers(u, holds[u]) THEN free ELSE Append(free, holds[u])
    /\ UNCHANGED <<filling, todo>>

BNext == Acquire \/ Publish \/ \E u \in Users : Receive(u) \/ Return(u)

BroadcastSpec == BInit /\ [][BNext]_bvars
=============================================================================
