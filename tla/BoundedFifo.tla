---------------------------- MODULE BoundedFifo ----------------------------
(***************************************************************************)
(* What mqueue.c promises to its callers: a first-in first-out list of at   *)
(* most Capacity pointers.  A pointer is at any time in the list, in the    *)
(* hands of one thread, or free.  The module knows nothing of the ring, the *)
(* mutex or the condition variables; MQueue implements it.                  *)
(***************************************************************************)
EXTENDS Naturals, Sequences

CONSTANTS
    Threads,    \* callers of the queue
    Data,       \* the pointers that travel through it
    NoData,     \* NULL: the thread holds no pointer
    Capacity    \* how many pointers fit (u32Length - 1)

VARIABLES
    q,          \* the pointers in the queue, oldest first
    item        \* the pointer each thread holds

fifoVars == <<q, item>>

InQueue(d) == \E i \in 1 .. Len(q) : q[i] = d

Unused(d) == ~InQueue(d) /\ \A t \in Threads : item[t] # d

FifoInit ==
    /\ q = << >>
    /\ item = [t \in Threads |-> NoData]

\* malloc() before an enqueue: the pointer is not one already in use.
Supply(t, d) ==
    /\ item[t] = NoData
    /\ Unused(d)
    /\ item' = [item EXCEPT ![t] = d]
    /\ UNCHANGED q

\* free() after a dequeue.
Discard(t) ==
    /\ item[t] # NoData
    /\ item' = [item EXCEPT ![t] = NoData]
    /\ UNCHANGED q

Put(t) ==
    /\ item[t] # NoData
    /\ Len(q) < Capacity
    /\ q' = Append(q, item[t])
    /\ item' = [item EXCEPT ![t] = NoData]

Take(t) ==
    /\ item[t] = NoData
    /\ q # << >>
    /\ item' = [item EXCEPT ![t] = Head(q)]
    /\ q' = Tail(q)

FifoNext ==
    \E t \in Threads :
        \/ \E d \in Data : Supply(t, d)
        \/ Discard(t)
        \/ Put(t)
        \/ Take(t)

FifoSpec == FifoInit /\ [][FifoNext]_fifoVars
=============================================================================
