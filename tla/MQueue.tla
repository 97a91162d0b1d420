------------------------------- MODULE MQueue -------------------------------
(***************************************************************************)
(* The blocking ring queue of common/utils/src/mqueue.c.                   *)
(*                                                                         *)
(* A step is one critical section of the queue's mutex: the code between   *)
(* pthread_mutex_lock or the return of a wait, and the next wait or        *)
(* pthread_mutex_unlock.  Each section writes at most one of u32Front and  *)
(* u32Rear, once, so the unlocked reads of mQueueIsFull, modelled as two   *)
(* steps of their own, see every value they can see in the program.        *)
(* A thread parked on a condition variable is at "space_wait", "data_wait" *)
(* or "timed_wait"; a broadcast sends it back to the test of its loop.     *)
(***************************************************************************)
EXTENDS Naturals, Sequences

CONSTANTS
    Producers, Consumers,   \* threads that enqueue, threads that dequeue
    Data,                   \* pointers handed through the queue
    NoData,                 \* NULL
    u32Length,              \* slots of the ring; one is always kept empty
    TicksPerSec,            \* resolution of the clock (1000000 in the code)
    WaitTimes               \* timeouts the callers pass, in ticks

Threads == Producers \cup Consumers

ASSUME MQueueAssumption ==
    /\ u32Length \in Nat \ {0}
    /\ NoData \notin Data
    /\ TicksPerSec \in Nat \ {0}
    /\ WaitTimes \subseteq Nat

VARIABLES
    apvBuffer,  \* the slots
    u32Front,   \* slot of the oldest pointer
    u32Rear,    \* slot the next pointer goes to
    pc,         \* where each thread is
    item,       \* pvData, *ppvData: the pointer a thread holds
    ret,        \* teQueueStatus (or answer) of the thread's last call
    rearSeen    \* u32Rear as mQueueIsFull read it

ring == <<apvBuffer, u32Front, u32Rear>>
vars == <<apvBuffer, u32Front, u32Rear, pc, item, ret, rearSeen>>

Slots == 0 .. u32Length - 1
Statuses == {"none", "OK", "FULL", "TIMEOUT", "FAILED",
             "full", "notfull", "empty", "notempty"}
PCs == {"idle", "enqueue", "space_wait", "dequeue", "data_wait",
        "timed", "timed_wait", "expired", "isfull"}

-----------------------------------------------------------------------------
\* Mutant: no wrap-around.
SuccUnwrapped(s) == s + 1

\* The slot after s.
Succ(s) == (s + 1) % u32Length

Empty == u32Front = u32Rear

\* Mutant: the modulo is forgotten.
FullUnwrapped == u32Rear + 1 = u32Front

Full == Succ(u32Rear) = u32Front

\* mQueueGetCount.
Count == IF u32Rear >= u32Front
         THEN u32Rear - u32Front
         ELSE u32Length - u32Front + u32Rear

\* The pointers between u32Front and u32Rear, oldest first.
Contents == [i \in 1 .. Count |-> apvBuffer[(u32Front + i - 1) % u32Length]]

\* tv_nsec of the absolute deadline, in ticks, when gettimeofday() gives
\* the subsecond `now`; pthread_cond_timedwait wants it below one second.
DeadlineSubsec(now, wait) ==
    LET sum == now + (wait % TicksPerSec)
    IN  IF sum > TicksPerSec THEN sum - TicksPerSec ELSE sum

DeadlineValid(now, wait) == DeadlineSubsec(now, wait) < TicksPerSec

\* The pc function after pthread_cond_broadcast on either condition variable.
WakeSpace(p) == [t \in Threads |-> IF p[t] = "space_wait" THEN "enqueue" ELSE p[t]]

WakeData(p) ==
    [t \in Threads |-> CASE p[t] = "data_wait"  -> "dequeue"
                         [] p[t] = "timed_wait" -> "timed"
                         [] OTHER               -> p[t]]

-----------------------------------------------------------------------------
\* mQueueCreate.
Init ==
    /\ apvBuffer = [s \in Slots |-> NoData]
    /\ u32Front = 0
    /\ u32Rear = 0
    /\ pc = [t \in Threads |-> "idle"]
    /\ item = [t \in Threads |-> NoData]
    /\ ret = [t \in Threads |-> "none"]
    /\ rearSeen = [t \in Threads |-> 0]

\* The caller mallocs a pointer that is nowhere in use, or frees the one it holds.
Supply(t, d) ==
    /\ t \in Producers
    /\ pc[t] = "idle"
    /\ item[t] = NoData
    /\ \A u \in Threads : item[u] # d
    /\ \A i \in 1 .. Count : Contents[i] # d
    /\ item' = [item EXCEPT ![t] = d]
    /\ UNCHANGED <<ring, pc, ret, rearSeen>>

Discard(t) ==
    /\ pc[t] = "idle"
    /\ item[t] # NoData
    /\ item' = [item EXCEPT ![t] = NoData]
    /\ UNCHANGED <<ring, pc, ret, rearSeen>>

\* A call of a blocking function: the thread goes for the mutex.
CallEnqueue(t) ==
    /\ t \in Producers
    /\ pc[t] = "idle"
    /\ item[t] # NoData
    /\ pc' = [pc EXCEPT ![t] = "enqueue"]
    /\ ret' = [ret EXCEPT ![t] = "none"]
    /\ UNCHANGED <<ring, item, rearSeen>>

CallDequeue(t, kind) ==
    /\ t \in Consumers
    /\ pc[t] = "idle"
    /\ item[t] = NoData
    /\ pc' = [pc EXCEPT ![t] = kind]
    /\ ret' = [ret EXCEPT ![t] = "none"]
    /\ UNCHANGED <<ring, item, rearSeen>>

\* Mutant: the consumers are not woken.
PushSilently(t) ==
    /\ apvBuffer' = [apvBuffer EXCEPT ![u32Rear] = item[t]]
    /\ u32Rear' = Succ(u32Rear)
    /\ item' = [item EXCEPT ![t] = NoData]
    /\ pc' = [pc EXCEPT ![t] = "idle"]
    /\ ret' = [ret EXCEPT ![t] = "OK"]
    /\ UNCHANGED <<u32Front, rearSeen>>

\* Store at u32Rear, advance it, wake the consumers, return E_QUEUE_OK.
Push(t) ==
    /\ apvBuffer' = [apvBuffer EXCEPT ![u32Rear] = item[t]]
    /\ u32Rear' = Succ(u32Rear)
    /\ item' = [item EXCEPT ![t] = NoData]
    /\ pc' = WakeData([pc EXCEPT ![t] = "idle"])
    /\ ret' = [ret EXCEPT ![t] = "OK"]
    /\ UNCHANGED <<u32Front, rearSeen>>

\* Mutant: u32Front stays.
PopInPlace(t) ==
    /\ item' = [item EXCEPT ![t] = apvBuffer[u32Front]]
    /\ pc' = WakeSpace([pc EXCEPT ![t] = "idle"])
    /\ ret' = [ret EXCEPT ![t] = "OK"]
    /\ UNCHANGED <<ring, rearSeen>>

\* Mutant: the producers are not woken.
PopSilently(t) ==
    /\ item' = [item EXCEPT ![t] = apvBuffer[u32Front]]
    /\ u32Front' = Succ(u32Front)
    /\ pc' = [pc EXCEPT ![t] = "idle"]
    /\ ret' = [ret EXCEPT ![t] = "OK"]
    /\ UNCHANGED <<apvBuffer, u32Rear, rearSeen>>

\* Load from u32Front, advance it, wake the producers, return E_QUEUE_OK.
Pop(t) ==
    /\ item' = [item EXCEPT ![t] = apvBuffer[u32Front]]
    /\ u32Front' = Succ(u32Front)
    /\ pc' = WakeSpace([pc EXCEPT ![t] = "idle"])
    /\ ret' = [ret EXCEPT ![t] = "OK"]
    /\ UNCHANGED <<apvBuffer, u32Rear, rearSeen>>

\* mQueueEnqueue: waits while there is no room.
EnqueueWait(t) ==
    /\ pc[t] = "enqueue"
    /\ Full
    /\ pc' = [pc EXCEPT ![t] = "space_wait"]
    /\ UNCHANGED <<ring, item, ret, rearSeen>>

EnqueuePut(t) == pc[t] = "enqueue" /\ ~Full /\ Push(t)

\* mQueueEnqueueEx: with no room it wakes the consumers and gives up.
EnqueueExFull(t) ==
    /\ t \in Producers
    /\ pc[t] = "idle"
    /\ item[t] # NoData
    /\ Full
    /\ pc' = WakeData(pc)
    /\ ret' = [ret EXCEPT ![t] = "FULL"]
    /\ UNCHANGED <<ring, item, rearSeen>>

EnqueueExPut(t) ==
    /\ t \in Producers
    /\ pc[t] = "idle"
    /\ item[t] # NoData
    /\ ~Full
    /\ Push(t)

\* mQueueDequeue: waits while there is nothing.
DequeueWait(t) ==
    /\ pc[t] = "dequeue"
    /\ Empty
    /\ pc' = [pc EXCEPT ![t] = "data_wait"]
    /\ UNCHANGED <<ring, item, ret, rearSeen>>

DequeueTake(t) == pc[t] \in {"dequeue", "timed"} /\ ~Empty /\ Pop(t)

\* mQueueDequeueTimed: each turn of the loop computes the deadline afresh.
TimedWait(t, now, wait) ==
    /\ pc[t] = "timed"
    /\ Empty
    /\ IF DeadlineValid(now, wait)
       THEN /\ pc' = [pc EXCEPT ![t] = "timed_wait"]
            /\ UNCHANGED ret
       ELSE /\ pc' = [pc EXCEPT ![t] = "idle"]
            /\ ret' = [ret EXCEPT ![t] = "FAILED"]
    /\ UNCHANGED <<ring, item, rearSeen>>

\* The deadline passes; the thread must take the mutex before it returns.
TimedExpire(t) ==
    /\ pc[t] = "timed_wait"
    /\ pc' = [pc EXCEPT ![t] = "expired"]
    /\ UNCHANGED <<ring, item, ret, rearSeen>>

TimedReturn(t) ==
    /\ pc[t] = "expired"
    /\ pc' = [pc EXCEPT ![t] = "idle"]
    /\ ret' = [ret EXCEPT ![t] = "TIMEOUT"]
    /\ UNCHANGED <<ring, item, rearSeen>>

\* POSIX lets a wait return with no broadcast.
SpuriousWake(t) ==
    /\ pc[t] \in {"space_wait", "data_wait", "timed_wait"}
    /\ pc' = [pc EXCEPT ![t] = WakeSpace(WakeData(pc))[t]]
    /\ UNCHANGED <<ring, item, ret, rearSeen>>

\* Mutant: a > for the =.
IsEmptyGreater(t) ==
    /\ pc[t] = "idle"
    /\ t \in Consumers
    /\ ret' = [ret EXCEPT ![t] = IF u32Front > u32Rear THEN "empty" ELSE "notempty"]
    /\ UNCHANGED <<ring, pc, item, rearSeen>>

\* mQueueIsEmpty, under the mutex.
IsEmpty(t) ==
    /\ pc[t] = "idle"
    /\ t \in Consumers
    /\ ret' = [ret EXCEPT ![t] = IF Empty THEN "empty" ELSE "notempty"]
    /\ UNCHANGED <<ring, pc, item, rearSeen>>

\* mQueueIsFull, without the mutex: reads u32Rear, then u32Front.
IsFullReadRear(t) ==
    /\ pc[t] = "idle"
    /\ t \in Producers
    /\ rearSeen' = [rearSeen EXCEPT ![t] = u32Rear]
    /\ pc' = [pc EXCEPT ![t] = "isfull"]
    /\ ret' = [ret EXCEPT ![t] = "none"]
    /\ UNCHANGED <<ring, item>>

\* Mutant: the slot kept empty is forgotten.
IsFullReadFrontLate(t) ==
    /\ pc[t] = "isfull"
    /\ ret' = [ret EXCEPT ![t] = IF rearSeen[t] = u32Front THEN "full" ELSE "notfull"]
    /\ rearSeen' = [rearSeen EXCEPT ![t] = 0]
    /\ pc' = [pc EXCEPT ![t] = "idle"]
    /\ UNCHANGED <<ring, item>>

IsFullReadFront(t) ==
    /\ pc[t] = "isfull"
    /\ ret' = [ret EXCEPT ![t] = IF Succ(rearSeen[t]) = u32Front THEN "full" ELSE "notfull"]
    /\ rearSeen' = [rearSeen EXCEPT ![t] = 0]
    /\ pc' = [pc EXCEPT ![t] = "idle"]
    /\ UNCHANGED <<ring, item>>

-----------------------------------------------------------------------------
\* What a thread inside a call does next; a client's choices are not in it.
Progress(t) ==
    \/ EnqueueWait(t)
    \/ EnqueuePut(t)
    \/ DequeueWait(t)
    \/ DequeueTake(t)
    \/ \E now \in 0 .. TicksPerSec - 1, wait \in WaitTimes : TimedWait(t, now, wait)
    \/ TimedExpire(t)
    \/ TimedReturn(t)
    \/ IsFullReadFront(t)

Call(t) ==
    \/ \E d \in Data : Supply(t, d)
    \/ Discard(t)
    \/ CallEnqueue(t)
    \/ CallDequeue(t, "dequeue")
    \/ CallDequeue(t, "timed")
    \/ EnqueueExFull(t)
    \/ EnqueueExPut(t)
    \/ IsEmpty(t)
    \/ IsFullReadRear(t)

Next == \E t \in Threads : Progress(t) \/ Call(t) \/ SpuriousWake(t)

Spec == Init /\ [][Next]_vars

(***************************************************************************)
(* Fairness.  Threads are preemptively scheduled, so a thread inside a call *)
(* goes on.  The worker loops of the program call dequeue again and again   *)
(* and free what they got; nothing obliges a producer to enqueue.           *)
(***************************************************************************)
Fairness ==
    /\ \A t \in Threads : WF_vars(Progress(t))
    /\ \A t \in Consumers : WF_vars(CallDequeue(t, "dequeue")) /\ WF_vars(Discard(t))

FairSpec == Spec /\ Fairness

-----------------------------------------------------------------------------
\* The types of the variables.
TypeOK ==
    /\ apvBuffer \in [Slots -> Data \cup {NoData}]
    /\ u32Front \in Slots
    /\ u32Rear \in Slots
    /\ pc \in [Threads -> PCs]
    /\ item \in [Threads -> Data \cup {NoData}]
    /\ ret \in [Threads -> Statuses]
    /\ rearSeen \in [Threads -> Slots]

\* No thread sleeps on a condition that already holds: no one waits for data
\* while the ring has some, no one waits for room while there is room.  The
\* broadcasts of mQueueEnqueue, mQueueEnqueueEx and the dequeues are enough.
NoLostWakeup ==
    \A t \in Threads :
        /\ pc[t] \in {"data_wait", "timed_wait"} => Empty
        /\ pc[t] = "space_wait" => Full

\* A pointer is in one place only: in one live slot of the ring or in the
\* hands of one thread (mqueue.c: malloc before the enqueue, free after the
\* dequeue, so a duplicate is a double free), and a thread inside a call holds
\* the pointer it enqueues, or none if it dequeues.
Owned ==
    /\ \A i, j \in 1 .. Count : Contents[i] = Contents[j] => i = j
    /\ \A i \in 1 .. Count : Contents[i] \in Data
    /\ \A t \in Threads, i \in 1 .. Count : item[t] # Contents[i]
    /\ \A t, u \in Threads : item[t] = item[u] /\ item[t] # NoData => t = u
    /\ \A t \in Threads :
         /\ pc[t] \in {"enqueue", "space_wait"} => item[t] # NoData
         /\ pc[t] \in {"dequeue", "data_wait", "timed", "timed_wait", "expired"} =>
              item[t] = NoData

\* Although mQueueIsFull takes no lock, the only producer of a queue may rely
\* on its "not full": the enqueue that follows finds room (bpu_wrap.c tests
\* mQueueIsFull before the blocking mQueueEnqueue of its output queue).
NotFullIsStable ==
    \A t \in Producers :
        /\ Producers = {t}
        /\ pc[t] = "idle"
        /\ ret[t] = "notfull"
        => ~Full

\* The only consumer may rely on "not empty": the drain loops dequeue with a
\* timeout of 0 after mQueueIsEmpty and treat a failure as an error.
NotEmptyIsStable ==
    \A t \in Consumers :
        /\ Consumers = {t}
        /\ pc[t] = "idle"
        /\ ret[t] = "notempty"
        => ~Empty

\* The ring implements the bounded first-in first-out list: the pointers come
\* out in the order they went in, none lost and none twice.
Fifo == INSTANCE BoundedFifo WITH q <- Contents, Capacity <- u32Length - 1

ImplementsFifo == Fifo!FifoSpec

\* A producer blocked in mQueueEnqueue gets out when consumers keep dequeuing.
BlockedEnqueueReturns ==
    \A t \in Producers : pc[t] = "space_wait" ~> pc[t] = "idle"

\* A pointer that is in the ring reaches a consumer.
Delivered ==
    \A d \in Data :
        (\E i \in 1 .. Count : Contents[i] = d) ~> (\E t \in Consumers : item[t] = d)
=============================================================================
