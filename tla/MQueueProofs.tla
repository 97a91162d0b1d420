---------------------------- MODULE MQueueProofs ----------------------------
(***************************************************************************)
(* Theorems about MQueue, for every number of threads, every set of        *)
(* pointers and every length of the ring.                                  *)
(***************************************************************************)
EXTENDS MQueue, SequenceTheorems, TLAPS

-----------------------------------------------------------------------------
\* Succ stays in the ring.
LEMMA SuccInSlots ==
    ASSUME NEW s \in Slots
    PROVE  /\ Succ(s) \in Slots
           /\ Succ(s) = IF s + 1 = u32Length THEN 0 ELSE s + 1
  BY MQueueAssumption DEF Slots, Succ

\* Waking threads keeps the program counters in range.
LEMMA WakeType ==
    ASSUME NEW p \in [Threads -> PCs]
    PROVE  WakeSpace(p) \in [Threads -> PCs] /\ WakeData(p) \in [Threads -> PCs]
  BY DEF WakeSpace, WakeData, PCs

-----------------------------------------------------------------------------
\* Type correctness is inductive.
LEMMA TypeInit == Init => TypeOK
  BY MQueueAssumption DEF Init, TypeOK, Slots, PCs, Statuses

LEMMA TypeNext == TypeOK /\ [Next]_vars => TypeOK'
  <1> SUFFICES ASSUME TypeOK, [Next]_vars  PROVE TypeOK'
    OBVIOUS
  <1> USE DEF TypeOK
  <1>1. ASSUME NEW t \in Threads, NEW d \in Data, Supply(t, d)  PROVE TypeOK'
    BY <1>1 DEF Supply, ring
  <1>2. ASSUME NEW t \in Threads, Discard(t)  PROVE TypeOK'
    BY <1>2 DEF Discard, ring
  <1>3. ASSUME NEW t \in Threads, CallEnqueue(t)  PROVE TypeOK'
    BY <1>3 DEF CallEnqueue, ring, PCs, Statuses
  <1>4. ASSUME NEW t \in Threads, NEW k \in {"dequeue", "timed"}, CallDequeue(t, k)
        PROVE TypeOK'
    BY <1>4 DEF CallDequeue, ring, PCs, Statuses
  <1>5. ASSUME NEW t \in Threads, Push(t)  PROVE TypeOK'
    <2>1. [pc EXCEPT ![t] = "idle"] \in [Threads -> PCs]
      BY DEF PCs
    <2>2. pc' \in [Threads -> PCs]
      BY <1>5, <2>1, WakeType DEF Push
    <2>3. u32Rear' \in Slots
      BY <1>5, SuccInSlots DEF Push
    <2> QED  BY <1>5, <2>2, <2>3 DEF Push, Statuses
  <1>6. ASSUME NEW t \in Threads, Pop(t)  PROVE TypeOK'
    <2>1. [pc EXCEPT ![t] = "idle"] \in [Threads -> PCs]
      BY DEF PCs
    <2>2. pc' \in [Threads -> PCs]
      BY <1>6, <2>1, WakeType DEF Pop
    <2>3. u32Front' \in Slots
      BY <1>6, SuccInSlots DEF Pop
    <2> QED  BY <1>6, <2>2, <2>3 DEF Pop, Statuses
  <1>7. ASSUME NEW t \in Threads, EnqueueExFull(t)  PROVE TypeOK'
    <2>1. pc' \in [Threads -> PCs]
      BY <1>7, WakeType DEF EnqueueExFull
    <2> QED  BY <1>7, <2>1 DEF EnqueueExFull, ring, Statuses
  <1>8. ASSUME NEW t \in Threads, EnqueueWait(t) \/ DequeueWait(t) \/ TimedExpire(t)
        PROVE TypeOK'
    BY <1>8 DEF EnqueueWait, DequeueWait, TimedExpire, ring, PCs
  <1>9. ASSUME NEW t \in Threads, NEW now \in 0 .. TicksPerSec - 1, NEW wait \in WaitTimes,
               TimedWait(t, now, wait)
        PROVE TypeOK'
    BY <1>9 DEF TimedWait, ring, PCs, Statuses
  <1>10. ASSUME NEW t \in Threads, TimedReturn(t)  PROVE TypeOK'
    BY <1>10 DEF TimedReturn, ring, PCs, Statuses
  <1>11. ASSUME NEW t \in Threads, SpuriousWake(t)  PROVE TypeOK'
    BY <1>11, WakeType DEF SpuriousWake, ring
  <1>12. ASSUME NEW t \in Threads, IsEmpty(t)  PROVE TypeOK'
    BY <1>12 DEF IsEmpty, ring, Statuses
  <1>13. ASSUME NEW t \in Threads, IsFullReadRear(t)  PROVE TypeOK'
    BY <1>13 DEF IsFullReadRear, ring, PCs, Statuses
  <1>14. ASSUME NEW t \in Threads, IsFullReadFront(t)  PROVE TypeOK'
    BY <1>14, MQueueAssumption DEF IsFullReadFront, ring, PCs, Statuses, Slots
  <1>15. CASE UNCHANGED vars
    BY <1>15 DEF vars
  <1> QED
    BY <1>1, <1>2, <1>3, <1>4, <1>5, <1>6, <1>7, <1>8, <1>9, <1>10, <1>11, <1>12,
       <1>13, <1>14, <1>15
    DEF Next, Progress, Call, EnqueuePut, EnqueueExPut, DequeueTake

\* Every variable of the queue and of its callers keeps its type.
THEOREM TypeCorrect == Spec => []TypeOK
  BY TypeInit, TypeNext, PTL DEF Spec

-----------------------------------------------------------------------------
\* A broadcast leaves no one parked on its condition and parks no one.
LEMMA WakeEffect ==
    ASSUME NEW p \in [Threads -> PCs], NEW t \in Threads
    PROVE  /\ WakeData(p)[t] \notin {"data_wait", "timed_wait"}
           /\ WakeData(p)[t] = "space_wait" => p[t] = "space_wait"
           /\ WakeSpace(p)[t] # "space_wait"
           /\ WakeSpace(p)[t] \in {"data_wait", "timed_wait"} =>
                 p[t] \in {"data_wait", "timed_wait"}
  BY DEF WakeData, WakeSpace, PCs

LEMMA WakeupNext == TypeOK /\ NoLostWakeup /\ [Next]_vars => NoLostWakeup'
  <1> SUFFICES ASSUME TypeOK, NoLostWakeup, [Next]_vars, NEW u \in Threads
               PROVE  /\ pc'[u] \in {"data_wait", "timed_wait"} => Empty'
                      /\ pc'[u] = "space_wait" => Full'
    BY DEF NoLostWakeup
  <1> DEFINE Goal == /\ pc'[u] \in {"data_wait", "timed_wait"} => Empty'
                     /\ pc'[u] = "space_wait" => Full'
  <1>0. pc \in [Threads -> PCs]
    BY DEF TypeOK
  <1>1. ASSUME UNCHANGED <<u32Front, u32Rear>>, pc'[u] = pc[u]  PROVE Goal
    BY <1>1 DEF NoLostWakeup, Empty, Full, Succ
  <1>2. ASSUME NEW t \in Threads,
               \/ \E d \in Data : Supply(t, d)
               \/ Discard(t) \/ IsEmpty(t)
        PROVE Goal
    BY <1>1, <1>2 DEF Supply, Discard, IsEmpty, ring
  <1>3. ASSUME NEW t \in Threads, NEW k \in {"dequeue", "timed"},
               CallEnqueue(t) \/ CallDequeue(t, k)
        PROVE Goal
    BY <1>0, <1>1, <1>3 DEF CallEnqueue, CallDequeue, ring
  <1>4. ASSUME NEW t \in Threads, Push(t), ~Full  PROVE Goal
    <2>1. [pc EXCEPT ![t] = "idle"] \in [Threads -> PCs]
      BY <1>0 DEF PCs
    <2>2. pc'[u] \notin {"data_wait", "timed_wait"}
      BY <1>4, <2>1, WakeEffect DEF Push
    <2>3. pc'[u] # "space_wait"
      BY <1>0, <1>4, <2>1, WakeEffect DEF Push, NoLostWakeup
    <2> QED  BY <2>2, <2>3
  <1>5. ASSUME NEW t \in Threads, Pop(t), ~Empty  PROVE Goal
    <2>1. [pc EXCEPT ![t] = "idle"] \in [Threads -> PCs]
      BY <1>0 DEF PCs
    <2>2. pc'[u] # "space_wait"
      BY <1>5, <2>1, WakeEffect DEF Pop
    <2>3. pc'[u] \notin {"data_wait", "timed_wait"}
      BY <1>0, <1>5, <2>1, WakeEffect DEF Pop, NoLostWakeup
    <2> QED  BY <2>2, <2>3
  <1>6. ASSUME NEW t \in Threads, EnqueueExFull(t)  PROVE Goal
    <2>1. pc'[u] \notin {"data_wait", "timed_wait"}
      BY <1>0, <1>6, WakeEffect DEF EnqueueExFull
    <2>2. pc'[u] = "space_wait" => pc[u] = "space_wait"
      BY <1>0, <1>6, WakeEffect DEF EnqueueExFull
    <2> QED  BY <1>6, <2>1, <2>2 DEF EnqueueExFull, ring, NoLostWakeup, Full, Succ
  <1>7. ASSUME NEW t \in Threads, EnqueueWait(t)  PROVE Goal
    BY <1>0, <1>1, <1>7 DEF EnqueueWait, ring, Full, Succ
  <1>8. ASSUME NEW t \in Threads, DequeueWait(t)  PROVE Goal
    BY <1>0, <1>1, <1>8 DEF DequeueWait, ring, Empty
  <1>9. ASSUME NEW t \in Threads, NEW now \in 0 .. TicksPerSec - 1, NEW wait \in WaitTimes,
               TimedWait(t, now, wait)
        PROVE Goal
    BY <1>0, <1>1, <1>9 DEF TimedWait, ring, Empty
  <1>10. ASSUME NEW t \in Threads,
                TimedExpire(t) \/ TimedReturn(t) \/ IsFullReadRear(t) \/ IsFullReadFront(t)
        PROVE Goal
    BY <1>0, <1>1, <1>10 DEF TimedExpire, TimedReturn, IsFullReadRear, IsFullReadFront, ring
  <1>11. ASSUME NEW t \in Threads, SpuriousWake(t)  PROVE Goal
    BY <1>0, <1>1, <1>11 DEF SpuriousWake, ring, WakeSpace, WakeData
  <1>12. CASE UNCHANGED vars
    BY <1>1, <1>12 DEF vars
  <1> QED
    BY <1>2, <1>3, <1>4, <1>5, <1>6, <1>7, <1>8, <1>9, <1>10, <1>11, <1>12
    DEF Next, Progress, Call, EnqueuePut, EnqueueExPut, DequeueTake

\* No broadcast is missing: whatever the interleaving, a thread parked on a
\* condition variable of the queue has nothing to do until the next broadcast.
THEOREM NoWakeupIsLost == Spec => []NoLostWakeup
  <1>1. Init => NoLostWakeup
    BY DEF Init, NoLostWakeup
  <1> QED  BY <1>1, WakeupNext, TypeCorrect, PTL DEF Spec

-----------------------------------------------------------------------------
\* The ring as a list: how long it is, and where its i-th pointer lies.
LEMMA CountRange ==
    ASSUME TypeOK
    PROVE  /\ Count \in 0 .. u32Length - 1
           /\ Empty <=> Count = 0
           /\ Full <=> Count = u32Length - 1
  BY SMTT(30), MQueueAssumption, SuccInSlots DEF TypeOK, Slots, Count, Empty, Full

\* The i-th slot from slot f, without the remainder.
At(f, i) == IF f + i - 1 < u32Length THEN f + i - 1 ELSE f + i - 1 - u32Length

LEMMA RingIndex ==
    ASSUME NEW f \in Slots, NEW i \in 1 .. u32Length
    PROVE  (f + i - 1) % u32Length = At(f, i) /\ At(f, i) \in Slots
  <1>1. u32Length \in Nat \ {0} /\ f \in 0 .. u32Length - 1
    BY MQueueAssumption DEF Slots
  <1>2. (f + i - 1) % u32Length = At(f, i)
    BY <1>1 DEF At
  <1> QED  BY <1>1, <1>2 DEF At, Slots

\* The numbers the ring is made of.
LEMMA RingNumbers ==
    ASSUME TypeOK
    PROVE  /\ u32Length \in Nat \ {0}
           /\ u32Front \in 0 .. u32Length - 1
           /\ u32Rear \in 0 .. u32Length - 1
  BY MQueueAssumption DEF TypeOK, Slots

LEMMA ContentsAt ==
    ASSUME TypeOK
    PROVE  Contents = [i \in 1 .. Count |-> apvBuffer[At(u32Front, i)]]
  <1>1. \A i \in 1 .. Count : i \in 1 .. u32Length
    BY CountRange, MQueueAssumption
  <1> QED  BY <1>1, RingIndex DEF TypeOK, Contents

LEMMA ContentsType ==
    ASSUME TypeOK
    PROVE  /\ Contents \in Seq(Data \cup {NoData})
           /\ Len(Contents) = Count
           /\ DOMAIN Contents = 1 .. Count
  <1>1. Count \in Nat
    BY CountRange, MQueueAssumption
  <1>2. \A i \in 1 .. Count : At(u32Front, i) \in Slots
    BY CountRange, RingIndex, MQueueAssumption DEF TypeOK
  <1>3. Contents \in [1 .. Count -> Data \cup {NoData}]
    BY <1>2, ContentsAt DEF TypeOK
  <1> QED  BY <1>1, <1>3

\* Storing at u32Rear appends to the list.
LEMMA PushContents ==
    ASSUME TypeOK, TypeOK', ~Full, NEW t \in Threads, Push(t)
    PROVE  Contents' = Append(Contents, item[t])
  <1>1. u32Rear' = IF u32Rear + 1 = u32Length THEN 0 ELSE u32Rear + 1
    BY SuccInSlots DEF TypeOK, Push
  <1>2. u32Rear' # u32Front
    BY DEF Push, Full
  <1>3. u32Front' = u32Front
    BY DEF Push
  <1>4. Count' = Count + 1 /\ Count \in Nat /\ Count + 1 <= u32Length - 1
    BY <1>1, <1>2, <1>3, RingNumbers DEF Count
  <1>5. At(u32Front, Count + 1) = u32Rear
    BY RingNumbers DEF At, Count
  <1>6. \A i \in 1 .. Count : At(u32Front, i) # u32Rear
    BY RingNumbers, CountRange DEF At, Count
  <1>7. \A i \in 1 .. Count : At(u32Front, i) \in Slots
    BY <1>4, RingIndex, RingNumbers DEF TypeOK
  <1>8. Contents' = [i \in 1 .. Count + 1 |-> apvBuffer'[At(u32Front, i)]]
    <2>1. \A i \in 1 .. Count + 1 : i \in 1 .. u32Length
      BY <1>4, RingNumbers
    <2> QED  BY <1>3, <1>4, <2>1, RingIndex DEF Contents, TypeOK
  <1>9. \A i \in 1 .. Count : apvBuffer'[At(u32Front, i)] = Contents[i]
    BY <1>6, <1>7, ContentsAt DEF Push, TypeOK
  <1>10. apvBuffer'[At(u32Front, Count + 1)] = item[t]
    BY <1>5 DEF Push, TypeOK
  <1>11. Append(Contents, item[t]) =
          [i \in 1 .. Count + 1 |-> IF i = Count + 1 THEN item[t] ELSE Contents[i]]
    BY <1>4, ContentsType
  <1>12. ASSUME NEW i \in 1 .. Count + 1
         PROVE  apvBuffer'[At(u32Front, i)] = IF i = Count + 1 THEN item[t] ELSE Contents[i]
    <2>1. CASE i = Count + 1
      BY <2>1, <1>10
    <2>2. CASE i # Count + 1
      BY <2>2, <1>4, <1>9
    <2> QED  BY <2>1, <2>2
  <1> QED  BY <1>8, <1>11, <1>12

\* Loading from u32Front takes the head of the list.
LEMMA PopContents ==
    ASSUME TypeOK, TypeOK', ~Empty, NEW t \in Threads, Pop(t)
    PROVE  /\ Contents # << >>
           /\ apvBuffer[u32Front] = Head(Contents)
           /\ Contents' = Tail(Contents)
  <1>1. u32Front' = IF u32Front + 1 = u32Length THEN 0 ELSE u32Front + 1
    BY SuccInSlots DEF TypeOK, Pop
  <1>2. u32Front # u32Rear
    BY DEF Empty
  <1>3. u32Rear' = u32Rear /\ apvBuffer' = apvBuffer
    BY DEF Pop
  <1>4. Count' = Count - 1 /\ Count \in Nat /\ Count > 0
    BY <1>1, <1>2, <1>3, RingNumbers DEF Count
  <1>5. At(u32Front, 1) = u32Front
    BY RingNumbers DEF At
  <1>6. \A i \in 1 .. Count - 1 : At(u32Front', i) = At(u32Front, i + 1)
    BY <1>1, <1>4, RingNumbers, CountRange DEF At
  <1>7. Contents' = [i \in 1 .. Count - 1 |-> apvBuffer[At(u32Front', i)]]
    <2>1. \A i \in 1 .. Count - 1 : i \in 1 .. u32Length
      BY <1>4, CountRange, RingNumbers
    <2> QED  BY <1>3, <1>4, <2>1, RingIndex DEF Contents, TypeOK
  <1>8. Contents' = [i \in 1 .. Count - 1 |-> apvBuffer[At(u32Front, i + 1)]]
    BY <1>6, <1>7
  <1>9. \A i \in 1 .. Count - 1 : Contents[i + 1] = apvBuffer[At(u32Front, i + 1)]
    BY <1>4, ContentsAt
  <1>10. Contents # << >> /\ Head(Contents) = Contents[1]
    BY <1>4, ContentsType
  <1>11. Contents[1] = apvBuffer[u32Front]
    BY <1>4, <1>5, ContentsAt
  <1>12. Tail(Contents) = [i \in 1 .. Count - 1 |-> Contents[i + 1]]
    <2>1. /\ Tail(Contents) \in Seq(Data \cup {NoData})
          /\ Len(Tail(Contents)) = Count - 1
          /\ \A i \in 1 .. Count - 1 : Tail(Contents)[i] = Contents[i + 1]
      BY <1>4, <1>10, ContentsType, HeadTailProperties
    <2>2. DOMAIN Tail(Contents) = 1 .. Count - 1
      BY <2>1, LenProperties
    <2>3. Tail(Contents) = [i \in DOMAIN Tail(Contents) |-> Tail(Contents)[i]]
      BY <2>1, LenProperties
    <2> QED  BY <2>1, <2>2, <2>3
  <1> QED  BY <1>8, <1>9, <1>10, <1>11, <1>12

\* A step that leaves the ring alone leaves the list alone.
LEMMA SameContents == UNCHANGED ring => UNCHANGED <<Contents, Count>>
  BY DEF ring, Contents, Count

-----------------------------------------------------------------------------
\* A broadcast takes no one in or out of an enqueue or a dequeue.
LEMMA WakeKeepsCall ==
    ASSUME NEW p \in [Threads -> PCs], NEW t \in Threads
    PROVE  \A w \in {WakeData(p)[t], WakeSpace(p)[t]} :
             /\ w \in {"enqueue", "space_wait"} <=> p[t] \in {"enqueue", "space_wait"}
             /\ w \in {"dequeue", "data_wait", "timed", "timed_wait", "expired"} <=>
                  p[t] \in {"dequeue", "data_wait", "timed", "timed_wait", "expired"}
  BY DEF WakeData, WakeSpace, PCs

\* Ownership is inductive once the types are known.
LEMMA OwnedNext == TypeOK /\ TypeOK' /\ Owned /\ [Next]_vars => Owned'
  <1> SUFFICES ASSUME TypeOK, TypeOK', Owned, [Next]_vars  PROVE Owned'
    OBVIOUS
  <1>0. pc \in [Threads -> PCs] /\ item \in [Threads -> Data \cup {NoData}]
    BY DEF TypeOK
  <1>1. ASSUME NEW t \in Threads, NEW d \in Data, Supply(t, d)  PROVE Owned'
    <2>1. Contents' = Contents /\ Count' = Count
      BY <1>1, SameContents DEF Supply
    <2> QED  BY <1>0, <1>1, <2>1, MQueueAssumption DEF Supply, Owned
  <1>2. ASSUME NEW t \in Threads, Discard(t)  PROVE Owned'
    <2>1. Contents' = Contents /\ Count' = Count
      BY <1>2, SameContents DEF Discard
    <2>2. \A i \in 1 .. Count : Contents[i] # NoData
      BY MQueueAssumption DEF Owned
    <2> QED  BY <1>0, <1>2, <2>1, <2>2 DEF Discard, Owned
  <1>3. ASSUME UNCHANGED <<Contents, Count, item>>,
               \A t \in Threads :
                  /\ pc'[t] \in {"enqueue", "space_wait"} => item[t] # NoData
                  /\ pc'[t] \in {"dequeue", "data_wait", "timed", "timed_wait", "expired"} =>
                       item[t] = NoData
        PROVE Owned'
    BY <1>3 DEF Owned
  <1>4. ASSUME NEW t \in Threads, NEW k \in {"dequeue", "timed"},
               CallEnqueue(t) \/ CallDequeue(t, k)
        PROVE Owned'
    <2>1. UNCHANGED ring /\ UNCHANGED item
      BY <1>4 DEF CallEnqueue, CallDequeue
    <2> QED  BY <1>0, <1>3, <1>4, <2>1, SameContents DEF CallEnqueue, CallDequeue, Owned
  <1>5. ASSUME NEW t \in Threads, Push(t), ~Full, item[t] # NoData  PROVE Owned'
    <2>1. Contents' = Append(Contents, item[t])
      BY <1>5, PushContents
    <2>2. Contents \in Seq(Data \cup {NoData}) /\ Len(Contents) = Count
      BY ContentsType
    <2>3. /\ Len(Contents') = Count + 1
          /\ \A i \in 1 .. Count : Contents'[i] = Contents[i]
          /\ Contents'[Count + 1] = item[t]
      BY <1>0, <2>1, <2>2, AppendProperties
    <2>4. Count' = Count + 1 /\ Count \in Nat
      <3>1. (Contents' \in Seq(Data \cup {NoData}) /\ Len(Contents') = Count + 1)
        BY <1>0, <2>1, <2>2, <2>3, AppendProperties
      <3>2. u32Rear' # u32Front /\ u32Front' = u32Front
        BY <1>5 DEF Push, Full
      <3>3. u32Rear' = IF u32Rear + 1 = u32Length THEN 0 ELSE u32Rear + 1
        BY <1>5, SuccInSlots DEF TypeOK, Push
      <3> QED  BY <3>2, <3>3, RingNumbers DEF Count
    <2>5. \A i \in 1 .. Count' : i \in 1 .. Count \/ i = Count + 1
      BY <2>4
    <2>6. \A i \in 1 .. Count' : Contents'[i] \in Data
      BY <1>0, <1>5, <2>3, <2>5 DEF Owned
    <2>7. \A i, j \in 1 .. Count' : Contents'[i] = Contents'[j] => i = j
      BY <1>0, <1>5, <2>3, <2>5 DEF Owned
    <2>8. \A u \in Threads, i \in 1 .. Count' : item'[u] # Contents'[i]
      <3> SUFFICES ASSUME NEW u \in Threads, NEW i \in 1 .. Count'
                   PROVE  item'[u] # Contents'[i]
        OBVIOUS
      <3>1. CASE u = t
        BY <1>0, <1>5, <3>1, <2>6, MQueueAssumption DEF Push
      <3>2. CASE u # t
        BY <1>0, <1>5, <3>2, <2>3, <2>5 DEF Push, Owned
      <3> QED  BY <3>1, <3>2
    <2>9. \A u, v \in Threads : item'[u] = item'[v] /\ item'[u] # NoData => u = v
      BY <1>0, <1>5 DEF Push, Owned
    <2>10. [pc EXCEPT ![t] = "idle"] \in [Threads -> PCs]
      BY <1>0 DEF PCs
    <2>11. \A u \in Threads :
             /\ pc'[u] \in {"enqueue", "space_wait"} => item'[u] # NoData
             /\ pc'[u] \in {"dequeue", "data_wait", "timed", "timed_wait", "expired"} =>
                  item'[u] = NoData
      <3> DEFINE p == [pc EXCEPT ![t] = "idle"]
      <3>1. pc' = WakeData(p) /\ p \in [Threads -> PCs]
        BY <1>5, <2>10 DEF Push
      <3>2. p[t] = "idle" /\ \A u \in Threads : u # t => p[u] = pc[u] /\ item'[u] = item[u]
        BY <1>0, <1>5 DEF Push
      <3> HIDE DEF p
      <3>3. \A u \in Threads :
              /\ pc'[u] \in {"enqueue", "space_wait"} <=> p[u] \in {"enqueue", "space_wait"}
              /\ pc'[u] \in {"dequeue", "data_wait", "timed", "timed_wait", "expired"} <=>
                   p[u] \in {"dequeue", "data_wait", "timed", "timed_wait", "expired"}
        BY <3>1, WakeKeepsCall
      <3> QED  BY <3>2, <3>3 DEF Owned
    <2> QED  BY <2>6, <2>7, <2>8, <2>9, <2>11 DEF Owned
  <1>6. ASSUME NEW t \in Threads, Pop(t), ~Empty, item[t] = NoData  PROVE Owned'
    <2>1. Contents # << >> /\ Contents' = Tail(Contents) /\ item'[t] = Contents[1]
      <3>1. Contents # << >> /\ Contents' = Tail(Contents) /\ apvBuffer[u32Front] = Head(Contents)
        BY <1>6, PopContents
      <3> QED  BY <1>0, <1>6, <3>1, ContentsType DEF Pop
    <2>2. Contents \in Seq(Data \cup {NoData}) /\ Len(Contents) = Count /\ Count \in Nat
      BY ContentsType, CountRange, RingNumbers
    <2>3. /\ Len(Contents') = Count - 1
          /\ \A i \in 1 .. Count - 1 : Contents'[i] = Contents[i + 1]
      BY <2>1, <2>2, HeadTailProperties
    <2>4. Count' = Count - 1 /\ Count > 0
      <3>1. u32Front # u32Rear /\ u32Rear' = u32Rear
        BY <1>6 DEF Pop, Empty
      <3>2. u32Front' = IF u32Front + 1 = u32Length THEN 0 ELSE u32Front + 1
        BY <1>6, SuccInSlots DEF TypeOK, Pop
      <3> QED  BY <3>1, <3>2, RingNumbers DEF Count
    <2>5. \A i \in 1 .. Count' : i \in 1 .. Count - 1 /\ i + 1 \in 1 .. Count
      BY <2>2, <2>4
    <2>6. \A i \in 1 .. Count' : Contents'[i] \in Data
      BY <2>3, <2>5 DEF Owned
    <2>7. \A i, j \in 1 .. Count' : Contents'[i] = Contents'[j] => i = j
      <3> SUFFICES ASSUME NEW i \in 1 .. Count', NEW j \in 1 .. Count',
                          Contents[i + 1] = Contents[j + 1]
                   PROVE  i = j
        BY <2>3, <2>5
      <3>1. i + 1 = j + 1
        BY <2>5 DEF Owned
      <3> QED  BY <3>1, <2>2, <2>4
    <2>8. 1 \in 1 .. Count /\ item'[t] \in Data
      BY <2>1, <2>2, <2>4 DEF Owned
    <2>9. \A u \in Threads, i \in 1 .. Count' : item'[u] # Contents'[i]
      <3> SUFFICES ASSUME NEW u \in Threads, NEW i \in 1 .. Count'
                   PROVE  item'[u] # Contents[i + 1]
        BY <2>3, <2>5
      <3>1. CASE u = t
        <4>1. i + 1 # 1
          BY <2>2, <2>4
        <4> QED  BY <3>1, <4>1, <2>1, <2>5, <2>8 DEF Owned
      <3>2. CASE u # t
        BY <1>0, <1>6, <3>2, <2>5 DEF Pop, Owned
      <3> QED  BY <3>1, <3>2
    <2>10. \A u, v \in Threads : item'[u] = item'[v] /\ item'[u] # NoData => u = v
      BY <1>0, <1>6, <2>1, <2>8 DEF Pop, Owned
    <2>11. [pc EXCEPT ![t] = "idle"] \in [Threads -> PCs]
      BY <1>0 DEF PCs
    <2>12. \A u \in Threads :
             /\ pc'[u] \in {"enqueue", "space_wait"} => item'[u] # NoData
             /\ pc'[u] \in {"dequeue", "data_wait", "timed", "timed_wait", "expired"} =>
                  item'[u] = NoData
      <3> DEFINE p == [pc EXCEPT ![t] = "idle"]
      <3>1. pc' = WakeSpace(p) /\ p \in [Threads -> PCs]
        BY <1>6, <2>11 DEF Pop
      <3>2. p[t] = "idle" /\ \A u \in Threads : u # t => p[u] = pc[u] /\ item'[u] = item[u]
        BY <1>0, <1>6 DEF Pop
      <3> HIDE DEF p
      <3>3. \A u \in Threads :
              /\ pc'[u] \in {"enqueue", "space_wait"} <=> p[u] \in {"enqueue", "space_wait"}
              /\ pc'[u] \in {"dequeue", "data_wait", "timed", "timed_wait", "expired"} <=>
                   p[u] \in {"dequeue", "data_wait", "timed", "timed_wait", "expired"}
        BY <3>1, WakeKeepsCall
      <3> QED  BY <3>2, <3>3 DEF Owned
    <2> QED  BY <2>6, <2>7, <2>9, <2>10, <2>12 DEF Owned
  <1>7. ASSUME NEW t \in Threads, EnqueueExFull(t)  PROVE Owned'
    <2>1. UNCHANGED ring /\ UNCHANGED item
      BY <1>7 DEF EnqueueExFull
    <2> QED  BY <1>0, <1>3, <1>7, <2>1, SameContents, WakeKeepsCall DEF EnqueueExFull, Owned
  <1>8. ASSUME NEW t \in Threads,
               EnqueueWait(t) \/ DequeueWait(t) \/ TimedExpire(t) \/ TimedReturn(t)
        PROVE Owned'
    <2>1. UNCHANGED ring /\ UNCHANGED item
      BY <1>8 DEF EnqueueWait, DequeueWait, TimedExpire, TimedReturn
    <2> QED
      BY <1>0, <1>3, <1>8, <2>1, SameContents
      DEF EnqueueWait, DequeueWait, TimedExpire, TimedReturn, Owned
  <1>9. ASSUME NEW t \in Threads, NEW now \in 0 .. TicksPerSec - 1, NEW wait \in WaitTimes,
               TimedWait(t, now, wait)
        PROVE Owned'
    <2>1. UNCHANGED ring /\ UNCHANGED item
      BY <1>9 DEF TimedWait
    <2> QED  BY <1>0, <1>3, <1>9, <2>1, SameContents DEF TimedWait, Owned
  <1>10. ASSUME NEW t \in Threads, IsEmpty(t) \/ IsFullReadRear(t) \/ IsFullReadFront(t)
         PROVE Owned'
    <2>1. UNCHANGED ring /\ UNCHANGED item
      BY <1>10 DEF IsEmpty, IsFullReadRear, IsFullReadFront
    <2> QED
      BY <1>0, <1>3, <1>10, <2>1, SameContents
      DEF IsEmpty, IsFullReadRear, IsFullReadFront, Owned
  <1>11. ASSUME NEW t \in Threads, SpuriousWake(t)  PROVE Owned'
    <2>1. UNCHANGED ring /\ UNCHANGED item
      BY <1>11 DEF SpuriousWake
    <2>2. WakeSpace(WakeData(pc))[t] \in {WakeSpace(WakeData(pc))[t], WakeData(WakeData(pc))[t]}
      OBVIOUS
    <2> QED
      BY <1>0, <1>3, <1>11, <2>1, SameContents, WakeType, WakeKeepsCall DEF SpuriousWake, Owned
  <1>12. CASE UNCHANGED vars
    BY <1>3, <1>12, SameContents DEF vars, ring, Owned
  <1> QED
    BY <1>1, <1>2, <1>4, <1>5, <1>6, <1>7, <1>8, <1>9, <1>10, <1>11, <1>12
    DEF Next, Progress, Call, EnqueuePut, EnqueueExPut, DequeueTake, Owned

\* The pointers are never duplicated and never lost track of, so that the
\* malloc/free discipline of the callers is sound.
THEOREM PointersOwned == Spec => []Owned
  <1>1. Init => Owned
    BY MQueueAssumption DEF Init, Owned, Count
  <1>2. TypeOK /\ [Next]_vars => TypeOK'
    BY TypeNext
  <1> QED  BY <1>1, OwnedNext, TypeCorrect, PTL DEF Spec

-----------------------------------------------------------------------------
\* Every step of the ring is a step of the list or leaves the list alone.
LEMMA StepSimulation ==
    TypeOK /\ TypeOK' /\ Owned /\ [Next]_vars => [Fifo!FifoNext]_Fifo!fifoVars
  <1> SUFFICES ASSUME TypeOK, TypeOK', Owned, [Next]_vars
               PROVE  Fifo!FifoNext \/ UNCHANGED <<Contents, item>>
    BY DEF Fifo!fifoVars
  <1>0. Len(Contents) = Count /\ Count \in Nat /\ u32Length \in Nat \ {0}
    BY ContentsType, CountRange, RingNumbers
  <1>1. ASSUME NEW t \in Threads, NEW d \in Data, Supply(t, d)  PROVE Fifo!FifoNext
    <2>1. Contents' = Contents
      BY <1>1, SameContents DEF Supply
    <2>2. Fifo!Supply(t, d)
      BY <1>0, <1>1, <2>1 DEF Supply, Fifo!Supply, Fifo!Unused, Fifo!InQueue
    <2> QED  BY <2>2 DEF Fifo!FifoNext
  <1>2. ASSUME NEW t \in Threads, Discard(t)  PROVE Fifo!FifoNext
    <2>1. Contents' = Contents
      BY <1>2, SameContents DEF Discard
    <2>2. Fifo!Discard(t)
      BY <1>2, <2>1 DEF Discard, Fifo!Discard
    <2> QED  BY <2>2 DEF Fifo!FifoNext
  <1>3. ASSUME NEW t \in Threads, Push(t), ~Full, item[t] # NoData  PROVE Fifo!FifoNext
    <2>1. Contents' = Append(Contents, item[t])
      BY <1>3, PushContents
    <2>2. Len(Contents) < u32Length - 1
      BY <1>0, <1>3, CountRange
    <2>3. Fifo!Put(t)
      BY <1>3, <2>1, <2>2 DEF Push, Fifo!Put
    <2> QED  BY <2>3 DEF Fifo!FifoNext
  <1>4. ASSUME NEW t \in Threads, Pop(t), ~Empty, item[t] = NoData  PROVE Fifo!FifoNext
    <2>1. Contents # << >> /\ apvBuffer[u32Front] = Head(Contents) /\ Contents' = Tail(Contents)
      BY <1>4, PopContents
    <2>2. Fifo!Take(t)
      BY <1>4, <2>1 DEF Pop, Fifo!Take
    <2> QED  BY <2>2 DEF Fifo!FifoNext
  <1>5. ASSUME UNCHANGED ring, UNCHANGED item  PROVE UNCHANGED <<Contents, item>>
    BY <1>5, SameContents
  <1> QED
    BY <1>1, <1>2, <1>3, <1>4, <1>5
    DEF Next, Progress, Call, EnqueuePut, EnqueueExPut, DequeueTake, Owned, vars, ring,
        CallEnqueue, CallDequeue, EnqueueWait, EnqueueExFull, DequeueWait, TimedWait,
        TimedExpire, TimedReturn, SpuriousWake, IsEmpty, IsFullReadRear, IsFullReadFront

\* mqueue.c implements a bounded first-in first-out list, for any number of
\* producers and consumers and any mix of its blocking, timed and
\* non-blocking functions.
THEOREM MQueueIsFifo == Spec => ImplementsFifo
  <1>1. Init => Fifo!FifoInit
    <2> SUFFICES ASSUME Init  PROVE Fifo!FifoInit
      OBVIOUS
    <2>1. Count = 0
      BY DEF Init, Count
    <2>2. Contents = << >>
      BY <2>1 DEF Contents
    <2> QED  BY <2>2 DEF Init, Fifo!FifoInit
  <1>2. TypeOK /\ [Next]_vars => TypeOK'
    BY TypeNext
  <1> QED
    BY <1>1, StepSimulation, PointersOwned, TypeCorrect, PTL
    DEF Spec, ImplementsFifo, Fifo!FifoSpec

-----------------------------------------------------------------------------
\* Why mQueueIsFull may go without the lock: only producers move u32Rear, so
\* the rear a sole producer has read is still the rear when it reads the
\* front, and afterwards the front only moves away from it.
RearIsMine ==
    /\ \A t \in Threads : pc[t] \in {"enqueue", "space_wait", "isfull"} => t \in Producers
    /\ \A t \in Producers : Producers = {t} =>
         /\ pc[t] = "isfull" => rearSeen[t] = u32Rear
         /\ ret[t] = "notfull" => ~Full

LEMMA RearIsMineNext == TypeOK /\ RearIsMine /\ [Next]_vars => RearIsMine'
  <1> SUFFICES ASSUME TypeOK, RearIsMine, [Next]_vars  PROVE RearIsMine'
    OBVIOUS
  <1>0. /\ pc \in [Threads -> PCs] /\ ret \in [Threads -> Statuses]
        /\ rearSeen \in [Threads -> Slots] /\ Producers \subseteq Threads
    BY DEF TypeOK, Threads
  <1>1. ASSUME UNCHANGED ring, UNCHANGED rearSeen,
               \A u \in Threads : pc'[u] \in {"enqueue", "space_wait", "isfull"} =>
                 pc[u] \in {"enqueue", "space_wait", "isfull"} \/ u \in Producers,
               \A u \in Producers : pc'[u] = "isfull" => pc[u] = "isfull",
               \A u \in Producers : ret'[u] = "notfull" => ret[u] = "notfull"
        PROVE RearIsMine'
    BY <1>0, <1>1 DEF RearIsMine, ring, Full, Succ
  <1>2. ASSUME NEW t \in Threads,
               \/ \E d \in Data : Supply(t, d)
               \/ Discard(t) \/ IsEmpty(t)
        PROVE RearIsMine'
    BY <1>0, <1>1, <1>2 DEF Supply, Discard, IsEmpty
  <1>3. ASSUME NEW t \in Threads, NEW k \in {"dequeue", "timed"},
               CallEnqueue(t) \/ CallDequeue(t, k)
        PROVE RearIsMine'
    BY <1>0, <1>1, <1>3 DEF CallEnqueue, CallDequeue
  <1>4. ASSUME NEW t \in Threads,
               \/ EnqueueWait(t) \/ DequeueWait(t) \/ TimedExpire(t) \/ TimedReturn(t)
               \/ \E now \in 0 .. TicksPerSec - 1, wait \in WaitTimes : TimedWait(t, now, wait)
        PROVE RearIsMine'
    BY <1>0, <1>1, <1>4 DEF EnqueueWait, DequeueWait, TimedExpire, TimedReturn, TimedWait
  <1>5. ASSUME NEW t \in Producers, Push(t)  PROVE RearIsMine'
    <2>1. [pc EXCEPT ![t] = "idle"] \in [Threads -> PCs]
      BY <1>0 DEF PCs
    <2>2. \A u \in Threads : pc'[u] \in {"enqueue", "space_wait", "isfull"} => u \in Producers
      BY <1>0, <1>5, <2>1 DEF Push, WakeData, RearIsMine, PCs
    <2>3. pc'[t] = "idle" /\ ret'[t] = "OK"
      BY <1>0, <1>5, <2>1 DEF Push, WakeData, PCs
    <2> QED  BY <1>5, <2>2, <2>3 DEF RearIsMine
  <1>6. ASSUME NEW t \in Threads, Pop(t), ~Empty  PROVE RearIsMine'
    <2>1. [pc EXCEPT ![t] = "idle"] \in [Threads -> PCs]
      BY <1>0 DEF PCs
    <2>2. \A u \in Threads : /\ pc'[u] \in {"enqueue", "space_wait", "isfull"} => u \in Producers
                             /\ pc'[u] = "isfull" => pc[u] = "isfull"
      BY <1>0, <1>6, <2>1 DEF Pop, WakeSpace, RearIsMine, PCs
    <2>3. Full' => u32Rear = u32Front
      BY <1>6, SuccInSlots, RingNumbers DEF Pop, Full, TypeOK, Succ
    <2>4. ~Full'
      BY <1>6, <2>3 DEF Empty
    <2>5. rearSeen' = rearSeen /\ u32Rear' = u32Rear
      BY <1>6 DEF Pop
    <2>6. \A u \in Producers : Producers = {u} => (pc'[u] = "isfull" => rearSeen'[u] = u32Rear')
      BY <1>0, <2>2, <2>5 DEF RearIsMine
    <2> QED  BY <2>2, <2>4, <2>6 DEF RearIsMine
  <1>7. ASSUME NEW t \in Threads, EnqueueExFull(t)  PROVE RearIsMine'
    <2>1. \A u \in Threads : pc'[u] \in {"enqueue", "space_wait", "isfull"} <=>
                               pc[u] \in {"enqueue", "space_wait", "isfull"}
      BY <1>0, <1>7 DEF EnqueueExFull, WakeData, PCs
    <2>2. \A u \in Threads : pc'[u] = "isfull" => pc[u] = "isfull"
      BY <1>0, <1>7 DEF EnqueueExFull, WakeData, PCs
    <2> QED  BY <1>0, <1>1, <1>7, <2>1, <2>2 DEF EnqueueExFull
  <1>8. ASSUME NEW t \in Threads, SpuriousWake(t)  PROVE RearIsMine'
    <2>1. \A u \in Threads : /\ pc'[u] \in {"enqueue", "space_wait", "isfull"} =>
                                  pc[u] \in {"enqueue", "space_wait", "isfull"}
                             /\ pc'[u] = "isfull" => pc[u] = "isfull"
      BY <1>0, <1>8 DEF SpuriousWake, WakeSpace, WakeData, PCs
    <2>2. UNCHANGED ring /\ UNCHANGED rearSeen /\ UNCHANGED ret
      BY <1>8 DEF SpuriousWake
    <2>3. \A u \in Producers : pc'[u] = "isfull" => pc[u] = "isfull"
      BY <1>0, <2>1
    <2> QED  BY <1>1, <2>1, <2>2, <2>3
  <1>9. ASSUME NEW t \in Threads, IsFullReadRear(t)  PROVE RearIsMine'
    BY <1>0, <1>9 DEF IsFullReadRear, RearIsMine, ring, Full, Succ
  <1>10. ASSUME NEW t \in Threads, IsFullReadFront(t)  PROVE RearIsMine'
    BY <1>0, <1>10 DEF IsFullReadFront, RearIsMine, ring, Full, Succ
  <1>11. CASE UNCHANGED vars
    BY <1>1, <1>11 DEF vars, ring
  <1> QED
    BY <1>0, <1>2, <1>3, <1>4, <1>5, <1>6, <1>7, <1>8, <1>9, <1>10, <1>11
    DEF Next, Progress, Call, EnqueuePut, EnqueueExPut, DequeueTake, RearIsMine

\* The unlocked mQueueIsFull is a safe test for a queue with one producer.
THEOREM SoleProducerMayTrustNotFull == Spec => []NotFullIsStable
  <1>1. Init => RearIsMine
    BY DEF Init, RearIsMine, Threads
  <1>2. RearIsMine => NotFullIsStable
    BY DEF RearIsMine, NotFullIsStable
  <1> QED  BY <1>1, <1>2, RearIsMineNext, TypeCorrect, PTL DEF Spec

-----------------------------------------------------------------------------
\* Only a consumer dequeues, and what the only one has seen in the ring stays.
FrontIsMine ==
    /\ \A t \in Threads :
         pc[t] \in {"dequeue", "data_wait", "timed", "timed_wait", "expired"} => t \in Consumers
    /\ \A t \in Consumers : Consumers = {t} => (ret[t] = "notempty" => ~Empty)

LEMMA FrontIsMineNext == TypeOK /\ FrontIsMine /\ [Next]_vars => FrontIsMine'
  <1> SUFFICES ASSUME TypeOK, FrontIsMine, [Next]_vars  PROVE FrontIsMine'
    OBVIOUS
  <1> DEFINE Inside == {"dequeue", "data_wait", "timed", "timed_wait", "expired"}
  <1>0. /\ pc \in [Threads -> PCs] /\ ret \in [Threads -> Statuses]
        /\ Consumers \subseteq Threads
    BY DEF TypeOK, Threads
  <1>1. ASSUME UNCHANGED ring,
               \A u \in Threads : pc'[u] \in Inside => pc[u] \in Inside \/ u \in Consumers,
               \A u \in Consumers : ret'[u] = "notempty" => ret[u] = "notempty"
        PROVE FrontIsMine'
    BY <1>0, <1>1 DEF FrontIsMine, ring, Empty
  <1>2. ASSUME NEW t \in Threads,
               \/ \E d \in Data : Supply(t, d)
               \/ Discard(t) \/ CallEnqueue(t) \/ IsFullReadRear(t) \/ IsFullReadFront(t)
        PROVE FrontIsMine'
    BY <1>0, <1>1, <1>2
    DEF Supply, Discard, CallEnqueue, IsFullReadRear, IsFullReadFront, ring
  <1>3. ASSUME NEW t \in Threads, NEW k \in {"dequeue", "timed"}, CallDequeue(t, k)
        PROVE FrontIsMine'
    BY <1>0, <1>1, <1>3 DEF CallDequeue
  <1>4. ASSUME NEW t \in Threads,
               \/ EnqueueWait(t) \/ DequeueWait(t) \/ TimedExpire(t) \/ TimedReturn(t)
               \/ \E now \in 0 .. TicksPerSec - 1, wait \in WaitTimes : TimedWait(t, now, wait)
        PROVE FrontIsMine'
    BY <1>0, <1>1, <1>4 DEF EnqueueWait, DequeueWait, TimedExpire, TimedReturn, TimedWait
  <1>5. ASSUME NEW t \in Threads, Push(t), ~Full  PROVE FrontIsMine'
    <2>1. [pc EXCEPT ![t] = "idle"] \in [Threads -> PCs]
      BY <1>0 DEF PCs
    <2>2. \A u \in Threads : pc'[u] \in Inside => u \in Consumers
      BY <1>0, <1>5, <2>1 DEF Push, WakeData, FrontIsMine, PCs
    <2>3. ~Empty'
      BY <1>5 DEF Push, Full, Empty
    <2> QED  BY <2>2, <2>3 DEF FrontIsMine
  <1>6. ASSUME NEW t \in Consumers, Pop(t)  PROVE FrontIsMine'
    <2>1. [pc EXCEPT ![t] = "idle"] \in [Threads -> PCs]
      BY <1>0 DEF PCs
    <2>2. \A u \in Threads : pc'[u] \in Inside => u \in Consumers
      BY <1>0, <1>6, <2>1 DEF Pop, WakeSpace, FrontIsMine, PCs
    <2>3. ret'[t] = "OK"
      BY <1>0, <1>6 DEF Pop
    <2> QED  BY <1>6, <2>2, <2>3 DEF FrontIsMine
  <1>7. ASSUME NEW t \in Threads, EnqueueExFull(t) \/ SpuriousWake(t)  PROVE FrontIsMine'
    <2>1. \A u \in Threads : pc'[u] \in Inside => pc[u] \in Inside
      BY <1>0, <1>7 DEF EnqueueExFull, SpuriousWake, WakeSpace, WakeData, PCs
    <2>2. UNCHANGED ring /\ \A u \in Consumers : ret'[u] = "notempty" => ret[u] = "notempty"
      BY <1>0, <1>7 DEF EnqueueExFull, SpuriousWake
    <2> QED  BY <1>1, <2>1, <2>2
  <1>8. ASSUME NEW t \in Threads, IsEmpty(t)  PROVE FrontIsMine'
    BY <1>0, <1>8 DEF IsEmpty, FrontIsMine, ring, Empty
  <1>9. CASE UNCHANGED vars
    BY <1>1, <1>9 DEF vars, ring
  <1> QED
    BY <1>0, <1>2, <1>3, <1>4, <1>5, <1>6, <1>7, <1>8, <1>9
    DEF Next, Progress, Call, EnqueuePut, EnqueueExPut, DequeueTake, FrontIsMine

\* mQueueIsEmpty is a safe test for a queue with one consumer, who dequeues
\* with a timeout of 0 after it, whatever the producers do in between.
THEOREM SoleConsumerMayTrustNotEmpty == Spec => []NotEmptyIsStable
  <1>1. Init => FrontIsMine
    BY DEF Init, FrontIsMine, Threads
  <1>2. FrontIsMine => NotEmptyIsStable
    BY DEF FrontIsMine, NotEmptyIsStable
  <1> QED  BY <1>1, <1>2, FrontIsMineNext, TypeCorrect, PTL DEF Spec

=============================================================================
