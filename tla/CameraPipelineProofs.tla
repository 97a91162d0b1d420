------------------------ MODULE CameraPipelineProofs ------------------------
(***************************************************************************)
(* Theorems about CameraPipeline, for every finite number of descriptors   *)
(* and VSE buffers, with or without codec errors, failed creations and     *)
(* stops.                                                                  *)
(***************************************************************************)
EXTENDS CameraPipeline, MThreadProofs, FiniteSetTheorems, ListLemmas

-----------------------------------------------------------------------------
\* Descriptors in two queues, two hands and on the heap: each that is
\* allocated is in one place, and no other is in any.
Apart(p, q, x, y, h) ==
    /\ p \in Seq(Descs) /\ q \in Seq(Descs)
    /\ x \in Descs \cup {Nil} /\ y \in Descs \cup {Nil}
    /\ h \subseteq Descs
    /\ \A i, j \in 1 .. Len(p) : p[i] = p[j] => i = j
    /\ \A i, j \in 1 .. Len(q) : q[i] = q[j] => i = j
    /\ \A i \in 1 .. Len(p), j \in 1 .. Len(q) : p[i] # q[j]
    /\ \A i \in 1 .. Len(p) : p[i] # x /\ p[i] # y
    /\ \A i \in 1 .. Len(q) : q[i] # x /\ q[i] # y
    /\ x = Nil \/ x # y
    /\ \A d \in Descs :
         d \in h <=> \/ \E i \in 1 .. Len(p) : p[i] = d
                     \/ \E i \in 1 .. Len(q) : q[i] = d
                     \/ d = x \/ d = y

LEMMA ApartSymmetric ==
    ASSUME NEW p, NEW q, NEW x, NEW y, NEW h
    PROVE  Apart(p, q, x, y, h) <=> Apart(q, p, y, x, h)
  BY DEF Apart

\* The tail of a queue of descriptors.
LEMMA TailOfDescs ==
    ASSUME NEW p \in Seq(Descs), p # << >>
    PROVE  /\ Tail(p) \in Seq(Descs) /\ Len(Tail(p)) = Len(p) - 1
           /\ Head(p) = p[1] /\ p[1] \in Descs
           /\ 1 \in 1 .. Len(p) /\ Len(p) \in Nat
           /\ \A i \in 1 .. Len(Tail(p)) : Tail(p)[i] = p[i + 1] /\ i + 1 \in 1 .. Len(p)
           /\ \A i \in 1 .. Len(p) : i = 1 \/ \E k \in 1 .. Len(Tail(p)) : Tail(p)[k] = p[i]
  <1>1. /\ Tail(p) \in Seq(Descs) /\ Len(Tail(p)) = Len(p) - 1
        /\ Head(p) = p[1] /\ p[1] \in Descs
        /\ 1 \in 1 .. Len(p) /\ Len(p) \in Nat
    OBVIOUS
  <1>2. \A i \in 1 .. Len(Tail(p)) : Tail(p)[i] = p[i + 1] /\ i + 1 \in 1 .. Len(p)
    OBVIOUS
  <1>3. ASSUME NEW i \in 1 .. Len(p), i # 1
        PROVE  \E k \in 1 .. Len(Tail(p)) : Tail(p)[k] = p[i]
    <2>1. i - 1 \in 1 .. Len(Tail(p))
      BY <1>1, <1>3
    <2>2. Tail(p)[i - 1] = p[i]
      BY <1>1, <1>2, <1>3, <2>1
    <2> QED  BY <2>1, <2>2
  <1> QED  BY <1>1, <1>2, <1>3

\* The head of a queue is taken into an empty hand.
LEMMA ApartTake ==
    ASSUME NEW p, NEW q, NEW y, NEW h, Apart(p, q, Nil, y, h), p # << >>
    PROVE  Apart(Tail(p), q, Head(p), y, h) /\ Head(p) \in Descs
  <1> DEFINE t == Tail(p)  a == Head(p)
  <1>0. p \in Seq(Descs)
    BY DEF Apart
  <1>1. /\ t \in Seq(Descs) /\ Len(t) = Len(p) - 1 /\ a = p[1] /\ a \in Descs
        /\ 1 \in 1 .. Len(p) /\ Len(p) \in Nat
        /\ \A i \in 1 .. Len(t) : t[i] = p[i + 1] /\ i + 1 \in 1 .. Len(p)
        /\ \A i \in 1 .. Len(p) : i = 1 \/ \E k \in 1 .. Len(t) : t[k] = p[i]
    BY <1>0, TailOfDescs
  <1> HIDE DEF t, a
  <1>2. \A i, j \in 1 .. Len(t) : t[i] = t[j] => i = j
    BY SMTT(30), <1>1 DEF Apart
  <1>3. \A i \in 1 .. Len(t) : t[i] # a
    BY <1>1 DEF Apart
  <1>4. \A d \in Descs : (\E i \in 1 .. Len(p) : p[i] = d) <=> (\E i \in 1 .. Len(t) : t[i] = d) \/ d = a
    BY <1>1
  <1>5. Nil \notin Descs
    BY PipelineAssumption
  <1> QED  BY SMTT(30), <1>1, <1>2, <1>3, <1>4, <1>5 DEF Apart, t, a

\* A hand puts its descriptor into the other queue.
LEMMA ApartGive ==
    ASSUME NEW p, NEW q, NEW x \in Descs, NEW y, NEW h, Apart(p, q, x, y, h)
    PROVE  Apart(p, Append(q, x), Nil, y, h)
  <1> DEFINE r == Append(q, x)
  <1>1. /\ r \in Seq(Descs) /\ Len(r) = Len(q) + 1 /\ Len(q) \in Nat
        /\ \A i \in 1 .. Len(q) : r[i] = q[i]
        /\ r[Len(r)] = x
        /\ \A i \in 1 .. Len(r) : i \in 1 .. Len(q) \/ i = Len(r)
    BY DEF Apart
  <1> HIDE DEF r
  <1>2. Nil \notin Descs
    BY PipelineAssumption
  <1>3. \A i \in 1 .. Len(q) : i \in 1 .. Len(r)
    BY <1>1
  <1>4. Len(r) \in 1 .. Len(r)
    BY <1>1
  <1>5. \A i, j \in 1 .. Len(r) : r[i] = r[j] => i = j
    BY <1>1 DEF Apart
  <1>6. \A d \in Descs : (\E i \in 1 .. Len(r) : r[i] = d) <=> (\E i \in 1 .. Len(q) : q[i] = d) \/ d = x
    BY <1>1, <1>3, <1>4
  <1>7. /\ \A i \in 1 .. Len(p), j \in 1 .. Len(r) : p[i] # r[j]
        /\ \A i \in 1 .. Len(p) : p[i] # Nil
        /\ \A j \in 1 .. Len(r) : r[j] # Nil /\ r[j] # y
    BY SMTT(30), <1>1, <1>2 DEF Apart
  <1> QED  BY <1>1, <1>2, <1>5, <1>6, <1>7 DEF Apart, r

\* What a hand holds is freed.
LEMMA ApartFree ==
    ASSUME NEW p, NEW q, NEW x, NEW y, NEW h, Apart(p, q, x, y, h)
    PROVE  Apart(p, q, Nil, y, h \ {x})
  <1>1. Nil \notin Descs
    BY PipelineAssumption
  <1>2. /\ \A i \in 1 .. Len(p) : p[i] \in Descs
        /\ \A i \in 1 .. Len(q) : q[i] \in Descs
    BY DEF Apart
  <1> QED  BY <1>1, <1>2 DEF Apart

\* The head of a queue is freed.
LEMMA ApartDrain ==
    ASSUME NEW p, NEW q, NEW x, NEW y, NEW h, Apart(p, q, x, y, h), p # << >>
    PROVE  Apart(Tail(p), q, x, y, h \ {Head(p)})
  <1> DEFINE t == Tail(p)  a == Head(p)
  <1>0. p \in Seq(Descs)
    BY DEF Apart
  <1>1. /\ t \in Seq(Descs) /\ Len(t) = Len(p) - 1 /\ a = p[1] /\ a \in Descs
        /\ 1 \in 1 .. Len(p) /\ Len(p) \in Nat
        /\ \A i \in 1 .. Len(t) : t[i] = p[i + 1] /\ i + 1 \in 1 .. Len(p)
        /\ \A i \in 1 .. Len(p) : i = 1 \/ \E k \in 1 .. Len(t) : t[k] = p[i]
    BY <1>0, TailOfDescs
  <1> HIDE DEF t, a
  <1>2. \A i, j \in 1 .. Len(t) : t[i] = t[j] => i = j
    BY SMTT(30), <1>1 DEF Apart
  <1>3. \A i \in 1 .. Len(t) : t[i] # a
    BY <1>1 DEF Apart
  <1>4. \A d \in Descs : (\E i \in 1 .. Len(p) : p[i] = d) <=> (\E i \in 1 .. Len(t) : t[i] = d) \/ d = a
    BY <1>1
  <1>5. a # x /\ a # y /\ \A j \in 1 .. Len(q) : q[j] # a
    BY <1>1 DEF Apart
  <1>6. ASSUME NEW d \in Descs
        PROVE  d \in h \ {a} <=> \/ \E i \in 1 .. Len(t) : t[i] = d
                                 \/ \E i \in 1 .. Len(q) : q[i] = d
                                 \/ d = x \/ d = y
    <2>1. d \in h <=> \/ (\E i \in 1 .. Len(t) : t[i] = d) \/ d = a
                      \/ \E i \in 1 .. Len(q) : q[i] = d
                      \/ d = x \/ d = y
      BY <1>4 DEF Apart
    <2>2. CASE d = a
      BY <1>3, <1>5, <2>2
    <2>3. CASE d # a
      BY <2>1, <2>3
    <2> QED  BY <2>2, <2>3
  <1>7. /\ \A i \in 1 .. Len(t), j \in 1 .. Len(q) : t[i] # q[j]
        /\ \A i \in 1 .. Len(t) : t[i] # x /\ t[i] # y
        /\ h \ {a} \subseteq Descs
    BY <1>1 DEF Apart
  <1>8. Apart(t, q, x, y, h \ {a})
    BY <1>1, <1>2, <1>6, <1>7 DEF Apart
  <1> QED  BY <1>8 DEF t, a

\* A queue has room for a descriptor that is in a hand.
LEMMA ApartHasRoom ==
    ASSUME NEW p, NEW q, NEW x \in Descs, NEW y, NEW h, Apart(p, q, x, y, h)
    PROVE  Len(p) < Capacity /\ Len(q) < Capacity
  <1>1. ASSUME NEW s \in Seq(Descs), \A i \in 1 .. Len(s) : s[i] # x,
               \A i, j \in 1 .. Len(s) : s[i] = s[j] => i = j
        PROVE  Len(s) < Capacity
    <2>1. IsFiniteSet(Descs \ {x}) /\ Cardinality(Descs \ {x}) = Cardinality(Descs) - 1
      BY PipelineAssumption, FS_RemoveElement
    <2>2. s \in Injection(1 .. Len(s), Descs \ {x})
      <3>1. s \in [1 .. Len(s) -> Descs] /\ DOMAIN s = 1 .. Len(s)
        BY <1>1
      <3>2. s \in [1 .. Len(s) -> Descs \ {x}]
        BY <1>1, <3>1
      <3> QED  BY <1>1, <3>1, <3>2 DEF Injection, IsInjective
    <2>3. Cardinality(1 .. Len(s)) = Len(s) /\ Len(s) \in Nat
      <3>1. Len(s) \in Nat /\ 1 \in Int
        BY <1>1
      <3>2. Cardinality(1 .. Len(s)) = IF 1 > Len(s) THEN 0 ELSE Len(s) - 1 + 1
        BY <3>1, FS_Interval
      <3> QED  BY <3>1, <3>2
    <2>4. Len(s) <= Cardinality(Descs) - 1
      BY <2>1, <2>2, <2>3, FS_Injection
    <2>5. Cardinality(Descs) \in Nat /\ Cardinality(Descs) = Capacity
      BY PipelineAssumption, FS_CardinalityType DEF Capacity
    <2> QED  BY <2>3, <2>4, <2>5
  <1> QED  BY <1>1 DEF Apart

\* One holder, in the sense of DescriptorsConserved.
LEMMA ApartHolders ==
    ASSUME NEW d \in Descs, Apart(e2v, v2e, vdesc, edesc, heap)
    PROVE  Holders(d) = IF d \in heap THEN 1 ELSE 0
  <1> DEFINE P == {i \in DOMAIN e2v : e2v[i] = d}
             Q == {i \in DOMAIN v2e : v2e[i] = d}
             H == {x \in {<<"vflow", vdesc>>, <<"venc", edesc>>} : x[2] = d}
  <1>0. DOMAIN e2v = 1 .. Len(e2v) /\ DOMAIN v2e = 1 .. Len(v2e) /\ Nil # d
    BY PipelineAssumption DEF Apart
  <1>1. Cardinality({}) = 0 /\ \A x : Cardinality({x}) = 1
    BY FS_EmptySet, FS_Singleton
  <1>2. /\ \A i \in 1 .. Len(e2v) : e2v[i] = d => P = {i}
        /\ (\A i \in 1 .. Len(e2v) : e2v[i] # d) => P = {}
    BY <1>0 DEF Apart
  <1>3. /\ \A i \in 1 .. Len(v2e) : v2e[i] = d => Q = {i}
        /\ (\A i \in 1 .. Len(v2e) : v2e[i] # d) => Q = {}
    BY <1>0 DEF Apart
  <1>4. H = IF vdesc = d THEN {<<"vflow", vdesc>>}
            ELSE IF edesc = d THEN {<<"venc", edesc>>} ELSE {}
    BY <1>0 DEF Apart
  <1>5. Cardinality(P) = IF \E i \in 1 .. Len(e2v) : e2v[i] = d THEN 1 ELSE 0
    <2> HIDE DEF P
    <2> QED  BY <1>1, <1>2
  <1>6. Cardinality(Q) = IF \E i \in 1 .. Len(v2e) : v2e[i] = d THEN 1 ELSE 0
    <2> HIDE DEF Q
    <2> QED  BY <1>1, <1>3
  <1>7. Cardinality(H) = IF vdesc = d \/ edesc = d THEN 1 ELSE 0
    BY <1>1, <1>4
  <1>8. Holders(d) = Cardinality(P) + Cardinality(Q) + Cardinality(H)
    BY DEF Holders
  <1> HIDE DEF P, Q, H
  <1> QED  BY <1>0, <1>5, <1>6, <1>7, <1>8 DEF Apart

-----------------------------------------------------------------------------
\* The threads of the pipeline are threads of MThread.
LEMMA PipelineStepsThreads == [PipelineNext]_vars => [ThreadNext]_threadVars
  <1> SUFFICES ASSUME [PipelineNext]_vars  PROVE [ThreadNext]_threadVars
    OBVIOUS
  <1> USE PipelineAssumption DEF ThreadNext, OwnerStep, WorkerStep
  <1>1. ASSUME NEW w \in Workers, OwnerInside(w)  PROVE [ThreadNext]_threadVars
    BY <1>1 DEF OwnerInside
  <1>2. CASE CreateQueues \/ DrainEnc \/ DrainVse \/ Drained \/ StopHardware
    BY <1>2 DEF CreateQueues, DrainEnc, DrainVse, Drained, StopHardware
  <1>3. CASE StartVflow \/ StartVenc \/ StopVflow \/ StopVenc
    BY <1>3 DEF StartVflow, StartVenc, StopVflow, StopVenc
  <1>4. CASE VflowHead \/ VflowFinish
    BY <1>4 DEF VflowHead, VflowFinish
  <1>5. CASE \/ VflowDequeue \/ VflowWait \/ VflowTimeout \/ VflowGetLoop \/ VflowGet
             \/ VflowGetFails \/ VflowCount \/ VflowPutLoop \/ VflowPut \/ VflowDisplay
             \/ VflowRelease \/ VflowFree
    BY <1>5 DEF VflowDequeue, VflowWait, VflowTimeout, VflowGetLoop, VflowGet, VflowGetFails,
                VflowCount, VflowPutLoop, VflowPut, VflowDisplay, VflowRelease, VflowFree
  <1>6. CASE VencHead \/ VencBreak \/ VencFinish
    BY <1>6 DEF VencHead, VencBreak, VencFinish
  <1>7. CASE \/ VencDequeue \/ VencWait \/ VencTimeout \/ VencSend \/ VencOutLoop \/ VencOut
             \/ VencOutTimeout \/ VencRelease \/ VencUncount \/ VencPutLoop \/ VencPut
             \/ VencReleaseOutput \/ VencFree
    BY <1>7 DEF VencDequeue, VencWait, VencTimeout, VencSend, VencOutLoop, VencOut,
                VencOutTimeout, VencRelease, VencUncount, VencPutLoop, VencPut,
                VencReleaseOutput, VencFree
  <1>8. CASE UNCHANGED vars
    BY <1>8 DEF vars
  <1> QED
    BY <1>1, <1>2, <1>3, <1>4, <1>5, <1>6, <1>7, <1>8 DEF PipelineNext, Owner, Vflow, Venc

-----------------------------------------------------------------------------
\* Where the owner is says which threads can be running, and where a thread
\* is says whether it has a descriptor in its hands.
Idle(w) == call[w] = "none" /\ result[w] \in {"none", "stopped"}
Ending(w) ==
    /\ call[w] \notin {"start", "create"}
    /\ call[w] = "none" => result[w] = "stopped"

Stages == {"off", "startVflow", "startVenc", "running", "stopVenc", "drain", "drained"}

StageInv ==
    /\ stage \in Stages
    /\ stage \in {"off", "startVflow", "drain", "drained"} => Idle(vflow)
    /\ stage \in {"off", "startVflow", "startVenc", "drained"} => Idle(venc)
    /\ stage = "stopVenc" => Ending(vflow)
    /\ stage = "drain" => Ending(venc)
    /\ call[vflow] \in {"start", "create"} => vpc = "head"
    /\ call[venc] \in {"start", "create"} => epc = "head"

\* At the head of its loop a thread that goes on has empty hands; a stop sends
\* it through there with what it could not put.
HandsInv ==
    /\ Quiet(vflow) \/ vpc = "finish" => vdesc = Nil
    /\ Quiet(venc) \/ epc = "finish" => edesc = Nil
    /\ AtV("dequeue") \/ AtV("wait") => vdesc = Nil
    /\ AtE("dequeue") \/ AtE("wait") => edesc = Nil
    /\ AtV("head") \/ AtV("display") => vdesc = Nil \/ ~ Running(vflow)
    /\ AtE("head") \/ AtE("release_output") => edesc = Nil \/ ~ Running(venc)
    /\ worker[vflow] = "loop" /\ vpc \in {"getLoop", "get", "count", "putLoop", "put"}
         => vdesc \in Descs
    /\ worker[venc] = "loop"
         /\ epc \in {"send", "outLoop", "out", "release", "uncount", "putLoop", "put"}
         => edesc \in Descs

PlaceInv ==
    /\ Apart(e2v, v2e, vdesc, edesc, heap)
    /\ stage \in {"off", "drained"} => e2v = << >> /\ v2e = << >>

LEMMA QuietWhenIdle ==
    ASSUME ThreadInv, NEW w \in Workers, Idle(w)  PROVE Quiet(w)
  BY DEF ThreadInv, Lifecycle, RunningIsStarted, Idle

\* A running thread is not made to run again.
LEMMA RunningOnlyEnds ==
    ASSUME ThreadInv, NEW w \in Workers, NEW v \in Workers, OwnerInside(v)
    PROVE  \/ worker'[w] = worker[w] /\ (eState'[w] = "RUNNING" => eState[w] = "RUNNING" \/ Quiet(w))
           \/ Quiet(w) /\ worker'[w] \notin {"loop", "leaving"}
           \/ call[w] = "create" /\ Quiet(w) /\ worker'[w] = "loop"
  <1> USE DEF ThreadInv, ThreadTypeOK, Lifecycle, RunningIsStarted, CallAgrees, Quiet
  <1>1. CASE StopSleep(v)
    BY <1>1 DEF StopSleep, threadVars
  <1>2. CASE StartMark(v)
    BY <1>2 DEF StartMark
  <1>3. CASE CreateOk(v)
    BY <1>3 DEF CreateOk
  <1>4. CASE CreateFails(v)
    BY <1>4 DEF CreateFails
  <1>5. CASE StopMark(v) \/ StopKill(v) \/ StopPoll(v)
    BY <1>5 DEF StopMark, StopKill, StopPoll
  <1>6. CASE StopJoin(v)
    BY <1>6 DEF StopJoin
  <1>7. CASE StopEnd(v)
    BY <1>7 DEF StopEnd
  <1> QED
    BY <1>1, <1>2, <1>3, <1>4, <1>5, <1>6, <1>7 DEF OwnerInside, OwnerStep

LEMMA StageNext == ThreadInv /\ StageInv /\ [PipelineNext]_vars => StageInv'
  <1> SUFFICES ASSUME ThreadInv, StageInv, [PipelineNext]_vars  PROVE StageInv'
    OBVIOUS
  <1> USE PipelineAssumption DEF StageInv, Stages, Idle, Ending, ThreadInv, ThreadTypeOK, Calls,
                                 Results, Lifecycle, CallAgrees
  <1>1. CASE CreateQueues \/ DrainEnc \/ DrainVse \/ Drained \/ StopHardware
    BY <1>1 DEF CreateQueues, DrainEnc, DrainVse, Drained, StopHardware, threadVars,
                vflowLocals, vencLocals, OwnerFree
  <1>2. CASE StartVflow \/ StartVenc
    BY <1>2 DEF StartVflow, StartVenc, StartCall, OwnerFree, vflowLocals, vencLocals
  <1>3. CASE StopVflow \/ StopVenc
    BY <1>3 DEF StopVflow, StopVenc, StopCall, OwnerFree, vflowLocals, vencLocals
  <1>4. ASSUME NEW w \in Workers, OwnerInside(w)  PROVE StageInv'
    BY <1>4 DEF OwnerInside, OwnerStep, StartMark, CreateOk, CreateFails, StopMark, StopKill,
                StopJoin, StopPoll, StopEnd, StopSleep, threadVars, shared, vflowLocals, vencLocals
  <1>5. ASSUME call' = call, result' = result, stage' = stage,
               vpc' = vpc \/ worker[vflow] \in {"loop", "leaving"},
               epc' = epc \/ worker[venc] \in {"loop", "leaving"}
        PROVE  StageInv'
    BY <1>5 DEF RunningIsStarted, Quiet
  <1>6. CASE Vflow
    BY <1>5, <1>6 DEF Vflow, VflowHead, VflowDequeue, VflowWait, VflowTimeout, VflowGetLoop,
                VflowGet, VflowGetFails, VflowCount, VflowPutLoop, VflowPut, VflowDisplay,
                VflowRelease, VflowFree, VflowFinish, AtV, LeaveLoop, FinishMark, FinishExit,
                threadVars, shared, vflowLocals, vencLocals
  <1>7. CASE Venc
    BY <1>5, <1>7 DEF Venc, VencHead, VencDequeue, VencWait, VencTimeout, VencBreak, VencSend,
                VencOutLoop, VencOut, VencOutTimeout, VencRelease, VencUncount, VencPutLoop,
                VencPut, VencReleaseOutput, VencFree, VencFinish, AtE, LeaveLoop, BreakLoop,
                FinishMark, FinishExit, threadVars, shared, vflowLocals, vencLocals
  <1>8. CASE UNCHANGED vars
    BY <1>5, <1>8 DEF vars, threadVars, shared, vflowLocals, vencLocals
  <1> QED
    BY <1>1, <1>2, <1>3, <1>4, <1>6, <1>7, <1>8 DEF PipelineNext, Owner

LEMMA HandsNext ==
    ThreadInv /\ StageInv /\ HandsInv /\ PlaceInv /\ [PipelineNext]_vars => HandsInv'
  <1> SUFFICES ASSUME ThreadInv, StageInv, HandsInv, PlaceInv, [PipelineNext]_vars
               PROVE  HandsInv'
    OBVIOUS
  <1>0. /\ vflow \in Workers /\ venc \in Workers /\ vflow # venc
        /\ worker \in [Workers -> WorkerStates]
    BY PipelineAssumption DEF ThreadInv, ThreadTypeOK
  <1> USE DEF AtV, AtE, Running, HandsInv
  <1>1. CASE CreateQueues \/ DrainEnc \/ DrainVse \/ Drained \/ StopHardware
    BY <1>1 DEF CreateQueues, DrainEnc, DrainVse, Drained, StopHardware, threadVars,
       vflowLocals, vencLocals, Quiet
  <1>2. CASE StartVflow
    BY <1>0, <1>2 DEF StartVflow, StartCall, vencLocals, Quiet
  <1>3. CASE StartVenc
    BY <1>0, <1>3 DEF StartVenc, StartCall, vflowLocals, Quiet
  <1>4. CASE StopVflow \/ StopVenc
    BY <1>4 DEF StopVflow, StopVenc, StopCall, vflowLocals, vencLocals, Quiet
  <1>5. ASSUME NEW w \in Workers, OwnerInside(w)  PROVE HandsInv'
    <2>1. UNCHANGED <<vpc, vdesc, epc, edesc>>
      BY <1>5 DEF OwnerInside, vflowLocals, vencLocals
    <2>2. /\ call[vflow] = "create" => vpc = "head"
          /\ call[venc] = "create" => epc = "head"
      BY DEF StageInv
    <2>3. \/ worker'[vflow] = worker[vflow] /\ (Running(vflow)' => Running(vflow) \/ Quiet(vflow))
          \/ Quiet(vflow) /\ Quiet(vflow)'
          \/ Quiet(vflow) /\ vpc = "head" /\ worker'[vflow] = "loop"
      BY <1>0, <1>5, <2>2, RunningOnlyEnds DEF Quiet
    <2>4. \/ worker'[venc] = worker[venc] /\ (Running(venc)' => Running(venc) \/ Quiet(venc))
          \/ Quiet(venc) /\ Quiet(venc)'
          \/ Quiet(venc) /\ epc = "head" /\ worker'[venc] = "loop"
      BY <1>0, <1>5, <2>2, RunningOnlyEnds DEF Quiet
    <2> QED  BY <2>1, <2>3, <2>4 DEF Quiet
  <1>6a. CASE VflowHead
    BY <1>0, <1>6a DEF VflowHead, LeaveLoop, threadVars, vencLocals, Quiet
  <1>6b. CASE VflowFinish
    <2>1. UNCHANGED <<vpc, vdesc, epc, edesc>> /\ vpc = "finish" /\ vdesc = Nil
      BY <1>6b DEF VflowFinish, vflowLocals, vencLocals
    <2>2. worker'[venc] = worker[venc] /\ eState'[venc] = eState[venc]
      BY <1>0, <1>6b DEF VflowFinish, FinishMark, FinishExit, ThreadInv, ThreadTypeOK
    <2> QED  BY <2>1, <2>2 DEF Quiet
  <1>7. CASE VflowDequeue
    BY <1>0, <1>7, ApartTake DEF VflowDequeue, PlaceInv, threadVars, vencLocals, Quiet
  <1>8a. CASE VflowWait \/ VflowTimeout \/ VflowGetLoop \/ VflowGet \/ VflowGetFails
    BY <1>8a DEF VflowWait, VflowTimeout, VflowGetLoop, VflowGet, VflowGetFails, threadVars,
       shared, vencLocals, Quiet
  <1>8b. CASE VflowCount \/ VflowPutLoop \/ VflowPut
    BY <1>8b DEF VflowCount, VflowPutLoop, VflowPut, threadVars, shared, vencLocals, Quiet
  <1>8c. CASE VflowDisplay \/ VflowRelease \/ VflowFree
    BY <1>8c DEF VflowDisplay, VflowRelease, VflowFree, threadVars, shared, vencLocals, Quiet
  <1>9a. CASE VencHead
    BY <1>0, <1>9a DEF VencHead, LeaveLoop, threadVars, vflowLocals, Quiet
  <1>9b. CASE VencBreak
    BY <1>0, <1>9b DEF VencBreak, BreakLoop, vflowLocals, Quiet
  <1>9c. CASE VencFinish
    <2>1. UNCHANGED <<vpc, vdesc, epc, edesc>> /\ epc = "finish" /\ edesc = Nil
      BY <1>9c DEF VencFinish, vflowLocals, vencLocals
    <2>2. worker'[vflow] = worker[vflow] /\ eState'[vflow] = eState[vflow]
      BY <1>0, <1>9c DEF VencFinish, FinishMark, FinishExit, ThreadInv, ThreadTypeOK
    <2> QED  BY <2>1, <2>2 DEF Quiet
  <1>10. CASE VencDequeue
    BY <1>0, <1>10, ApartTake, ApartSymmetric DEF VencDequeue, PlaceInv, threadVars, vflowLocals,
       Quiet
  <1>11a. CASE VencWait \/ VencTimeout \/ VencSend \/ VencOutLoop \/ VencOut \/ VencOutTimeout
    BY <1>11a DEF VencWait, VencTimeout, VencSend, VencOutLoop, VencOut, VencOutTimeout,
       threadVars, shared, vflowLocals, Quiet
  <1>11b. CASE VencRelease
    BY <1>11b DEF VencRelease, threadVars, vflowLocals, Quiet
  <1>11e. CASE VencUncount
    BY <1>11e DEF VencUncount, threadVars, vflowLocals, Quiet
  <1>11d. CASE VencPutLoop \/ VencPut
    BY <1>11d DEF VencPutLoop, VencPut, threadVars, shared, vflowLocals, Quiet
  <1>11c. CASE VencReleaseOutput \/ VencFree
    BY <1>11c DEF VencReleaseOutput, VencFree, threadVars, shared, vflowLocals, Quiet
  <1>12. CASE UNCHANGED vars
    BY <1>12 DEF vars, threadVars, vflowLocals, vencLocals, Quiet
  <1> QED
    BY <1>1, <1>2, <1>3, <1>4, <1>5, <1>6a, <1>6b, <1>7, <1>8a, <1>8b, <1>8c, <1>9a, <1>9b,
       <1>9c, <1>10, <1>11a, <1>11b, <1>11c, <1>11d, <1>11e, <1>12
    DEF PipelineNext, Owner, Vflow, Venc

\* The queues start with each descriptor once.
LEMMA SetToSeqOfDescs ==
    /\ SetToSeq(Descs) \in Seq(Descs)
    /\ Len(SetToSeq(Descs)) = Cardinality(Descs)
    /\ \A i, j \in 1 .. Len(SetToSeq(Descs)) : SetToSeq(Descs)[i] = SetToSeq(Descs)[j] => i = j
    /\ \A d \in Descs : \E i \in 1 .. Len(SetToSeq(Descs)) : SetToSeq(Descs)[i] = d
  <1> DEFINE n == Cardinality(Descs)
  <1>1. n \in Nat /\ ExistsBijection(1 .. n, Descs)
    BY PipelineAssumption, FS_CardinalityType
  <1>2. \E f \in [1 .. n -> Descs] : IsInjective(f)
    BY <1>1 DEF ExistsBijection, Bijection, Injection
  <1>3. SetToSeq(Descs) \in [1 .. n -> Descs] /\ IsInjective(SetToSeq(Descs))
    BY <1>2 DEF SetToSeq
  <1>4. SetToSeq(Descs) \in Injection(1 .. n, Descs)
    BY <1>3 DEF Injection
  <1>5. Cardinality(1 .. n) = n
    BY <1>1, FS_Interval
  <1>6. SetToSeq(Descs) \in Surjection(1 .. n, Descs)
    BY <1>4, <1>5, FS_Injection, PipelineAssumption
  <1>7. SetToSeq(Descs) \in Seq(Descs) /\ Len(SetToSeq(Descs)) = n
    BY <1>1, <1>3
  <1> QED  BY <1>3, <1>6, <1>7 DEF Surjection, IsInjective

LEMMA PlaceNext ==
    ThreadInv /\ StageInv /\ HandsInv /\ PlaceInv /\ [PipelineNext]_vars => PlaceInv'
  <1> SUFFICES ASSUME ThreadInv, StageInv, HandsInv, PlaceInv, [PipelineNext]_vars
               PROVE  PlaceInv'
    OBVIOUS
  <1>0. /\ vflow \in Workers /\ venc \in Workers /\ vflow # venc
        /\ Nil \notin Descs
    BY PipelineAssumption
  <1> USE DEF PlaceInv
  <1>1. CASE CreateQueues
    <2>1. vdesc = Nil /\ edesc = Nil
      BY <1>0, <1>1, QuietWhenIdle DEF CreateQueues, StageInv, HandsInv
    <2>2. Apart(SetToSeq(Descs), << >>, Nil, Nil, Descs)
      <3> DEFINE s == SetToSeq(Descs)
      <3>1. /\ s \in Seq(Descs)
            /\ \A i, j \in 1 .. Len(s) : s[i] = s[j] => i = j
            /\ \A d \in Descs : \E i \in 1 .. Len(s) : s[i] = d
        BY SetToSeqOfDescs
      <3> HIDE DEF s
      <3>2. Len(<< >>) = 0 /\ << >> \in Seq(Descs) /\ 1 .. 0 = {}
        OBVIOUS
      <3>3. \A i \in 1 .. Len(s) : s[i] # Nil
        BY <1>0, <3>1
      <3>4. Apart(s, << >>, Nil, Nil, Descs)
        BY <3>1, <3>2, <3>3 DEF Apart
      <3> QED  BY <3>4 DEF s
    <2> QED  BY <1>1, <2>1, <2>2 DEF CreateQueues, vflowLocals, vencLocals
  <1>2. CASE StartVflow
    <2>1. vdesc = Nil
      BY <1>0, <1>2, QuietWhenIdle DEF StartVflow, StageInv, HandsInv
    <2> QED  BY <1>2, <2>1 DEF StartVflow, queues, store, vencLocals
  <1>3. CASE StartVenc
    <2>1. edesc = Nil
      BY <1>0, <1>3, QuietWhenIdle DEF StartVenc, StageInv, HandsInv
    <2> QED  BY <1>3, <2>1 DEF StartVenc, queues, store, vflowLocals
  <1>4. CASE StopVflow \/ StopVenc
    BY <1>4 DEF StopVflow, StopVenc, queues, store, vflowLocals, vencLocals
  <1>5. CASE DrainEnc
    BY <1>5, ApartDrain, ApartSymmetric DEF DrainEnc, vflowLocals, vencLocals
  <1>6. CASE DrainVse
    BY <1>6, ApartDrain DEF DrainVse, vflowLocals, vencLocals
  <1>7. CASE Drained \/ StopHardware
    BY <1>7 DEF Drained, StopHardware, queues, store, vflowLocals, vencLocals
  <1>8. ASSUME NEW w \in Workers, OwnerInside(w)  PROVE PlaceInv'
    BY <1>8 DEF OwnerInside, shared, queues, store, vflowLocals, vencLocals
  <1>a. ASSUME worker[vflow] = "loop" \/ worker[venc] = "loop"
        PROVE  stage \notin {"off", "drained"}
    BY <1>0, <1>a, QuietWhenIdle DEF StageInv, Quiet
  <1>9. CASE VflowDequeue
    BY <1>0, <1>9, <1>a, ApartTake DEF VflowDequeue, HandsInv, AtV, store, vencLocals
  <1>10. CASE VflowPut
    <2>1. Apart(e2v, Append(v2e, vdesc), Nil, edesc, heap)
      BY <1>10, ApartGive DEF VflowPut, HandsInv, AtV
    <2> QED  BY <1>10, <1>a, <2>1 DEF VflowPut, AtV, store, vencLocals
  <1>11. CASE VflowFree
    BY <1>11, ApartFree DEF VflowFree, queues, vencLocals
  <1>12. CASE \/ VflowHead \/ VflowWait \/ VflowTimeout \/ VflowGetLoop \/ VflowGet
              \/ VflowGetFails \/ VflowCount \/ VflowPutLoop \/ VflowDisplay
              \/ VflowRelease \/ VflowFinish
    BY <1>12 DEF VflowHead, VflowWait, VflowTimeout, VflowGetLoop, VflowGet, VflowGetFails,
       VflowCount, VflowPutLoop, VflowDisplay, VflowRelease, VflowFinish, shared, queues, store,
       vflowLocals, vencLocals
  <1>13. CASE VencDequeue
    <2>1. Apart(Tail(v2e), e2v, Head(v2e), vdesc, heap)
      BY <1>13, ApartTake, ApartSymmetric DEF VencDequeue, HandsInv, AtE
    <2> QED
      BY <1>13, <1>a, <2>1, ApartSymmetric DEF VencDequeue, AtE, store, vflowLocals
  <1>14. CASE VencPut
    <2>1. Apart(v2e, Append(e2v, edesc), Nil, vdesc, heap)
      BY <1>14, ApartGive, ApartSymmetric DEF VencPut, HandsInv, AtE
    <2> QED
      BY <1>14, <1>a, <2>1, ApartSymmetric DEF VencPut, AtE, store, vflowLocals
  <1>15. CASE VencFree
    BY <1>15, ApartFree, ApartSymmetric DEF VencFree, queues, vflowLocals
  <1>16. CASE \/ VencHead \/ VencWait \/ VencTimeout \/ VencBreak \/ VencSend \/ VencOutLoop
              \/ VencOut \/ VencOutTimeout \/ VencRelease \/ VencUncount \/ VencPutLoop
              \/ VencReleaseOutput \/ VencFinish
    BY <1>16 DEF VencHead, VencWait, VencTimeout, VencBreak, VencSend, VencOutLoop, VencOut,
       VencOutTimeout, VencRelease, VencUncount, VencPutLoop, VencReleaseOutput, VencFinish,
       shared, queues, store, vflowLocals, vencLocals
  <1>17. CASE UNCHANGED vars
    BY <1>17 DEF vars, shared, queues, store, vflowLocals, vencLocals
  <1> QED
    BY <1>1, <1>2, <1>3, <1>4, <1>5, <1>6, <1>7, <1>8, <1>9, <1>10, <1>11, <1>12, <1>13, <1>14,
       <1>15, <1>16, <1>17
    DEF PipelineNext, Owner, Vflow, Venc

-----------------------------------------------------------------------------
(***************************************************************************)
(* The inductive invariant: the threads' own, where the owner is, what the *)
(* hands hold, and where the descriptors are.  That the queues have room   *)
(* and that one holder has each descriptor follow only together: a hand    *)
(* that is full at its loop's head would lose what it holds, and a thread  *)
(* that ran while the owner drains would take from a queue twice emptied.  *)
(***************************************************************************)
PipelineInv == ThreadInv /\ StageInv /\ HandsInv /\ PlaceInv

LEMMA PipelineInvInit == PipelineInit => PipelineInv
  <1> SUFFICES ASSUME PipelineInit  PROVE PipelineInv
    OBVIOUS
  <1>1. ThreadInv
    BY ThreadInvInit DEF PipelineInit
  <1>2. StageInv
    BY PipelineAssumption DEF PipelineInit, ThreadInit, StageInv, Stages, Idle
  <1>3. HandsInv
    BY PipelineAssumption DEF PipelineInit, ThreadInit, HandsInv, AtV, AtE
  <1>4. PlaceInv
    <2>1. Len(<< >>) = 0 /\ << >> \in Seq(Descs) /\ 1 .. 0 = {} /\ Nil \notin Descs
      BY PipelineAssumption
    <2>2. Apart(<< >>, << >>, Nil, Nil, {})
      BY <2>1 DEF Apart
    <2> QED  BY <2>2 DEF PipelineInit, PlaceInv
  <1> QED  BY <1>1, <1>2, <1>3, <1>4 DEF PipelineInv

LEMMA PipelineInvHolds == PipelineSpec => []PipelineInv
  <1>1. PipelineInv /\ [PipelineNext]_vars => PipelineInv'
    BY PipelineStepsThreads, ThreadInvNext, StageNext, HandsNext, PlaceNext DEF PipelineInv
  <1> QED  BY <1>1, PipelineInvInit, PTL DEF PipelineSpec

\* Every descriptor that is malloced has one holder, a queue or a thread, and
\* when vpp_camera_stop has drained the queues none is left.
THEOREM DescriptorsAreConserved == PipelineSpec => []DescriptorsConserved
  <1>1. PipelineInv => DescriptorsConserved
    <2> SUFFICES ASSUME PipelineInv  PROVE DescriptorsConserved
      OBVIOUS
    <2>1. \A d \in Descs : Holders(d) = IF d \in heap THEN 1 ELSE 0
      BY ApartHolders DEF PipelineInv, PlaceInv
    <2>2. ASSUME stage = "drained"  PROVE heap = {}
      <3>1. e2v = << >> /\ v2e = << >>
        BY <2>2 DEF PipelineInv, PlaceInv
      <3>2. vdesc = Nil /\ edesc = Nil
        BY <2>2, QuietWhenIdle, PipelineAssumption DEF PipelineInv, StageInv, HandsInv
      <3>3. Nil \notin Descs /\ Len(<< >>) = 0 /\ 1 .. 0 = {}
        BY PipelineAssumption
      <3> QED  BY <3>1, <3>2, <3>3 DEF PipelineInv, PlaceInv, Apart
    <2> QED  BY <2>1, <2>2 DEF DescriptorsConserved
  <1> QED  BY <1>1, PipelineInvHolds, PTL

\* mQueueEnqueueEx never finds its queue full: a thread that puts holds a
\* descriptor the queue, which has a slot for each, does not.
THEOREM QueuesAlwaysHaveRoom == PipelineSpec => []QueuesHaveRoom
  <1>1. PipelineInv => QueuesHaveRoom
    <2> SUFFICES ASSUME PipelineInv  PROVE QueuesHaveRoom
      OBVIOUS
    <2>1. ASSUME AtV("put")  PROVE Len(v2e) < Capacity
      BY <2>1, ApartHasRoom DEF PipelineInv, HandsInv, PlaceInv, AtV
    <2>2. ASSUME AtE("put")  PROVE Len(e2v) < Capacity
      <3>1. Apart(v2e, e2v, edesc, vdesc, heap) /\ edesc \in Descs
        BY <2>2, ApartSymmetric DEF PipelineInv, HandsInv, PlaceInv, AtE
      <3> HIDE DEF PipelineInv, HandsInv, PlaceInv, Apart
      <3>2. Len(v2e) < Capacity /\ Len(e2v) < Capacity
        BY ONLY <3>1, ApartHasRoom
      <3> QED  BY <3>2
    <2> QED  BY <2>1, <2>2 DEF QueuesHaveRoom
  <1> QED  BY <1>1, PipelineInvHolds, PTL

-----------------------------------------------------------------------------
\* Where a thread can be in its procedure, in its loop and outside it.
VflowLoop ==
    {"head", "dequeue", "wait", "getLoop", "get", "count", "putLoop", "put", "display"}
VencLoop ==
    {"head", "dequeue", "wait", "send", "outLoop", "out", "release", "uncount", "putLoop",
     "put", "release_output"}

LoopInv ==
    /\ worker[vflow] = "loop" => vpc \in VflowLoop
    /\ worker[vflow] = "leaving" => vpc \in {"release", "free", "finish"}
    /\ Quiet(vflow) => vpc = "finish" \/ (vpc = "head" /\ ~ got)
    /\ worker[venc] = "loop" => epc \in VencLoop
    /\ worker[venc] = "leaving" => epc \in {"free", "finish"}
    /\ Quiet(venc) => epc \in {"head", "finish"}

\* vflow has a frame that it has not enqueued, venc one that it has not given
\* back, or one that it has not counted off.
ToEncode == vpc = "count" \/ (got /\ ~ saved /\ vpc \notin {"free", "finish"})
InEncoder == epc \in {"send", "outLoop", "out", "release"}

\* The frame is in the descriptor that is in the hand.
FrameInv ==
    /\ vpc \in {"getLoop", "get", "count"} => ~ got /\ vframe = vdesc /\ vdesc \in Descs
    /\ ToEncode => vframe = vdesc /\ vdesc \in Descs
    /\ vpc = "put" => ToEncode
    /\ vpc = "putLoop" => ToEncode \/ ~ Running(vflow)
    /\ InEncoder \/ epc \in {"uncount", "putLoop", "put"} => eframe = edesc /\ edesc \in Descs
    /\ image \in [Descs -> Buffers \cup {Nil}]

LEMMA LoopNext ==
    ThreadInv /\ StageInv /\ LoopInv /\ [PipelineNext]_vars => LoopInv'
  <1> SUFFICES ASSUME ThreadInv, StageInv, LoopInv, [PipelineNext]_vars
               PROVE  LoopInv'
    OBVIOUS
  <1>0. /\ vflow \in Workers /\ venc \in Workers /\ vflow # venc
        /\ worker \in [Workers -> WorkerStates]
    BY PipelineAssumption DEF ThreadInv, ThreadTypeOK
  <1> USE DEF AtV, AtE, LoopInv, VflowLoop, VencLoop, Quiet
  <1>1. CASE CreateQueues \/ DrainEnc \/ DrainVse \/ Drained \/ StopHardware
    BY <1>1 DEF CreateQueues, DrainEnc, DrainVse, Drained, StopHardware, threadVars,
       vflowLocals, vencLocals
  <1>2. CASE StartVflow \/ StartVenc
    <2>1. stage = "startVflow" => Quiet(vflow)
      BY <1>0, QuietWhenIdle DEF StageInv
    <2>2. stage = "startVenc" => Quiet(venc)
      BY <1>0, QuietWhenIdle DEF StageInv
    <2> QED
      BY <1>0, <1>2, <2>1, <2>2 DEF StartVflow, StartVenc, StartCall, vflowLocals, vencLocals
  <1>3. CASE StopVflow \/ StopVenc
    BY <1>3 DEF StopVflow, StopVenc, StopCall, vflowLocals, vencLocals
  <1>4. ASSUME NEW w \in Workers, OwnerInside(w)  PROVE LoopInv'
    <2>1. UNCHANGED <<vpc, got, epc>>
      BY <1>4 DEF OwnerInside, vflowLocals, vencLocals
    <2>2. /\ call[vflow] = "create" => vpc = "head"
          /\ call[venc] = "create" => epc = "head"
      BY DEF StageInv
    <2>3. \/ worker'[vflow] = worker[vflow]
          \/ Quiet(vflow) /\ Quiet(vflow)'
          \/ Quiet(vflow) /\ vpc = "head" /\ worker'[vflow] = "loop"
      BY <1>0, <1>4, <2>2, RunningOnlyEnds
    <2>4. \/ worker'[venc] = worker[venc]
          \/ Quiet(venc) /\ Quiet(venc)'
          \/ Quiet(venc) /\ epc = "head" /\ worker'[venc] = "loop"
      BY <1>0, <1>4, <2>2, RunningOnlyEnds
    <2> QED  BY <2>1, <2>3, <2>4
  <1>5. CASE VflowHead
    BY <1>0, <1>5 DEF VflowHead, LeaveLoop, threadVars, shared, vencLocals
  <1>6. CASE VflowFinish
    BY <1>0, <1>6 DEF VflowFinish, FinishMark, FinishExit, vflowLocals, vencLocals
  <1>7. CASE \/ VflowDequeue \/ VflowWait \/ VflowTimeout \/ VflowGetLoop \/ VflowGet
             \/ VflowGetFails \/ VflowCount \/ VflowPutLoop \/ VflowPut \/ VflowDisplay
             \/ VflowRelease \/ VflowFree
    BY <1>7 DEF VflowDequeue, VflowWait, VflowTimeout, VflowGetLoop, VflowGet, VflowGetFails,
       VflowCount, VflowPutLoop, VflowPut, VflowDisplay, VflowRelease, VflowFree, threadVars,
       vencLocals
  <1>8. CASE VencHead
    BY <1>0, <1>8 DEF VencHead, LeaveLoop, threadVars, vflowLocals
  <1>9. CASE VencBreak
    BY <1>0, <1>9 DEF VencBreak, BreakLoop, vflowLocals
  <1>10. CASE VencFinish
    BY <1>0, <1>10 DEF VencFinish, FinishMark, FinishExit, vflowLocals, vencLocals
  <1>11. CASE \/ VencDequeue \/ VencWait \/ VencTimeout \/ VencSend \/ VencOutLoop \/ VencOut
              \/ VencOutTimeout \/ VencRelease \/ VencUncount \/ VencPutLoop \/ VencPut
              \/ VencReleaseOutput \/ VencFree
    BY <1>11 DEF VencDequeue, VencWait, VencTimeout, VencSend, VencOutLoop, VencOut,
       VencOutTimeout, VencRelease, VencUncount, VencPutLoop, VencPut, VencReleaseOutput,
       VencFree, threadVars, vflowLocals
  <1>12. CASE UNCHANGED vars
    BY <1>12 DEF vars, threadVars, vflowLocals, vencLocals
  <1> QED
    BY <1>1, <1>2, <1>3, <1>4, <1>5, <1>6, <1>7, <1>8, <1>9, <1>10, <1>11, <1>12
    DEF PipelineNext, Owner, Vflow, Venc

\* The capture thread and the encoder thread of a camera are started, stopped
\* and ended as MThread describes it, so what is proved there holds for both.
THEOREM PipelineKeepsThreadRules == PipelineSpec => ThreadSpec
  <1>1. PipelineInit => ThreadInit
    BY DEF PipelineInit
  <1> QED  BY <1>1, PipelineStepsThreads, PTL DEF PipelineSpec, ThreadSpec

\* A thread that is in its loop and was told to stop is not made to run again.
LEMMA StaysStopped ==
    ASSUME ThreadInv, StageInv, [PipelineNext]_vars
    PROVE  /\ worker[vflow] = "loop" /\ worker'[vflow] = "loop" /\ Running(vflow)' => Running(vflow)
           /\ worker[venc] = "loop" /\ worker'[venc] = "loop" /\ Running(venc)' => Running(venc)
  <1> SUFFICES ASSUME NEW w \in Workers, worker[w] = "loop", worker'[w] = "loop", Running(w)'
               PROVE  Running(w)
    BY PipelineAssumption
  <1>1. [ThreadNext]_threadVars
    BY PipelineStepsThreads
  <1>2. CASE UNCHANGED threadVars
    BY <1>2 DEF threadVars, Running
  <1>3. CASE ThreadNext
    BY <1>3 DEF ThreadNext, OwnerStep, WorkerStep, StartCall, StopCall, StartMark, CreateOk,
       CreateFails, StopMark, StopKill, StopJoin, StopPoll, StopEnd, StartRefused,
       StopJoinStray, StopSleep, LeaveLoop, FinishMark, FinishExit, BreakLoop, threadVars,
       ThreadInv, ThreadTypeOK, Lifecycle, RunningIsStarted, CallAgrees, Quiet, Running
  <1> QED  BY <1>1, <1>2, <1>3

LEMMA FrameNext ==
    ThreadInv /\ StageInv /\ HandsInv /\ PlaceInv /\ LoopInv /\ FrameInv /\ [PipelineNext]_vars
        => FrameInv'
  <1> SUFFICES ASSUME ThreadInv, StageInv, HandsInv, PlaceInv, LoopInv, FrameInv,
                      [PipelineNext]_vars
               PROVE  FrameInv'
    OBVIOUS
  <1>0. /\ vflow \in Workers /\ venc \in Workers /\ vflow # venc /\ Nil \notin Descs
        /\ worker \in [Workers -> WorkerStates]
    BY PipelineAssumption DEF ThreadInv, ThreadTypeOK
  <1>a. vpc = "putLoop" => worker[vflow] = "loop"
    BY DEF LoopInv, Quiet
  <1>b. worker[vflow] = "loop" /\ worker'[vflow] = "loop" /\ Running(vflow)' => Running(vflow)
    BY StaysStopped
  <1> USE DEF AtV, AtE, FrameInv, ToEncode, InEncoder
  <1>1. CASE CreateQueues
    <2>1. image' \in [Descs -> Buffers \cup {Nil}]
      BY <1>1 DEF CreateQueues
    <2> QED  BY <1>1, <2>1 DEF CreateQueues, threadVars, vflowLocals, vencLocals, Running
  <1>2. CASE DrainEnc \/ DrainVse \/ Drained \/ StopHardware
    BY <1>2 DEF DrainEnc, DrainVse, Drained, StopHardware, threadVars, store, vflowLocals,
       vencLocals, Running
  <1>3. CASE StartVflow
    BY <1>3 DEF StartVflow, store, vencLocals
  <1>4. CASE StartVenc
    BY <1>0, <1>4 DEF StartVenc, StartCall, store, vflowLocals, Running
  <1>5. CASE StopVflow \/ StopVenc
    BY <1>5 DEF StopVflow, StopVenc, StopCall, store, vflowLocals, vencLocals, Running
  <1>6. ASSUME NEW w \in Workers, OwnerInside(w)  PROVE FrameInv'
    <2>1. UNCHANGED <<vpc, vdesc, vframe, got, saved, epc, edesc, eframe, image>>
      BY <1>6 DEF OwnerInside, shared, store, vflowLocals, vencLocals
    <2>2. vpc = "putLoop" => worker'[vflow] = "loop"
      BY <1>0, <1>6, <1>a, RunningOnlyEnds DEF Quiet
    <2> QED  BY <1>a, <1>b, <2>1, <2>2
  <1>7. CASE VflowHead
    BY <1>0, <1>7 DEF VflowHead, LeaveLoop, shared, store, vencLocals
  <1>8. CASE VflowDequeue
    <2>1. Head(e2v) \in Descs
      BY <1>8, ApartTake DEF VflowDequeue, PlaceInv, HandsInv
    <2> QED  BY <1>8, <2>1 DEF VflowDequeue, store, vencLocals
  <1>9. CASE VflowGet
    <2>1. image' \in [Descs -> Buffers \cup {Nil}]
      BY <1>9 DEF VflowGet
    <2> QED  BY <1>9, <2>1 DEF VflowGet, vencLocals
  <1>10. CASE VflowWait \/ VflowTimeout \/ VflowGetFails \/ VflowCount
    BY <1>10 DEF VflowWait, VflowTimeout, VflowGetFails, VflowCount, shared, store, vencLocals
  <1>11. CASE VflowGetLoop
    BY <1>11 DEF VflowGetLoop, threadVars, shared, store, vencLocals, Running
  <1>12. CASE VflowPutLoop
    BY <1>12 DEF VflowPutLoop, threadVars, shared, store, vencLocals, Running
  <1>13. CASE VflowPut \/ VflowDisplay \/ VflowRelease \/ VflowFree
    BY <1>13 DEF VflowPut, VflowDisplay, VflowRelease, VflowFree, shared, store, vencLocals
  <1>14. CASE VflowFinish
    BY <1>14 DEF VflowFinish, shared, store, vflowLocals, vencLocals
  <1>15. ASSUME UNCHANGED vflowLocals, image' = image, eState'[vflow] = eState[vflow],
                InEncoder' \/ epc' \in {"uncount", "putLoop", "put"} => eframe' = edesc' /\ edesc' \in Descs
         PROVE  FrameInv'
    BY <1>15 DEF vflowLocals, Running
  <1>16. CASE VencDequeue
    <2>1. Apart(v2e, e2v, edesc, vdesc, heap)
      BY ApartSymmetric DEF PlaceInv
    <2>2. edesc = Nil /\ v2e # << >>
      BY <1>16 DEF VencDequeue, HandsInv
    <2>3. Head(v2e) \in Descs
      BY <2>1, <2>2, ApartTake
    <2> QED  BY <1>15, <1>16, <2>3 DEF VencDequeue, threadVars, store
  <1>17. CASE VencHead \/ VencBreak \/ VencFinish
    BY <1>0, <1>15, <1>17 DEF VencHead, VencBreak, VencFinish, LeaveLoop, BreakLoop, FinishMark,
       FinishExit, ThreadInv, ThreadTypeOK, threadVars, shared, store, vencLocals
  <1>18. CASE \/ VencWait \/ VencTimeout \/ VencSend \/ VencOutLoop \/ VencOut
              \/ VencOutTimeout \/ VencRelease \/ VencUncount \/ VencPutLoop \/ VencPut
              \/ VencReleaseOutput \/ VencFree
    BY <1>15, <1>18 DEF VencWait, VencTimeout, VencSend, VencOutLoop, VencOut,
       VencOutTimeout, VencRelease, VencUncount, VencPutLoop, VencPut, VencReleaseOutput,
       VencFree, threadVars, shared, store
  <1>19. CASE UNCHANGED vars
    BY <1>19 DEF vars, threadVars, shared, store, vflowLocals, vencLocals, Running
  <1> QED
    BY <1>1, <1>2, <1>3, <1>4, <1>5, <1>6, <1>7, <1>8, <1>9, <1>10, <1>11, <1>12, <1>13, <1>14,
       <1>16, <1>17, <1>18, <1>19
    DEF PipelineNext, Owner, Vflow, Venc

-----------------------------------------------------------------------------
\* The frames in the hands of venc, between the threads and in the hands of
\* vflow, the parts FramesInOrder joins.
OfVenc == IF InEncoder THEN Single(image[eframe]) ELSE None
OfVflow == IF ToEncode THEN Single(image[vframe]) ELSE None

\* From the stop of the hardware until venc leaves its loop.
Starting == stage \in {"off", "startVflow", "startVenc"} \/ call[venc] \in {"start", "create"}
InOrder == worker[venc] = "loop" \/ Starting

OrderInv ==
    InOrder => /\ lent = Cat(Cat(OfVenc, Images(image, v2e)), OfVflow)
               /\ Distinct(lent)

\* The encoder has a frame only while venc waits for the output, or after venc
\* was stopped there.
EncodingInv ==
    /\ Starting => encoding = Nil
    /\ encoding # Nil /\ worker[venc] = "loop" /\ Running(venc) =>
         epc \in {"outLoop", "out"} /\ encoding = image[eframe]

\* The parts are lists of frames.
LEMMA PartsAreLists ==
    ASSUME HandsInv, PlaceInv, FrameInv
    PROVE  /\ OfVenc \in Lists(Buffers \cup {Nil})
           /\ Images(image, v2e) \in Lists(Buffers \cup {Nil})
           /\ OfVflow \in Lists(Buffers \cup {Nil})
           /\ v2e \in Lists(Descs)
           /\ ToEncode => image[vframe] \in Buffers \cup {Nil}
           /\ InEncoder => image[eframe] \in Buffers \cup {Nil}
  <1> DEFINE F == Buffers \cup {Nil}
  <1>1. image \in [Descs -> F] /\ v2e \in Lists(Descs)
    BY DEF FrameInv, PlaceInv, Apart, Lists
  <1>2. /\ ToEncode => image[vframe] \in F
        /\ InEncoder => image[eframe] \in F
    BY <1>1 DEF FrameInv
  <1> HIDE DEF F
  <1>3. None \in Lists(F) /\ \A x \in F : Single(x) \in Lists(F)
    BY CatNone, CatOne, EmptySeq DEF Lists, None
  <1>4. Images(image, v2e) \in Lists(F)
    BY <1>1, ImagesType
  <1> QED  BY <1>1, <1>2, <1>3, <1>4 DEF OfVenc, OfVflow, F

\* A thread that does not run yet has no frame in its hands.
LEMMA StartingIsEmpty ==
    ASSUME ThreadInv, StageInv, LoopInv
    PROVE  /\ Starting => Quiet(venc) /\ ~ InEncoder
           /\ stage \in {"off", "startVflow", "drained"} => Quiet(vflow) /\ ~ ToEncode
           /\ stage \in {"drain", "drained"} => ~ (call[venc] \in {"start", "create"})
           /\ stage = "drain" /\ OwnerFree => Quiet(venc)
           /\ stage = "drained" => Quiet(venc) /\ ~ InEncoder
  <1>0. vflow \in Workers /\ venc \in Workers
    BY PipelineAssumption
  <1>1. Starting => Quiet(venc)
    BY <1>0, QuietWhenIdle DEF Starting, StageInv, ThreadInv, Lifecycle, CallAgrees,
       RunningIsStarted
  <1>2. stage \in {"off", "startVflow", "drained"} => Quiet(vflow)
    BY <1>0, QuietWhenIdle DEF StageInv
  <1>3. stage = "drain" /\ OwnerFree => Quiet(venc)
    BY <1>0 DEF StageInv, Ending, OwnerFree, ThreadInv, Lifecycle, RunningIsStarted
  <1>4. stage = "drained" => Quiet(venc)
    BY <1>0, QuietWhenIdle DEF StageInv
  <1>5. stage \in {"drain", "drained"} => ~ (call[venc] \in {"start", "create"})
    BY DEF StageInv, Ending, Idle
  <1> QED  BY <1>1, <1>2, <1>3, <1>4, <1>5 DEF LoopInv, InEncoder, ToEncode

\* Only a stop of the hardware brings the order back once it is lost.
LEMMA OrderIsKept ==
    ASSUME ThreadInv, StageInv, [PipelineNext]_vars, ~ StopHardware
    PROVE  /\ InOrder' => InOrder
           /\ Starting' => Starting
  <1>0. vflow \in Workers /\ venc \in Workers /\ vflow # venc
        /\ worker \in [Workers -> WorkerStates] /\ call \in [Workers -> Calls]
    BY PipelineAssumption DEF ThreadInv, ThreadTypeOK
  <1> USE DEF InOrder, Starting
  <1>1. CASE CreateQueues \/ DrainEnc \/ DrainVse \/ Drained
    BY <1>1 DEF CreateQueues, DrainEnc, DrainVse, Drained, threadVars
  <1>2. CASE StartVflow \/ StartVenc \/ StopVflow \/ StopVenc
    BY <1>0, <1>2 DEF StartVflow, StartVenc, StopVflow, StopVenc, StartCall, StopCall
  <1>3. ASSUME NEW w \in Workers, OwnerInside(w)
        PROVE  (InOrder' => InOrder) /\ (Starting' => Starting)
    BY <1>0, <1>3 DEF OwnerInside, OwnerStep, StartMark, CreateOk, CreateFails, StopMark,
       StopKill, StopJoin, StopPoll, StopEnd, StopSleep, threadVars, shared
  <1>4. CASE Vflow
    BY <1>0, <1>4 DEF Vflow, VflowHead, VflowDequeue, VflowWait, VflowTimeout, VflowGetLoop,
       VflowGet, VflowGetFails, VflowCount, VflowPutLoop, VflowPut, VflowDisplay,
       VflowRelease, VflowFree, VflowFinish, LeaveLoop, FinishMark, FinishExit,
       threadVars, shared
  <1>5. CASE Venc
    BY <1>0, <1>5 DEF Venc, VencHead, VencDequeue, VencWait, VencTimeout, VencBreak, VencSend,
       VencOutLoop, VencOut, VencOutTimeout, VencRelease, VencUncount, VencPutLoop,
       VencPut, VencReleaseOutput, VencFree, VencFinish, LeaveLoop, BreakLoop,
       FinishMark, FinishExit, threadVars, shared
  <1>6. CASE UNCHANGED vars
    BY <1>6 DEF vars, threadVars, shared
  <1> QED
    BY <1>1, <1>2, <1>3, <1>4, <1>5, <1>6 DEF PipelineNext, Owner

\* Where no frame moves, the order stays what it was.
LEMMA OrderUnmoved ==
    ASSUME OrderInv, InOrder' => InOrder, lent' = lent, v2e' = v2e, image' = image,
           OfVenc' = OfVenc, OfVflow' = OfVflow
    PROVE  OrderInv'
  BY DEF OrderInv

LEMMA OrderNext ==
    /\ ThreadInv /\ StageInv /\ HandsInv /\ PlaceInv /\ LoopInv /\ FrameInv /\ OrderInv
    /\ [PipelineNext]_vars
    => OrderInv'
  <1> SUFFICES ASSUME ThreadInv, StageInv, HandsInv, PlaceInv, LoopInv, FrameInv, OrderInv,
                      [PipelineNext]_vars
               PROVE  OrderInv'
    OBVIOUS
  <1> DEFINE F == Buffers \cup {Nil}
             m == Images(image, v2e)
  <1>0. vflow \in Workers /\ venc \in Workers /\ Nil \notin Descs
    BY PipelineAssumption
  <1>k. ~ StopHardware => (InOrder' => InOrder)
    BY OrderIsKept
  <1>p. /\ OfVenc \in Lists(F) /\ m \in Lists(F) /\ OfVflow \in Lists(F)
        /\ v2e \in Lists(Descs) /\ image \in [Descs -> F]
        /\ ToEncode => image[vframe] \in F
        /\ InEncoder => image[eframe] \in F
    BY PartsAreLists DEF FrameInv
  <1>e. None \in Lists(F) /\ Distinct(None)
    BY EmptySeq DEF Lists, None, Distinct
  <1>f. Cat(Cat(None, None), None) = None /\ \A f : Images(f, None) = None
    BY <1>e, CatNone, ImagesAt
  <1>s. /\ stage \in {"off", "startVflow", "startVenc"} => ~ InEncoder
        /\ stage \in {"off", "startVflow", "drained"} => ~ ToEncode
        /\ stage = "drain" /\ OwnerFree => ~ InOrder
        /\ stage = "drained" => ~ InEncoder
    BY StartingIsEmpty DEF Starting, InOrder, Quiet
  <1>1. CASE StopHardware
    <2>1. lent' = None /\ v2e' = None /\ OfVenc' = None /\ OfVflow' = None
      BY <1>1, <1>s DEF StopHardware, queues, vflowLocals, vencLocals, PlaceInv, OfVenc, OfVflow,
         InEncoder, ToEncode, None
    <2> QED  BY <1>e, <1>f, <2>1 DEF OrderInv
  <1>2. CASE CreateQueues
    <2>1. v2e = None /\ v2e' = None /\ OfVenc = None /\ OfVflow = None
          /\ OfVenc' = None /\ OfVflow' = None /\ lent' = lent /\ InOrder
      BY <1>2, <1>s DEF CreateQueues, hardware, vflowLocals, vencLocals, PlaceInv, OfVenc,
         OfVflow, InEncoder, ToEncode, None, InOrder, Starting
    <2> QED  BY <1>e, <1>f, <2>1 DEF OrderInv
  <1>3. CASE DrainEnc
    <2>1. ~ InOrder
      BY <1>3, <1>s DEF DrainEnc
    <2>2. ~ InOrder'
      BY <1>3, <2>1 DEF DrainEnc, threadVars, InOrder, Starting
    <2> QED  BY <2>2 DEF OrderInv
  <1>4. CASE DrainVse \/ Drained \/ StopVflow \/ StopVenc
    BY <1>4, <1>k, OrderUnmoved DEF DrainVse, Drained, StopVflow, StopVenc, StopHardware,
       hardware, store, queues, vflowLocals, vencLocals, OfVenc, OfVflow, InEncoder, ToEncode
  <1>5. CASE StartVflow
    <2>1. OfVflow = None /\ OfVflow' = None
      BY <1>5, <1>s DEF StartVflow, OfVflow, ToEncode
    <2>2. OfVenc' = OfVenc /\ lent' = lent /\ v2e' = v2e /\ image' = image /\ ~ StopHardware
      BY <1>5 DEF StartVflow, StopHardware, hardware, store, queues, vencLocals, OfVenc, InEncoder
    <2> QED  BY <1>k, <2>1, <2>2, OrderUnmoved
  <1>6. CASE StartVenc
    <2>1. OfVenc = None /\ OfVenc' = None
      BY <1>6, <1>s DEF StartVenc, OfVenc, InEncoder
    <2>2. OfVflow' = OfVflow /\ lent' = lent /\ v2e' = v2e /\ image' = image /\ ~ StopHardware
      BY <1>6 DEF StartVenc, StopHardware, hardware, store, queues, vflowLocals, OfVflow, ToEncode
    <2> QED  BY <1>k, <2>1, <2>2, OrderUnmoved
  <1>7. ASSUME InOrder' => InOrder, lent' = lent, v2e' = v2e, image' = image,
               UNCHANGED <<epc, eframe>>, ToEncode' = ToEncode, vframe' = vframe
        PROVE  OrderInv'
    BY <1>7, OrderUnmoved DEF OfVenc, OfVflow, InEncoder
  <1>8. ASSUME InOrder' => InOrder, lent' = lent, v2e' = v2e, image' = image,
               UNCHANGED vflowLocals, InEncoder' = InEncoder, eframe' = eframe
        PROVE  OrderInv'
    BY <1>8, OrderUnmoved DEF OfVenc, OfVflow, ToEncode, vflowLocals
  <1>9. ASSUME NEW w \in Workers, OwnerInside(w)  PROVE OrderInv'
    <2>1. ~ StopHardware
      BY <1>9 DEF OwnerInside, shared, StopHardware
    <2> QED
      BY <1>7, <1>9, <1>k, <2>1 DEF OwnerInside, shared, hardware, store, queues, vflowLocals,
         vencLocals, ToEncode
  <1>t. stage' = stage => (InOrder' => InOrder)
    BY <1>k DEF StopHardware
  <1>10. CASE VflowGet
    <2> DEFINE X == Cat(OfVenc, m)
    <2>1. PICK b \in Buffers \ Range(lent) :
            lent' = Append(lent, b) /\ image' = [image EXCEPT ![vframe] = b]
      BY <1>10 DEF VflowGet
    <2>2. /\ vframe = vdesc /\ vdesc \in Descs /\ ~ got /\ vpc = "get" /\ vpc' = "count"
          /\ v2e' = v2e /\ stage' = stage /\ epc' = epc /\ eframe' = eframe /\ vframe' = vframe
      BY <1>10 DEF VflowGet, AtV, FrameInv, queues, vencLocals
    <2>3. OfVflow = None /\ OfVflow' = Single(b)
      BY <1>p, <2>1, <2>2 DEF OfVflow, ToEncode
    <2>4. OfVenc' = OfVenc
      <3>1. InEncoder => eframe # vframe
        BY <1>0, <2>2 DEF FrameInv, PlaceInv, Apart
      <3> QED  BY <2>1, <2>2, <3>1 DEF OfVenc, InEncoder
    <2>5. Images(image', v2e) = m
      <3>1. \A i \in 1 .. Len(v2e) : v2e[i] # vframe
        BY <2>2 DEF PlaceInv, Apart
      <3>2. \A i \in 1 .. Len(v2e) : image'[v2e[i]] = image[v2e[i]]
        BY <2>1, <3>1
      <3> QED  BY <1>p, <3>2, ImagesSame
    <2>6. ASSUME InOrder
          PROVE  lent' = Cat(X, Single(b)) /\ Distinct(lent')
      <3>1. X \in Lists(F) /\ b \in F
        BY <1>p, CatType
      <3>2. lent = X /\ Distinct(X)
        BY <2>3, <2>6, <3>1, CatNone DEF OrderInv
      <3> HIDE DEF X, F
      <3>3. Cat(X, Single(b)) = Put(X, b)
        BY <3>1, CatOne
      <3>4. Distinct(Put(X, b))
        BY <2>1, <3>1, <3>2, DistinctPut
      <3> QED  BY <2>1, <3>2, <3>3, <3>4 DEF Put
    <2> QED  BY <1>t, <2>2, <2>3, <2>4, <2>5, <2>6 DEF OrderInv
  <1>11. CASE VflowPut
    <2> DEFINE x == image[vframe]
    <2>1. /\ v2e' = Put(v2e, vframe) /\ vframe \in Descs /\ lent' = lent /\ image' = image
          /\ stage' = stage /\ OfVenc' = OfVenc /\ OfVflow = Single(x) /\ OfVflow' = None
          /\ x \in F
      BY <1>11, <1>p DEF VflowPut, AtV, FrameInv, ToEncode, OfVflow, OfVenc, InEncoder, hardware, store,
         vencLocals, Put
    <2>2. Images(image, v2e') = Put(m, x)
      BY <1>p, <2>1, ImagesAppend
    <2>3. Cat(Cat(OfVenc, Put(m, x)), None) = Cat(Cat(OfVenc, m), Single(x))
      <3> HIDE DEF x, m, F
      <3>1. Put(m, x) \in Lists(F)
        BY <1>p, <2>1, CatOne
      <3>2. Cat(OfVenc, Put(m, x)) \in Lists(F)
        BY <1>p, <3>1, CatType
      <3>3. Cat(Cat(OfVenc, Put(m, x)), None) = Cat(OfVenc, Put(m, x))
        BY <3>2, CatNone
      <3> QED  BY <1>p, <2>1, <3>3, CatPut
    <2> QED  BY <1>t, <2>1, <2>2, <2>3 DEF OrderInv
  <1>12. CASE VflowRelease
    <2> DEFINE X == Cat(OfVenc, m)
               x == image[vframe]
    <2>1. /\ v2e' = v2e /\ image' = image /\ stage' = stage /\ OfVenc' = OfVenc
          /\ OfVflow' = None
      BY <1>12 DEF VflowRelease, OfVflow, ToEncode, OfVenc, InEncoder, queues, store, vencLocals
    <2>2. CASE ToEncode
      <3>1. OfVflow = Single(x) /\ lent' = RemoveFirst(lent, x) /\ x \in F
        BY <1>12, <1>p, <2>2 DEF VflowRelease, GiveBack, OfVflow, ToEncode
      <3>2. ASSUME InOrder  PROVE lent' = Cat(X, None) /\ Distinct(lent')
        <4>1. X \in Lists(F) /\ Single(x) \in Lists(F)
          BY <1>p, <3>1, CatType, CatOne
        <4>2. lent = Cat(X, Single(x)) /\ Distinct(Cat(X, Single(x)))
          BY <3>1, <3>2 DEF OrderInv
        <4> HIDE DEF X, x, F
        <4>3. lent' = X
          BY <3>1, <4>1, <4>2, RemoveLast
        <4> QED  BY <4>1, <4>2, <4>3, CatNone, DistinctParts
      <3> QED  BY <1>t, <2>1, <3>2 DEF OrderInv
    <2>3. CASE ~ ToEncode
      BY <1>12, <1>t, <2>1, <2>3, OrderUnmoved DEF VflowRelease, ToEncode, OfVflow
    <2> QED  BY <2>2, <2>3
  <1>13. CASE VflowHead
    BY <1>7, <1>13, <1>t DEF VflowHead, AtV, shared, hardware, store, queues, vencLocals, ToEncode
  <1>14. CASE VflowDequeue
    <2>1. ~ ToEncode /\ ~ ToEncode'
      BY <1>0, <1>14 DEF VflowDequeue, AtV, HandsInv, FrameInv, ToEncode
    <2> QED
      BY <1>14, <1>t, <2>1, OrderUnmoved DEF VflowDequeue, hardware, store, vencLocals, OfVflow,
         OfVenc, InEncoder
  <1>15. CASE VflowWait \/ VflowTimeout \/ VflowGetFails \/ VflowPutLoop \/ VflowDisplay
    BY <1>7, <1>15, <1>t DEF VflowWait, VflowTimeout, VflowGetFails, VflowPutLoop, VflowDisplay,
       AtV, shared, hardware, store, queues, vencLocals, ToEncode
  <1>16. CASE VflowGetLoop \/ VflowCount
    BY <1>7, <1>16, <1>t DEF VflowGetLoop, VflowCount, AtV, FrameInv, shared, hardware, store,
       queues, vencLocals, ToEncode
  <1>17. CASE VflowFree \/ VflowFinish
    BY <1>7, <1>17, <1>t DEF VflowFree, VflowFinish, shared, hardware, store, queues, vflowLocals,
       vencLocals, ToEncode
  <1>18. CASE VencHead
    BY <1>8, <1>18, <1>t DEF VencHead, AtE, shared, hardware, store, queues, InEncoder
  <1>19. CASE VencDequeue
    <2>1. /\ v2e # None /\ v2e' = Rest(v2e) /\ First(v2e) = eframe' /\ lent' = lent
          /\ image' = image /\ stage' = stage /\ OfVflow' = OfVflow
          /\ OfVenc = None /\ OfVenc' = Single(image[eframe'])
      BY <1>19 DEF VencDequeue, AtE, OfVenc, InEncoder, OfVflow, ToEncode, hardware, store,
         vflowLocals, None, First, Rest
    <2>2. m # None /\ Images(image, v2e') = Rest(m) /\ First(m) = image[eframe']
      <3>1. Images(image, Rest(v2e)) = Rest(m) /\ First(m) = image[First(v2e)]
        <4> DEFINE f == image
                   s == v2e
        <4>1. s \in Lists(Descs) /\ f \in [Descs -> F] /\ s # None
          BY <1>p, <2>1
        <4> HIDE DEF f, s, F
        <4>2. Images(f, Rest(s)) = Rest(Images(f, s)) /\ First(Images(f, s)) = f[First(s)]
          BY ONLY <4>1, ImagesTail, SMTT(30)
        <4> QED  BY <4>2 DEF f, s
      <3>2. m # None
        BY <1>p, <2>1, ImagesAt
      <3> QED  BY <2>1, <3>1, <3>2
    <2>3. Cat(Single(First(m)), Rest(m)) = Cat(None, m)
      <3> HIDE DEF m, F
      <3>1. /\ Cat(Cat(None, Single(First(m))), Rest(m)) = Cat(None, m)
            /\ First(m) \in F
        BY <1>e, <1>p, <2>2, CatFirst
      <3>2. Cat(None, Single(First(m))) = Single(First(m))
        BY <3>1, <1>e, CatOne, CatNone
      <3> QED  BY <3>1, <3>2
    <2> QED  BY <1>t, <2>1, <2>2, <2>3 DEF OrderInv
  <1>20. CASE VencRelease
    <2> DEFINE x == image[eframe]
               X == Cat(m, OfVflow)
    <2>1. /\ v2e' = v2e /\ image' = image /\ stage' = stage /\ OfVflow' = OfVflow
          /\ OfVenc = Single(x) /\ OfVenc' = None /\ lent' = RemoveFirst(lent, x) /\ x \in F
      BY <1>20, <1>p DEF VencRelease, AtE, GiveBack, OfVenc, InEncoder, OfVflow, ToEncode, queues,
         store, vflowLocals
    <2>2. ASSUME InOrder
          PROVE  lent' = Cat(Cat(None, m), OfVflow) /\ Distinct(lent')
      <3>1. X \in Lists(F) /\ Single(x) \in Lists(F)
        BY <1>p, <2>1, CatType, CatOne
      <3>2. lent = Cat(Cat(Single(x), m), OfVflow) /\ Distinct(lent)
        BY <2>1, <2>2 DEF OrderInv
      <3>3. Cat(None, m) = m
        BY <1>p, CatNone
      <3>4. lent = Cat(Single(x), X)
        BY <1>p, <3>1, <3>2, CatAssociative
      <3> HIDE DEF X, x, F, m
      <3>5. lent' = X
        BY <2>1, <3>1, <3>4, RemoveHead
      <3>6. Distinct(X)
        BY <3>1, <3>2, <3>4, DistinctParts
      <3> QED  BY <3>3, <3>5, <3>6 DEF X
    <2> QED  BY <1>t, <2>1, <2>2 DEF OrderInv
  <1>21. CASE VencBreak
    <2>1. worker'[venc] # "loop" /\ worker[venc] = "loop" /\ stage' = stage /\ call' = call
      BY <1>0, <1>21 DEF VencBreak, BreakLoop, shared, ThreadInv, ThreadTypeOK
    <2>2. ~ Starting
      BY <2>1, StartingIsEmpty DEF Quiet
    <2>3. ~ InOrder'
      BY <2>1, <2>2 DEF InOrder, Starting
    <2> QED  BY <2>3 DEF OrderInv
  <1>22. CASE VencWait \/ VencTimeout \/ VencSend \/ VencOutLoop \/ VencOut \/ VencOutTimeout
    BY <1>8, <1>22, <1>t DEF VencWait, VencTimeout, VencSend, VencOutLoop, VencOut,
       VencOutTimeout, AtE, shared, hardware, store, queues, InEncoder
  <1>23. CASE VencUncount \/ VencPutLoop \/ VencPut \/ VencReleaseOutput \/ VencFree \/ VencFinish
    BY <1>8, <1>23, <1>t DEF VencUncount, VencPutLoop, VencPut, VencReleaseOutput, VencFree,
       VencFinish, AtE, shared, hardware, store, queues, vencLocals, InEncoder
  <1>24. CASE UNCHANGED vars
    BY <1>7, <1>24, <1>t DEF vars, shared, hardware, store, queues, vflowLocals, vencLocals, ToEncode
  <1> QED
    BY <1>1, <1>2, <1>3, <1>4, <1>5, <1>6, <1>9, <1>10, <1>11, <1>12, <1>13, <1>14, <1>15, <1>16,
       <1>17, <1>18, <1>19, <1>20, <1>21, <1>22, <1>23, <1>24
    DEF PipelineNext, Owner, Vflow, Venc

LEMMA EncodingNext ==
    /\ ThreadInv /\ StageInv /\ HandsInv /\ PlaceInv /\ LoopInv /\ FrameInv /\ EncodingInv
    /\ [PipelineNext]_vars
    => EncodingInv'
  <1> SUFFICES ASSUME ThreadInv, StageInv, HandsInv, PlaceInv, LoopInv, FrameInv, EncodingInv,
                      [PipelineNext]_vars
               PROVE  EncodingInv'
    OBVIOUS
  <1>0. vflow \in Workers /\ venc \in Workers /\ vflow # venc /\ Nil \notin Descs
        /\ worker \in [Workers -> WorkerStates]
    BY PipelineAssumption DEF ThreadInv, ThreadTypeOK
  <1>k. /\ ~ StopHardware => (Starting' => Starting)
        /\ worker[venc] = "loop" /\ worker'[venc] = "loop" /\ Running(venc)' => Running(venc)
        /\ Starting => worker[venc] # "loop"
    BY OrderIsKept, StaysStopped, StartingIsEmpty DEF Quiet
  <1> USE DEF EncodingInv
  <1>1. CASE StopHardware
    BY <1>1 DEF StopHardware
  <1>2. ASSUME encoding' = encoding, Starting' => Starting, epc' = epc,
               eframe' = eframe, image'[eframe] = image[eframe] \/ epc \notin {"outLoop", "out"},
               worker'[venc] = "loop" => worker[venc] = "loop" \/ Starting
        PROVE  EncodingInv'
    BY <1>2, <1>k
  <1>3. CASE CreateQueues \/ StartVenc
    BY <1>3 DEF CreateQueues, StartVenc, hardware, Starting, StartCall, threadVars
  <1>4. CASE DrainEnc \/ DrainVse \/ Drained \/ StartVflow \/ StopVflow \/ StopVenc
    BY <1>2, <1>4, <1>k DEF DrainEnc, DrainVse, Drained, StartVflow, StopVflow, StopVenc, StartCall,
       StopCall, StopHardware, threadVars, hardware, store, vencLocals
  <1>5. ASSUME NEW w \in Workers, OwnerInside(w)  PROVE EncodingInv'
    <2>1. ~ StopHardware
      BY <1>5 DEF OwnerInside, shared, StopHardware
    <2>2. worker'[venc] = "loop" => worker[venc] = "loop" \/ Starting
      BY <1>0, <1>5, RunningOnlyEnds DEF Starting
    <2> QED  BY <1>2, <1>5, <1>k, <2>1, <2>2 DEF OwnerInside, shared, hardware, store, vencLocals
  <1>6. CASE VflowGet
    <2>1. epc \in {"outLoop", "out"} => eframe # vframe
      BY <1>0, <1>6 DEF VflowGet, AtV, FrameInv, InEncoder, PlaceInv, Apart
    <2> QED
      BY <1>2, <1>6, <1>k, <2>1 DEF VflowGet, StopHardware, threadVars, vencLocals
  <1>7. CASE VflowHead \/ VflowFinish
    BY <1>0, <1>2, <1>7, <1>k DEF VflowHead, VflowFinish, LeaveLoop, FinishMark, FinishExit,
       StopHardware, threadVars, shared, hardware, store, vencLocals
  <1>8. CASE \/ VflowDequeue \/ VflowWait \/ VflowTimeout \/ VflowGetLoop \/ VflowGetFails
             \/ VflowCount \/ VflowPutLoop \/ VflowPut \/ VflowDisplay \/ VflowRelease \/ VflowFree
    BY <1>2, <1>8, <1>k DEF VflowDequeue, VflowWait, VflowTimeout, VflowGetLoop, VflowGetFails,
       VflowCount, VflowPutLoop, VflowPut, VflowDisplay, VflowRelease, VflowFree, StopHardware,
       threadVars, shared, hardware, store, vencLocals
  <1>9. ASSUME stage' = stage, encoding' = encoding, image' = image, eframe' = eframe,
               epc \in {"outLoop", "out"} => epc' \in {"outLoop", "out"} \/ ~ Running(venc),
               worker'[venc] = "loop" => worker[venc] = "loop"
        PROVE  EncodingInv'
    BY <1>9, <1>k DEF StopHardware
  <1>10. CASE VencHead \/ VencBreak \/ VencFinish
    BY <1>0, <1>9, <1>10 DEF VencHead, VencBreak, VencFinish, LeaveLoop, BreakLoop, FinishMark,
       FinishExit, AtE, threadVars, shared, hardware, store, vencLocals
  <1>11. CASE VencDequeue
    BY <1>k, <1>11 DEF VencDequeue, AtE, StopHardware, threadVars, hardware, store
  <1>12. CASE VencSend \/ VencOut
    BY <1>k, <1>12 DEF VencSend, VencOut, AtE, StopHardware, threadVars, store
  <1>13. CASE VencWait \/ VencTimeout \/ VencOutLoop \/ VencOutTimeout \/ VencRelease
    BY <1>9, <1>13 DEF VencWait, VencTimeout, VencOutLoop, VencOutTimeout, VencRelease,
       AtE, threadVars, shared, hardware, store
  <1>14. CASE VencUncount \/ VencPutLoop \/ VencPut \/ VencReleaseOutput \/ VencFree
    BY <1>9, <1>14 DEF VencUncount, VencPutLoop, VencPut, VencReleaseOutput, VencFree,
       AtE, threadVars, shared, hardware, store
  <1>15. CASE UNCHANGED vars
    BY <1>9, <1>15 DEF vars, threadVars, shared, hardware, store, vencLocals
  <1> QED
    BY <1>1, <1>3, <1>4, <1>5, <1>6, <1>7, <1>8, <1>10, <1>11, <1>12, <1>13, <1>14, <1>15
    DEF PipelineNext, Owner, Vflow, Venc

-----------------------------------------------------------------------------
\* vflow_buffer_used_count covers the frames that are queued or in a hand, and
\* leaves room for the descriptors that are still empty.
One(b) == IF b THEN 1 ELSE 0
FullHands == One(ToEncode /\ vpc # "count") + One(InEncoder \/ epc = "uncount")
EmptyHands == One(vpc \in {"getLoop", "get", "count"}) + One(epc \in {"putLoop", "put"})

CountInv ==
    /\ used \in Nat
    /\ Len(v2e) + FullHands <= used
    /\ used + Len(e2v) + EmptyHands <= Cardinality(Descs)
    /\ stage = "off" => used = 0

LEMMA CountNext ==
    /\ ThreadInv /\ StageInv /\ HandsInv /\ PlaceInv /\ LoopInv /\ FrameInv /\ CountInv
    /\ [PipelineNext]_vars
    => CountInv'
  <1> SUFFICES ASSUME ThreadInv, StageInv, HandsInv, PlaceInv, LoopInv, FrameInv, CountInv,
                      [PipelineNext]_vars
               PROVE  CountInv'
    OBVIOUS
  <1>0. vflow \in Workers /\ venc \in Workers /\ Nil \notin Descs
    BY PipelineAssumption
  <1>c. Cardinality(Descs) \in Nat /\ Len(SetToSeq(Descs)) = Cardinality(Descs)
    BY SetToSeqOfDescs, PipelineAssumption, FS_CardinalityType
  <1>n. /\ e2v \in Seq(Descs) /\ v2e \in Seq(Descs)
        /\ Len(e2v) \in Nat /\ Len(v2e) \in Nat
        /\ e2v # << >> => Len(Tail(e2v)) = Len(e2v) - 1
        /\ v2e # << >> => Len(Tail(v2e)) = Len(v2e) - 1
        /\ Len(Append(e2v, edesc)) = Len(e2v) + 1
        /\ Len(Append(v2e, vdesc)) = Len(v2e) + 1
        /\ Len(<< >>) = 0
    BY DEF PlaceInv, Apart
  <1>h. FullHands \in 0 .. 2 /\ EmptyHands \in 0 .. 2
    BY DEF FullHands, EmptyHands, One
  <1>s. /\ stage \in {"off", "startVflow", "startVenc", "drained"} => epc \in {"head", "finish"}
        /\ stage \in {"off", "startVflow", "drained"} => vpc \in {"head", "finish"} /\ ~ ToEncode
    BY StartingIsEmpty DEF Starting, LoopInv
  <1> USE DEF CountInv
  <1>1. CASE CreateQueues
    <2>1. /\ stage = "off" /\ v2e' = << >> /\ Len(e2v') = Cardinality(Descs)
          /\ FullHands' = 0 /\ EmptyHands' = 0 /\ used' = used
      BY <1>1, <1>c, <1>s DEF CreateQueues, vflowLocals, vencLocals, FullHands, EmptyHands, One,
         ToEncode, InEncoder
    <2> QED  BY <1>c, <2>1
  <1>2. CASE StartVflow \/ StartVenc
    <2>1. FullHands' = FullHands /\ EmptyHands' = EmptyHands
      BY <1>2, <1>s DEF StartVflow, StartVenc, vflowLocals, vencLocals, FullHands, EmptyHands, One,
         ToEncode, InEncoder
    <2> QED  BY <1>2, <2>1 DEF StartVflow, StartVenc, queues
  <1>3. ASSUME v2e' = v2e, e2v' = e2v, used' = used, stage' = "off" => stage = "off",
               FullHands' <= FullHands, EmptyHands' <= EmptyHands,
               FullHands' \in Nat, EmptyHands' \in Nat
        PROVE  CountInv'
    BY <1>3, <1>c, <1>n, <1>h
  <1>u. ASSUME UNCHANGED <<vflowLocals, vencLocals>>
        PROVE  FullHands' = FullHands /\ EmptyHands' = EmptyHands
    BY <1>u DEF vflowLocals, vencLocals, FullHands, EmptyHands, One, ToEncode, InEncoder
  <1>4. CASE StopVflow \/ StopVenc \/ Drained
    BY <1>3, <1>4, <1>h, <1>u DEF StopVflow, StopVenc, Drained, queues
  <1>5. CASE DrainEnc
    BY <1>5, <1>c, <1>n, <1>h, <1>u DEF DrainEnc
  <1>6. CASE DrainVse
    BY <1>6, <1>c, <1>n, <1>h, <1>u DEF DrainVse
  <1>7. CASE StopHardware
    <2>1. v2e = << >> /\ FullHands = 0
      BY <1>7, <1>s DEF StopHardware, PlaceInv, FullHands, One, InEncoder
    <2> QED  BY <1>7, <1>c, <1>n, <1>h, <1>u, <2>1 DEF StopHardware, queues
  <1>8. ASSUME NEW w \in Workers, OwnerInside(w)  PROVE CountInv'
    BY <1>3, <1>8, <1>h, <1>u DEF OwnerInside, shared, queues
  <1>9. ASSUME stage' = stage, v2e' = v2e, e2v' = e2v, used' = used,
               FullHands' <= FullHands, EmptyHands' <= EmptyHands,
               FullHands' \in Nat, EmptyHands' \in Nat
        PROVE  CountInv'
    BY <1>3, <1>9
  <1> USE DEF FullHands, EmptyHands, One, ToEncode, InEncoder
  <1>10. CASE VflowDequeue
    <2>1. FullHands' <= FullHands /\ EmptyHands' = EmptyHands + 1 /\ FullHands' \in Nat
      BY <1>10 DEF VflowDequeue, AtV, vencLocals
    <2> HIDE DEF FullHands, EmptyHands
    <2> QED  BY <1>10, <1>c, <1>n, <1>h, <2>1 DEF VflowDequeue
  <1>11. CASE VflowCount
    <2>1. /\ FullHands' = FullHands + 1 /\ EmptyHands' = EmptyHands - 1
          /\ stage # "off"
      BY <1>11, <1>s DEF VflowCount, AtV, FrameInv, vencLocals
    <2> HIDE DEF FullHands, EmptyHands
    <2> QED  BY <1>11, <1>c, <1>n, <1>h, <2>1 DEF VflowCount, queues
  <1>12. CASE VflowPut
    <2>1. FullHands' = FullHands - 1 /\ EmptyHands' = EmptyHands
      BY <1>12 DEF VflowPut, AtV, FrameInv, vencLocals
    <2> HIDE DEF FullHands, EmptyHands
    <2> QED  BY <1>12, <1>c, <1>n, <1>h, <2>1 DEF VflowPut
  <1>13. CASE VflowHead \/ VflowWait \/ VflowTimeout
    BY <1>9, <1>13 DEF VflowHead, VflowWait, VflowTimeout, AtV, shared, queues, vencLocals
  <1>14. CASE VflowGetLoop \/ VflowGet \/ VflowGetFails
    BY <1>9, <1>14 DEF VflowGetLoop, VflowGet, VflowGetFails, AtV, FrameInv, shared, queues, vencLocals
  <1>15. CASE VflowPutLoop \/ VflowDisplay \/ VflowRelease
    BY <1>9, <1>15 DEF VflowPutLoop, VflowDisplay, VflowRelease, AtV, shared, queues, vencLocals
  <1>16. CASE VflowFree \/ VflowFinish
    BY <1>9, <1>16 DEF VflowFree, VflowFinish, AtV, shared, queues, vflowLocals, vencLocals
  <1>17. CASE VencDequeue
    <2>1. FullHands' = FullHands + 1 /\ EmptyHands' = EmptyHands
      BY <1>17 DEF VencDequeue, AtE, vflowLocals
    <2> HIDE DEF FullHands, EmptyHands
    <2> QED  BY <1>17, <1>c, <1>n, <1>h, <2>1 DEF VencDequeue
  <1>18. CASE VencUncount
    <2>1. /\ FullHands' = FullHands - 1 /\ EmptyHands' = EmptyHands + 1
          /\ FullHands >= 1 /\ stage # "off"
      BY <1>18, <1>s DEF VencUncount, AtE, vflowLocals
    <2> HIDE DEF FullHands, EmptyHands
    <2> QED  BY <1>18, <1>c, <1>n, <1>h, <2>1 DEF VencUncount, queues
  <1>19. CASE VencPut
    <2>1. FullHands' = FullHands /\ EmptyHands' = EmptyHands - 1
      BY <1>19 DEF VencPut, AtE, vflowLocals
    <2> HIDE DEF FullHands, EmptyHands
    <2> QED  BY <1>19, <1>c, <1>n, <1>h, <2>1 DEF VencPut
  <1>20. CASE VencHead \/ VencWait \/ VencTimeout \/ VencBreak
    BY <1>9, <1>20 DEF VencHead, VencWait, VencTimeout, VencBreak, AtE, shared, queues, vflowLocals
  <1>21. CASE VencSend \/ VencOutLoop \/ VencOut \/ VencOutTimeout \/ VencRelease
    BY <1>9, <1>21 DEF VencSend, VencOutLoop, VencOut, VencOutTimeout, VencRelease, AtE, shared, queues,
       vflowLocals
  <1>22. CASE VencPutLoop \/ VencReleaseOutput \/ VencFree \/ VencFinish
    BY <1>9, <1>22 DEF VencPutLoop, VencReleaseOutput, VencFree, VencFinish, AtE, shared, queues,
       vflowLocals, vencLocals
  <1>23. CASE UNCHANGED vars
    BY <1>9, <1>23, <1>h, <1>u DEF vars, shared, queues
  <1> QED
    BY <1>1, <1>2, <1>4, <1>5, <1>6, <1>7, <1>8, <1>10, <1>11, <1>12, <1>13, <1>14, <1>15, <1>16,
       <1>17, <1>18, <1>19, <1>20, <1>21, <1>22, <1>23
    DEF PipelineNext, Owner, Vflow, Venc

-----------------------------------------------------------------------------
(***************************************************************************)
(* What the frames add to PipelineInv: the frame in a hand is in the       *)
(* descriptor in that hand, or an enqueue would pass another one on; the   *)
(* buffers lent are the frames in order, and none is lent twice, or a      *)
(* release would take back another's; the encoder reads venc's frame; and  *)
(* vflow_buffer_used_count lies between the frames and what is not empty.  *)
(* The order is lost when venc breaks out of its loop with a frame, and    *)
(* comes back only with the next start, after StopHardware.                *)
(***************************************************************************)
FlowInv ==
    /\ PipelineInv
    /\ LoopInv /\ FrameInv /\ OrderInv /\ EncodingInv /\ CountInv

LEMMA FlowInvInit == PipelineInit => FlowInv
  <1> SUFFICES ASSUME PipelineInit  PROVE FlowInv
    OBVIOUS
  <1>1. PipelineInv
    BY PipelineInvInit
  <1>2. vflow \in Workers /\ venc \in Workers /\ None \in Lists({}) /\ Len(<< >>) = 0
    BY PipelineAssumption, EmptySeq DEF None, Lists
  <1>3. LoopInv
    BY <1>2 DEF PipelineInit, ThreadInit, LoopInv, Quiet
  <1>4. FrameInv
    BY DEF PipelineInit, FrameInv, ToEncode, InEncoder
  <1>5. OrderInv
    <2>1. /\ OfVenc = None /\ OfVflow = None /\ lent = None /\ v2e = None
      BY DEF PipelineInit, OfVenc, OfVflow, InEncoder, ToEncode, None
    <2>2. Cat(Cat(None, None), None) = None /\ Images(image, None) = None
      BY <1>2, CatNone, ImagesAt
    <2>3. Distinct(None)
      BY <1>2 DEF Distinct, None
    <2> QED  BY <2>1, <2>2, <2>3 DEF OrderInv
  <1>6. EncodingInv
    BY <1>2 DEF PipelineInit, EncodingInv
  <1>7. CountInv
    <2>1. Cardinality(Descs) \in Nat
      BY PipelineAssumption, FS_CardinalityType
    <2> QED
      BY <1>2, <2>1 DEF PipelineInit, CountInv, FullHands, EmptyHands, One, ToEncode, InEncoder
  <1> QED  BY <1>1, <1>3, <1>4, <1>5, <1>6, <1>7 DEF FlowInv

LEMMA FlowInvHolds == PipelineSpec => []FlowInv
  <1>1. PipelineInv /\ [PipelineNext]_vars => PipelineInv'
    BY PipelineStepsThreads, ThreadInvNext, StageNext, HandsNext, PlaceNext DEF PipelineInv
  <1>2. FlowInv /\ [PipelineNext]_vars => FlowInv'
    BY <1>1, LoopNext, FrameNext, OrderNext, EncodingNext, CountNext DEF FlowInv, PipelineInv
  <1> QED  BY <1>2, FlowInvInit, PTL DEF PipelineSpec

\* While venc is in its loop the VSE has lent exactly the frames in venc's
\* hands, in m_vflow_to_enc_queue and in vflow's hands, oldest first.
THEOREM FramesStayInOrder == PipelineSpec => []FramesInOrder
  <1>1. FlowInv => FramesInOrder
    <2> SUFFICES ASSUME FlowInv, worker[venc] = "loop"
                 PROVE  lent = VencFrames \o [i \in DOMAIN v2e |-> image[v2e[i]]] \o VflowFrames
      BY DEF FramesInOrder
    <2>1. lent = Cat(Cat(OfVenc, Images(image, v2e)), OfVflow)
      BY DEF FlowInv, OrderInv, InOrder
    <2>2. OfVenc = VencFrames /\ OfVflow = VflowFrames
      BY DEF OfVenc, OfVflow, InEncoder, ToEncode, VencFrames, VflowFrames, Single, None
    <2> QED  BY <2>1, <2>2 DEF Cat, Images
  <1> QED  BY <1>1, FlowInvHolds, PTL

\* The encoder reads a frame that is lent, the one in venc's hands.
THEOREM EncoderReadsItsFrame == PipelineSpec => []EncoderReadsLent
  <1>1. FlowInv => EncoderReadsLent
    <2> SUFFICES ASSUME FlowInv, encoding # Nil, worker[venc] = "loop", Running(venc)
                 PROVE  encoding \in Range(lent) /\ encoding = image[eframe]
      BY DEF EncoderReadsLent
    <2> DEFINE F == Buffers \cup {Nil}
               R == Cat(Images(image, v2e), OfVflow)
               x == image[eframe]
    <2>1. epc \in {"outLoop", "out"} /\ encoding = x
      BY DEF FlowInv, EncodingInv
    <2>2. OfVenc = Single(x) /\ x \in F /\ Images(image, v2e) \in Lists(F) /\ OfVflow \in Lists(F)
      BY <2>1, PartsAreLists DEF FlowInv, PipelineInv, OfVenc, InEncoder
    <2>3. lent = Cat(Cat(Single(x), Images(image, v2e)), OfVflow)
      BY <2>2 DEF FlowInv, OrderInv, InOrder
    <2>4. lent = Cat(Single(x), R) /\ Single(x) \in Lists(F) /\ R \in Lists(F)
      <3> DEFINE m == Images(image, v2e)
      <3> HIDE DEF m, x, F
      <3>1. None \in Lists(F)
        BY EmptySeq DEF None, Lists
      <3>2. Single(x) \in Lists(F)
        BY <2>2, <3>1, CatOne
      <3>3. m \in Lists(F) /\ OfVflow \in Lists(F) /\ lent = Cat(Cat(Single(x), m), OfVflow)
        BY <2>2, <2>3 DEF m
      <3>4. Cat(m, OfVflow) \in Lists(F)
        BY <3>3, CatType
      <3>5. Cat(Cat(Single(x), m), OfVflow) = Cat(Single(x), Cat(m, OfVflow))
        BY <3>2, <3>3, CatAssociative
      <3> QED  BY <3>2, <3>3, <3>4, <3>5 DEF m
    <2> HIDE DEF R, x, F
    <2>5. Starts(lent, x, Cat(None, R))
      BY <2>2, <2>4, StartsOne, StartsCat, CatNone
    <2>6. lent \in Seq(F) /\ lent # << >> /\ x = Head(lent)
      BY <2>4, <2>5, CatType DEF Starts, Lists
    <2>7. x = lent[1] /\ 1 \in DOMAIN lent
      BY <2>6
    <2> QED  BY <2>1, <2>7 DEF Range, x
  <1> QED  BY <1>1, FlowInvHolds, PTL

\* vflow_buffer_used_count stays between nothing and all of the buffers.
THEOREM UsedCountStaysInRange == PipelineSpec => []UsedCountInRange
  <1>1. FlowInv => UsedCountInRange
    <2> SUFFICES ASSUME FlowInv  PROVE UsedCountInRange
      OBVIOUS
    <2>1. Cardinality(Buffers) = Cardinality(Descs) /\ Cardinality(Descs) \in Nat
      BY PipelineAssumption, FS_CardinalityType
    <2>2. Len(e2v) \in Nat /\ EmptyHands \in 0 .. 2 /\ used \in Nat
          /\ used + Len(e2v) + EmptyHands <= Cardinality(Descs)
      BY DEF FlowInv, PipelineInv, PlaceInv, Apart, CountInv, EmptyHands, One
    <2> QED  BY <2>1, <2>2 DEF UsedCountInRange
  <1> QED  BY <1>1, FlowInvHolds, PTL
=============================================================================
