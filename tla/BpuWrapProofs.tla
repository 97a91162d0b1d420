--------------------------- MODULE BpuWrapProofs ---------------------------
(***************************************************************************)
(* Theorems about BpuWrap, for every size of its rings and queues, any     *)
(* number of frames and restarts, with or without errors and failed        *)
(* creations of threads.                                                   *)
(***************************************************************************)
EXTENDS BpuWrap, MThreadProofs, ListLemmas

-----------------------------------------------------------------------------
\* The threads of the inference are threads of MThread.
LEMMA BpuStepsThreads == [BpuNext]_vars => [ThreadNext]_threadVars
  <1> SUFFICES ASSUME [BpuNext]_vars  PROVE [ThreadNext]_threadVars
    OBVIOUS
  <1> USE BpuAssumption DEF ThreadNext, OwnerStep, WorkerStep
  <1>1. ASSUME NEW w \in Workers, OwnerInside(w)  PROVE [ThreadNext]_threadVars
    BY <1>1 DEF OwnerInside
  <1>2. CASE WrapInit \/ WrapDeinit
    BY <1>2 DEF WrapInit, WrapDeinit
  <1>3. CASE StartInfer \/ StartPost \/ StartSender
    BY <1>3 DEF StartInfer, StartPost, StartSender
  <1>4. CASE StopSender \/ StopPost \/ StopInfer
    BY <1>4 DEF StopSender, StopPost, StopInfer
  <1>5. CASE SenderHead \/ SenderRelease \/ SenderFinish
    BY <1>5 DEF SenderHead, SenderRelease, SenderFinish, GivesUp
  <1>6. CASE SenderGet \/ SenderGetFails \/ SendSkip \/ SendWrite \/ SendEnqueue
    BY <1>6 DEF SenderGet, SenderGetFails, SendSkip, SendWrite, SendEnqueue
  <1>7. CASE InferPrepareFails \/ InferHead \/ InferFails \/ InferFinish
    BY <1>7 DEF InferPrepareFails, InferHead, InferFails, InferFinish, GivesUp
  <1>8. CASE \/ InferPrepare \/ InferDequeue \/ InferWait \/ InferTimeout \/ InferSkip
             \/ InferDone \/ InferNoMemory \/ InferEnqueue \/ InferRelease
    BY <1>8 DEF InferPrepare, InferDequeue, InferWait, InferTimeout, InferSkip,
                InferDone, InferNoMemory, InferEnqueue, InferRelease
  <1>9. CASE PostHead \/ PostFinish
    BY <1>9 DEF PostHead, PostFinish
  <1>10. CASE PostDequeue \/ PostWait \/ PostTimeout \/ PostDone
    BY <1>10 DEF PostDequeue, PostWait, PostTimeout, PostDone
  <1>11. CASE UNCHANGED vars
    BY <1>11 DEF vars
  <1> QED
    BY <1>1, <1>2, <1>3, <1>4, <1>5, <1>6, <1>7, <1>8, <1>9, <1>10, <1>11
    DEF BpuNext, Owner, Sender, Infer, Post

\* The two threads of bpu_wrap and the callers that start and stop them use
\* mthread.c as MThread describes it, so what is proved there holds here too:
\* bpu_wrap_stop returns when its threads are done with the queues.
THEOREM BpuKeepsThreadRules == BpuSpec => ThreadSpec
  <1>1. BpuInit => ThreadInit
    BY DEF BpuInit
  <1> QED  BY <1>1, BpuStepsThreads, PTL DEF BpuSpec, ThreadSpec

LEMMA BpuThreadInv == BpuSpec => []ThreadInv
  <1>1. BpuInit => ThreadInv
    BY ThreadInvInit DEF BpuInit
  <1>2. ThreadInv /\ [BpuNext]_vars => ThreadInv'
    BY BpuStepsThreads, ThreadInvNext
  <1> QED  BY <1>1, <1>2, PTL DEF BpuSpec

-----------------------------------------------------------------------------
\* Where the owner is says which threads can be running.
Idle(w) == call[w] = "none" /\ result[w] \in {"none", "stopped"}
Ending(w) ==
    /\ call[w] \notin {"start", "create"}
    /\ call[w] = "none" => result[w] = "stopped"

Stages == {"off", "startInfer", "startPost", "startSender", "running",
           "stopPost", "stopInfer", "stopped"}

StageInv ==
    /\ stage \in Stages
    /\ stage \in {"off", "startInfer", "startPost", "startSender", "stopInfer", "stopped"}
         => Idle(sender)
    /\ stage = "stopPost" => Ending(sender)
    /\ stage \in {"off", "startInfer"} => Idle(infer)
    /\ stage = "stopped" => Ending(infer)
    /\ call[infer] \notin {"none", "start", "create"} => stage = "stopped"
    /\ stage \in {"off", "startInfer", "startPost", "stopped"} => Idle(post)
    /\ stage = "stopInfer" => Ending(post)
    /\ call[sender] \in {"start", "create"} => spc = "head"
    /\ call[infer] \in {"start", "create"} => ipc = "prepare"
    /\ call[post] \in {"start", "create"} => ppc = "head"

LEMMA StageNext == ThreadInv /\ StageInv /\ [BpuNext]_vars => StageInv'
  <1> SUFFICES ASSUME ThreadInv, StageInv, [BpuNext]_vars  PROVE StageInv'
    OBVIOUS
  <1> USE BpuAssumption DEF StageInv, Stages, Idle, Ending, ThreadInv, ThreadTypeOK, Calls,
                            Results, Lifecycle, CallAgrees
  <1>1. CASE WrapInit \/ WrapDeinit
    BY <1>1 DEF WrapInit, WrapDeinit, threadVars, inferLocals, postLocals, OwnerFree
  <1>2. CASE StartInfer \/ StartPost \/ StartSender
    BY <1>2 DEF StartInfer, StartPost, StartSender, StartCall, OwnerFree, inputs,
                inferLocals, postLocals
  <1>3. CASE StopSender \/ StopPost \/ StopInfer
    BY <1>3 DEF StopSender, StopPost, StopInfer, StopCall, OwnerFree, inputs,
                inferLocals, postLocals
  <1>4. ASSUME NEW w \in Workers, OwnerInside(w)  PROVE StageInv'
    BY <1>4 DEF OwnerInside, OwnerStep, StartMark, CreateOk, CreateFails, StopMark, StopKill,
                StopJoin, StopPoll, StopEnd, StopSleep, threadVars, inputs, inferLocals, postLocals
  <1>5. ASSUME call' = call, result' = result, stage' = stage,
               spc' = spc \/ worker[sender] \in {"loop", "leaving"},
               ipc' = ipc \/ worker[infer] \in {"loop", "leaving"},
               ppc' = ppc \/ worker[post] \in {"loop", "leaving"}
        PROVE  StageInv'
    BY <1>5 DEF RunningIsStarted, Quiet
  <1>6. CASE Sender
    BY <1>5, <1>6 DEF Sender, SenderHead, SenderGet, SenderGetFails, SendSkip, SendWrite,
                SendEnqueue, SenderRelease, SenderFinish, AtS, GivesUp, BreakLoop, LeaveLoop,
                FinishMark, FinishExit, threadVars, inputs, inferLocals, postLocals
  <1>7. CASE Infer
    BY <1>5, <1>7 DEF Infer, InferPrepare, InferPrepareFails, InferHead, InferDequeue,
                InferWait, InferTimeout, InferFails, InferSkip, InferDone, InferNoMemory,
                InferEnqueue, InferRelease, InferFinish, AtI, GivesUp, BreakLoop, LeaveLoop,
                FinishMark, FinishExit, threadVars, inputs, inferLocals, postLocals
  <1>8. CASE Post
    BY <1>5, <1>8 DEF Post, PostHead, PostDequeue, PostWait, PostTimeout, PostDone, PostFinish,
                AtP, LeaveLoop, FinishMark, FinishExit, threadVars, inputs, inferLocals
  <1>9. CASE UNCHANGED vars
    BY <1>5, <1>9 DEF vars, threadVars, inputs, inferLocals, postLocals
  <1> QED
    BY <1>1, <1>2, <1>3, <1>4, <1>6, <1>7, <1>8, <1>9 DEF BpuNext, Owner

\* When tensors and queues are replaced or freed, nobody works on them.
LEMMA QuietWhenFreed ==
    ASSUME ThreadInv, StageInv, WrapInit \/ WrapDeinit
    PROVE  Quiet(sender) /\ Quiet(infer) /\ Quiet(post)
  BY BpuAssumption DEF ThreadInv, Lifecycle, RunningIsStarted, StageInv, Idle, Ending,
     WrapInit, WrapDeinit, OwnerFree

\* Only its creation makes a thread run, and then from the start of its loop.
LEMMA EntersAtStart ==
    ASSUME ThreadInv, StageInv, NEW w \in Workers, OwnerInside(w)
    PROVE  /\ UNCHANGED <<stage, inputs, outputs, inferLocals, postLocals, history>>
           /\ worker'[sender] = "loop" => worker[sender] = "loop" \/ spc = "head"
           /\ worker'[infer] = "loop" => worker[infer] = "loop" \/ ipc = "prepare"
           /\ worker'[post] = "loop" => worker[post] = "loop" \/ ppc = "head"
  BY BpuAssumption DEF OwnerInside, OwnerStep, StartMark, CreateOk, CreateFails, StopMark,
     StopKill, StopJoin, StopPoll, StopEnd, StopSleep, threadVars, StageInv, ThreadInv,
     ThreadTypeOK

-----------------------------------------------------------------------------
\* The input ring.  The queued tensors, and before them the one the model is
\* reading, are those the sender used last, in the order it used them.
N == BPU_INPUT_BUFFER_NUM
Back(c, k) == IF c >= k THEN c - k ELSE c - k + N
Reading == AtI("infer") \/ AtI("enqueue")

RingInv ==
    /\ curIn \in InTensors
    /\ inq \in Seq(InTensors)
    /\ Len(inq) <= InputSlots
    /\ AtS("enqueue") => Len(inq) < InputSlots
    /\ \A i \in 1 .. Len(inq) : inq[i] = Back(curIn, Len(inq) - i + 1)
    /\ Reading => input = Back(curIn, Len(inq) + 1)

LEMMA NextInSlot ==
    ASSUME curIn \in InTensors
    PROVE  /\ NextIn \in InTensors
           /\ NextIn = IF curIn + 1 = N THEN 0 ELSE curIn + 1
  BY BpuAssumption DEF InTensors, NextIn, N

\* A step that leaves the ring alone.
LEMMA RingKept ==
    ASSUME RingInv, UNCHANGED <<curIn, inq>>,
           AtS("enqueue")' => Len(inq) < InputSlots,
           Reading' => Reading /\ input' = input
    PROVE  RingInv'
  BY DEF RingInv, Back

LEMMA RingInit == BpuInit => RingInv
  BY BpuAssumption DEF BpuInit, RingInv, InTensors, Reading, AtI, AtS

LEMMA RingNext == ThreadInv /\ StageInv /\ RingInv /\ [BpuNext]_vars => RingInv'
  <1> SUFFICES ASSUME ThreadInv, StageInv, RingInv, [BpuNext]_vars  PROVE RingInv'
    OBVIOUS
  <1> USE DEF AtS, AtI, Reading
  <1>0. /\ 0 \in InTensors /\ InputSlots \in Nat \ {0} /\ N \in Nat \ {0} /\ N > InputSlots
        /\ sender \in Workers /\ infer \in Workers /\ post \in Workers
        /\ sender # infer /\ sender # post /\ infer # post
        /\ worker \in [Workers -> WorkerStates]
    BY BpuAssumption DEF InTensors, N, ThreadInv, ThreadTypeOK
  <1>1. CASE WrapInit
    <2>1. ~ Reading'
      BY <1>1, QuietWhenFreed DEF WrapInit, Quiet, threadVars
    <2> QED  BY <1>1, <1>0, <2>1 DEF WrapInit, RingInv
  <1>2. CASE WrapDeinit
    <2>1. ~ Reading'
      BY <1>2, QuietWhenFreed DEF WrapDeinit, Quiet, threadVars
    <2> QED  BY <1>2, <1>0, <2>1 DEF WrapDeinit, RingInv
  <1>3. CASE StartInfer \/ StartPost \/ StartSender \/ StopSender \/ StopPost \/ StopInfer
    BY <1>3, RingKept DEF StartInfer, StartPost, StartSender, StopSender, StopPost, StopInfer,
       StartCall, StopCall, inputs, inferLocals, postLocals, RingInv
  <1>4. ASSUME NEW w \in Workers, OwnerInside(w)  PROVE RingInv'
    BY <1>4, EntersAtStart, RingKept DEF inputs, inferLocals, RingInv
  <1>5. CASE SenderHead \/ SenderGet \/ SenderGetFails \/ SendSkip \/ SenderRelease \/ SenderFinish
    BY <1>0, <1>5, RingKept DEF SenderHead, SenderGet, SenderGetFails, SendSkip, SenderRelease,
       SenderFinish, GivesUp, BreakLoop, LeaveLoop, FinishMark, FinishExit, threadVars, inputs,
       inferLocals
  <1>6. CASE SendWrite
    BY <1>6, RingKept DEF SendWrite, threadVars, inferLocals
  <1>7. CASE SendEnqueue
    <2>1. Len(inq) < InputSlots /\ inq' = Append(inq, curIn) /\ curIn' = NextIn
      BY <1>7 DEF SendEnqueue, RingInv
    <2>2. /\ inq' \in Seq(InTensors) /\ Len(inq') = Len(inq) + 1
          /\ \A i \in 1 .. Len(inq) : inq'[i] = inq[i]
          /\ inq'[Len(inq) + 1] = curIn
      BY <2>1 DEF RingInv
    <2>3. \A k \in 1 .. N - 1 : Back(curIn', k + 1) = Back(curIn, k)
      BY SMTT(30), <1>0, <2>1, NextInSlot DEF Back, RingInv, InTensors, N
    <2>4. Back(curIn', 1) = curIn
      <3>1. curIn \in 0 .. N - 1 /\ N \in Nat /\ curIn' = IF curIn + 1 = N THEN 0 ELSE curIn + 1
        BY <1>0, <2>1, NextInSlot DEF RingInv, InTensors, N
      <3> QED  BY <3>1 DEF Back
    <2>5. \A i \in 1 .. Len(inq') : inq'[i] = Back(curIn', Len(inq') - i + 1)
      <3> SUFFICES ASSUME NEW i \in 1 .. Len(inq')
                   PROVE  inq'[i] = Back(curIn', Len(inq') - i + 1)
        OBVIOUS
      <3>1. CASE i = Len(inq) + 1
        BY <2>2, <2>4, <3>1 DEF RingInv
      <3>2. CASE i \in 1 .. Len(inq)
        <4> DEFINE k == Len(inq) - i + 1
        <4>1. k \in 1 .. N - 1
          BY <1>0, <2>1, <3>2 DEF RingInv
        <4>2. Back(curIn', k + 1) = Back(curIn, k)
          BY <2>3, <4>1
        <4>3. Len(inq') - i + 1 = k + 1
          BY <2>2, <3>2 DEF RingInv
        <4>4. inq[i] = Back(curIn, k)
          BY <3>2 DEF RingInv
        <4> QED  BY <2>2, <3>2, <4>2, <4>3, <4>4
      <3> QED  BY <2>2, <3>1, <3>2 DEF RingInv
    <2>6. Reading' => input' = Back(curIn', Len(inq') + 1)
      <3>1. Reading' => Reading /\ input' = input
        BY <1>7 DEF SendEnqueue, threadVars, inferLocals
      <3>2. Len(inq) + 1 \in 1 .. N - 1
        BY <1>0, <2>1 DEF RingInv
      <3> QED  BY <2>2, <2>3, <3>1, <3>2 DEF RingInv
    <2>7. ~ AtS("enqueue")'
      BY <1>7 DEF SendEnqueue
    <2> QED  BY <1>0, <2>1, <2>2, <2>5, <2>6, <2>7, NextInSlot DEF RingInv
  <1>8. CASE InferDequeue
    <2>1. /\ inq' = Tail(inq) /\ Len(inq) \in Nat \ {0} /\ input' = inq[1]
          /\ UNCHANGED <<curIn, worker, spc>>
      BY <1>8 DEF InferDequeue, RingInv, threadVars
    <2>2. /\ inq' \in Seq(InTensors) /\ Len(inq') = Len(inq) - 1
          /\ \A i \in 1 .. Len(inq) - 1 : inq'[i] = inq[i + 1]
      BY <2>1 DEF RingInv
    <2>3. \A i \in 1 .. Len(inq') : inq'[i] = Back(curIn, Len(inq') - i + 1)
      <3> SUFFICES ASSUME NEW i \in 1 .. Len(inq')  PROVE inq'[i] = Back(curIn, Len(inq') - i + 1)
        OBVIOUS
      <3>1. i + 1 \in 1 .. Len(inq) /\ Len(inq) - (i + 1) + 1 = Len(inq') - i + 1
        BY <2>1, <2>2
      <3>2. inq[i + 1] = Back(curIn, Len(inq) - (i + 1) + 1)
        BY <3>1 DEF RingInv
      <3> QED  BY <2>1, <2>2, <3>1, <3>2
    <2>4. input' = Back(curIn, Len(inq') + 1)
      BY <2>1, <2>2 DEF RingInv, Back
    <2> QED  BY <1>0, <2>1, <2>2, <2>3, <2>4 DEF RingInv, Back
  <1>9. CASE \/ InferPrepare \/ InferPrepareFails \/ InferHead \/ InferWait \/ InferTimeout
             \/ InferFails \/ InferSkip \/ InferDone \/ InferNoMemory \/ InferEnqueue
             \/ InferRelease \/ InferFinish
    BY <1>0, <1>9, RingKept DEF InferPrepare, InferPrepareFails, InferHead, InferWait,
       InferTimeout, InferFails, InferSkip, InferDone, InferNoMemory, InferEnqueue, InferRelease,
       InferFinish, GivesUp, BreakLoop, LeaveLoop, FinishMark, FinishExit, threadVars, inputs,
       inferLocals, RingInv
  <1>10. CASE Post
    BY <1>0, <1>10, RingKept DEF Post, PostHead, PostDequeue, PostWait, PostTimeout, PostDone,
       PostFinish, LeaveLoop, FinishMark, FinishExit, threadVars, inputs, inferLocals, RingInv
  <1>11. CASE UNCHANGED vars
    BY <1>11, RingKept DEF vars, threadVars, inputs, inferLocals, RingInv
  <1> QED
    BY <1>1, <1>2, <1>3, <1>4, <1>5, <1>6, <1>7, <1>8, <1>9, <1>10, <1>11
    DEF BpuNext, Owner, Sender, Infer

-----------------------------------------------------------------------------
\* What is in the input tensors that are queued, read and about to be queued.
ContentInv ==
    /\ frames \in 0 .. MaxFrames
    /\ sframe \in Frames \cup {NoFrame}
    /\ inTensor \in [InTensors -> Frames \cup {NoFrame, Freed}]
    /\ input \in InTensors
    /\ AtS("send") \/ AtS("enqueue") => sframe \in Frames
    /\ \A i \in 1 .. Len(inq) : inTensor[inq[i]] \in Frames
    /\ AtS("enqueue") => inTensor[curIn] \in Frames
    /\ Reading => inTensor[input] \in Frames

LEMMA ContentInit == BpuInit => ContentInv
  BY BpuAssumption DEF BpuInit, ContentInv, InTensors, Frames, NoFrame, Reading, AtI, AtS,
     ThreadInit

\* A step that leaves the frames where they are.
LEMMA ContentKept ==
    ASSUME ContentInv, UNCHANGED <<frames, inTensor, curIn, inq, input>>,
           sframe' \in {sframe, NoFrame},
           AtS("send")' => AtS("send") /\ sframe' = sframe,
           AtS("enqueue")' => AtS("enqueue") /\ sframe' = sframe,
           Reading' => Reading
    PROVE  ContentInv'
  BY DEF ContentInv

LEMMA ContentNext ==
    ThreadInv /\ StageInv /\ RingInv /\ ContentInv /\ [BpuNext]_vars => ContentInv'
  <1> SUFFICES ASSUME ThreadInv, StageInv, RingInv, ContentInv, [BpuNext]_vars
               PROVE  ContentInv'
    OBVIOUS
  <1> USE DEF AtS, AtI, Reading
  <1>0. /\ sender \in Workers /\ infer \in Workers /\ post \in Workers
        /\ sender # infer /\ sender # post /\ infer # post
        /\ worker \in [Workers -> WorkerStates]
        /\ MaxFrames \in Nat
    BY BpuAssumption DEF ThreadInv, ThreadTypeOK
  <1>1. CASE WrapInit \/ WrapDeinit
    <2>1. worker'[sender] # "loop" /\ worker'[infer] # "loop"
      BY <1>1, QuietWhenFreed DEF WrapInit, WrapDeinit, Quiet, threadVars
    <2> QED  BY <1>1, <2>1 DEF WrapInit, WrapDeinit, inferLocals, ContentInv
  <1>2. CASE StartInfer \/ StartPost \/ StartSender \/ StopSender \/ StopPost \/ StopInfer
    BY <1>2, ContentKept DEF StartInfer, StartPost, StartSender, StopSender, StopPost, StopInfer,
       StartCall, StopCall, inputs, inferLocals
  <1>3. ASSUME NEW w \in Workers, OwnerInside(w)  PROVE ContentInv'
    BY <1>3, EntersAtStart, ContentKept DEF inputs, inferLocals
  <1>4. CASE SenderGet
    <2>1. frames' \in 0 .. MaxFrames /\ sframe' \in Frames
      BY <1>0, <1>4 DEF SenderGet, ContentInv, Frames
    <2> QED  BY <1>4, <2>1 DEF SenderGet, ContentInv, threadVars, inferLocals
  <1>5. CASE SendWrite
    <2>1. \A t \in InTensors : inTensor'[t] \in {inTensor[t], sframe}
      BY <1>5 DEF SendWrite, ContentInv
    <2>2. sframe \in Frames /\ inTensor'[curIn] = sframe
      BY <1>5 DEF SendWrite, ContentInv, RingInv
    <2>3. \A i \in 1 .. Len(inq) : inq[i] \in InTensors
      BY DEF RingInv
    <2> QED  BY <1>0, <1>5, <2>1, <2>2, <2>3 DEF SendWrite, ContentInv, threadVars, inferLocals
  <1>6. CASE SendEnqueue
    <2>1. inq' = Append(inq, curIn)
      BY <1>6 DEF SendEnqueue, RingInv
    <2>2. \A i \in 1 .. Len(inq') : inTensor[inq'[i]] \in Frames
      BY <1>6, <2>1 DEF SendEnqueue, ContentInv, RingInv
    <2> QED  BY <1>6, <2>2 DEF SendEnqueue, ContentInv, threadVars, inferLocals
  <1>7. CASE SenderHead \/ SenderGetFails \/ SendSkip \/ SenderRelease \/ SenderFinish
    BY <1>0, <1>7, ContentKept DEF SenderHead, SenderGetFails, SendSkip, SenderRelease,
       SenderFinish, GivesUp, BreakLoop, LeaveLoop, FinishMark, FinishExit, threadVars,
       inferLocals, inputs
  <1>8. CASE InferDequeue
    <2>1. Len(inq) \in Nat \ {0} /\ inq' = Tail(inq) /\ input' = inq[1]
      BY <1>8 DEF InferDequeue, RingInv
    <2>2. \A i \in 1 .. Len(inq') : inTensor[inq'[i]] \in Frames
      BY <2>1 DEF ContentInv, RingInv
    <2>3. input' \in InTensors /\ inTensor[input'] \in Frames
      BY <2>1 DEF ContentInv, RingInv
    <2> QED  BY <1>8, <2>2, <2>3 DEF InferDequeue, ContentInv, threadVars
  <1>9. CASE \/ InferPrepare \/ InferPrepareFails \/ InferHead \/ InferWait \/ InferTimeout
             \/ InferFails \/ InferSkip \/ InferDone \/ InferNoMemory \/ InferEnqueue
             \/ InferRelease \/ InferFinish
    BY <1>0, <1>9, ContentKept DEF InferPrepare, InferPrepareFails, InferHead, InferWait,
       InferTimeout, InferFails, InferSkip, InferDone, InferNoMemory, InferEnqueue, InferRelease,
       InferFinish, GivesUp, BreakLoop, LeaveLoop, FinishMark, FinishExit, threadVars, inputs,
       inferLocals
  <1>10. CASE Post
    BY <1>0, <1>10, ContentKept DEF Post, PostHead, PostDequeue, PostWait, PostTimeout, PostDone,
       PostFinish, LeaveLoop, FinishMark, FinishExit, threadVars, inputs, inferLocals
  <1>11. CASE UNCHANGED vars
    BY <1>11, ContentKept DEF vars, threadVars, inputs, inferLocals
  <1> QED
    BY <1>1, <1>2, <1>3, <1>4, <1>5, <1>6, <1>7, <1>8, <1>9, <1>10, <1>11
    DEF BpuNext, Owner, Sender, Infer

-----------------------------------------------------------------------------
\* The output ring: what post reads, or will find in its queue, is live.
\* As long as nobody gives up, only a stop ends the inference, and before the
\* first result nothing is queued.
Filled(t) == outTensor[t] \in Frames

OutInv ==
    /\ outTensor \in [OutTensors -> Frames \cup {NoFrame, Freed}]
    /\ curOut \in OutTensors
    /\ outq \in Seq(PostInfos)
    /\ info \in PostInfos \cup {NoInfo}
    /\ AtP("process") => info \in PostInfos
    /\ skips \in Nat /\ broke \in BOOLEAN
    /\ worker[infer] = "leaving" /\ ~ broke => stage = "stopped"
    /\ AtI("infer") \/ AtI("enqueue") => Filled(curOut)
    /\ stage = "startInfer" \/ call[infer] \in {"start", "create"} \/ AtI("prepare")
         => outq = << >> /\ ~ AtP("process")
    /\ stage \notin {"off", "stopped"} /\ ~ broke =>
         /\ \A i \in 1 .. Len(outq) : Filled(outq[i].tensor)
         /\ AtP("process") => Filled(info.tensor)

LEMMA NextOutSlot == ASSUME curOut \in OutTensors  PROVE NextOut \in OutTensors
  BY BpuAssumption DEF OutTensors, NextOut

LEMMA OutInit == BpuInit => OutInv
  <1> SUFFICES ASSUME BpuInit  PROVE OutInv
    OBVIOUS
  <1>1. 0 \in OutTensors /\ infer \in Workers /\ post \in Workers
    BY BpuAssumption DEF OutTensors
  <1>2. outTensor \in [OutTensors -> Frames \cup {NoFrame, Freed}]
    BY DEF BpuInit
  <1>3. worker[infer] = "absent" /\ worker[post] = "absent"
    BY <1>1 DEF BpuInit, ThreadInit
  <1>4. outq = << >> /\ Len(outq) = 0 /\ outq \in Seq(PostInfos)
    BY DEF BpuInit
  <1> QED  BY <1>1, <1>2, <1>3, <1>4 DEF BpuInit, OutInv, AtI, AtP

LEMMA OutNext ==
    ThreadInv /\ StageInv /\ RingInv /\ ContentInv /\ OutInv /\ [BpuNext]_vars => OutInv'
  <1> SUFFICES ASSUME ThreadInv, StageInv, RingInv, ContentInv, OutInv, [BpuNext]_vars
               PROVE  OutInv'
    OBVIOUS
  <1> USE DEF AtI, AtP, Filled
  <1>0. /\ sender \in Workers /\ infer \in Workers /\ post \in Workers
        /\ sender # infer /\ sender # post /\ infer # post
        /\ worker \in [Workers -> WorkerStates]
        /\ call \in [Workers -> Calls]
    BY BpuAssumption DEF ThreadInv, ThreadTypeOK
  <1>a. stage \in {"off", "startInfer", "startPost", "stopped"} => Quiet(post)
    BY <1>0 DEF StageInv, Idle, ThreadInv, Lifecycle, RunningIsStarted
  <1>b. stage = "startInfer" \/ call[infer] \in {"start", "create"} => Quiet(infer)
    BY <1>0 DEF StageInv, Idle, ThreadInv, Lifecycle, RunningIsStarted, CallAgrees
  <1>c. worker[infer] = "loop" /\ eState[infer] # "RUNNING" => stage = "stopped"
    <2>1. worker[infer] = "loop" => eState[infer] # "STOPPED" /\ result[infer] = "started"
      BY <1>0 DEF ThreadInv, Lifecycle, RunningIsStarted, Quiet
    <2> QED
      BY <1>0, <2>1 DEF StageInv, ThreadInv, ThreadTypeOK, EStates, Lifecycle, StoppingIsCalled
  <1>1. CASE WrapInit \/ WrapDeinit
    <2>1. worker'[post] # "loop" /\ worker'[infer] \notin {"loop", "leaving"}
      BY <1>1, QuietWhenFreed DEF WrapInit, WrapDeinit, Quiet, threadVars
    <2>2. outq' = << >> /\ \A i \in 1 .. Len(outq') : FALSE
      <3>1. outq' = << >>
        BY <1>1 DEF WrapInit, WrapDeinit
      <3> QED  BY <3>1
    <2>4. outq' \in Seq(PostInfos)
      BY <2>2
    <2>3. /\ UNCHANGED <<outTensor, curOut, ipc, ppc, info>>
          /\ skips' \in Nat /\ broke' \in BOOLEAN
      <3>1. CASE WrapInit
        BY <3>1 DEF WrapInit, postLocals, inferLocals
      <3>2. CASE WrapDeinit
        BY <3>2 DEF WrapDeinit, postLocals, inferLocals, history, OutInv
      <3> QED  BY <1>1, <3>1, <3>2
    <2>5. ~ AtP("process")' /\ ~ AtI("infer")' /\ ~ AtI("enqueue")'
      BY <2>1
    <2> QED
      BY <2>1, <2>2, <2>3, <2>4, <2>5 DEF OutInv
  <1>2. CASE StartInfer \/ StartPost
    BY <1>0, <1>2, <1>a, <1>b DEF StartInfer, StartPost, StartCall, outputs, inferLocals,
       postLocals, history, OutInv, Quiet
  <1>3. CASE StartSender \/ StopSender \/ StopPost
    BY <1>0, <1>3 DEF StartSender, StopSender, StopPost, StartCall, StopCall, outputs,
       inferLocals, postLocals, history, OutInv
  <1>4. CASE StopInfer
    BY <1>0, <1>4 DEF StopInfer, StopCall, outputs, inferLocals, postLocals, history, OutInv
  <1>5. ASSUME NEW w \in Workers, OwnerInside(w)  PROVE OutInv'
    <2>1. /\ call'[infer] \in {"start", "create"} => call[infer] \in {"start", "create"}
          /\ worker'[infer] = "leaving" => worker[infer] = "leaving"
          /\ worker'[infer] = "loop" =>
               worker[infer] = "loop" \/ call[infer] \in {"start", "create"}
      BY <1>0, <1>5 DEF OwnerInside, OwnerStep, StartMark, CreateOk, CreateFails, StopMark,
         StopKill, StopJoin, StopPoll, StopEnd, StopSleep, threadVars
    <2>2. AtP("process")' => AtP("process")
      BY <1>5, EntersAtStart DEF postLocals
    <2>3. AtI("infer")' \/ AtI("enqueue")' => AtI("infer") \/ AtI("enqueue")
      BY <1>5, EntersAtStart DEF inferLocals
    <2>4. AtI("prepare")' => AtI("prepare") \/ call[infer] \in {"start", "create"}
      BY <1>5, <2>1 DEF OwnerInside, inferLocals
    <2> QED
      BY <1>5, <2>1, <2>2, <2>3, <2>4 DEF OwnerInside, outputs, inferLocals, postLocals,
         history, OutInv
  <1>6. CASE Sender
    <2>1. /\ UNCHANGED <<stage, outputs, inferLocals, postLocals, skips, call>>
          /\ broke' = broke \/ broke' = (broke \/ Running(sender))
      BY <1>6 DEF Sender, SenderHead, SenderGet, SenderGetFails, SendSkip, SendWrite,
         SendEnqueue, SenderRelease, SenderFinish, GivesUp, BreakLoop, LeaveLoop,
         FinishMark, FinishExit, threadVars, history
    <2>2. worker'[infer] = worker[infer] /\ worker'[post] = worker[post]
      BY <1>0, <1>6 DEF Sender, SenderHead, SenderGet, SenderGetFails, SendSkip, SendWrite,
         SendEnqueue, SenderRelease, SenderFinish, GivesUp, BreakLoop, LeaveLoop,
         FinishMark, FinishExit, threadVars
    <2>3. broke' \in BOOLEAN /\ (broke => broke')
      BY <2>1 DEF OutInv, Running
    <2> QED
      BY <2>1, <2>2, <2>3 DEF outputs, inferLocals, postLocals, OutInv
  <1>7. CASE InferPrepare
    <2>1. 0 \in OutTensors
      BY BpuAssumption DEF OutTensors
    <2> QED
      BY <1>0, <1>7, <2>1, <1>b DEF InferPrepare, inputs, postLocals, history, threadVars, OutInv,
         Quiet
  <1>8. CASE InferRelease
    BY <1>0, <1>8 DEF InferRelease, postLocals, history, threadVars, OutInv
  <1>9. CASE InferDequeue
    <2>1. inq[1] = Head(inq) /\ 1 \in 1 .. Len(inq)
      BY <1>9 DEF InferDequeue, RingInv
    <2>2. inTensor[Head(inq)] \in Frames
      BY <2>1 DEF ContentInv
    <2>3. /\ outTensor' \in [OutTensors -> Frames \cup {NoFrame, Freed}]
          /\ outTensor'[curOut] \in Frames
          /\ \A t \in OutTensors : Filled(t) => Filled(t)'
      BY <1>9, <2>2 DEF InferDequeue, OutInv
    <2>4. /\ \A i \in 1 .. Len(outq) : outq[i].tensor \in OutTensors
          /\ AtP("process") => info.tensor \in OutTensors
      <3>1. \A p \in PostInfos : p.tensor \in OutTensors
        BY DEF PostInfos
      <3>2. \A i \in 1 .. Len(outq) : outq[i] \in PostInfos
        BY DEF OutInv
      <3> QED  BY <3>1, <3>2 DEF OutInv
    <2> QED
      BY <1>0, <1>9, <2>3, <2>4 DEF InferDequeue, postLocals, history, threadVars, OutInv
  <1>10. CASE InferSkip
    BY <1>0, <1>10, NextOutSlot DEF InferSkip, inputs, postLocals, threadVars, OutInv
  <1>11. CASE InferEnqueue
    <2> DEFINE item == [tensor |-> curOut, tv |-> inTensor[input]]
    <2>1. item \in PostInfos /\ Filled(item.tensor)
      BY <1>11 DEF InferEnqueue, OutInv, PostInfos, ContentInv, Reading
    <2>2. outq' = Append(outq, item)
      BY <1>11 DEF InferEnqueue
    <2>3. /\ outq' \in Seq(PostInfos) /\ Len(outq') = Len(outq) + 1
          /\ \A i \in 1 .. Len(outq) : outq'[i] = outq[i]
          /\ outq'[Len(outq) + 1] = item
      BY <2>1, <2>2 DEF OutInv
    <2> HIDE DEF item
    <2>4. (\A i \in 1 .. Len(outq) : Filled(outq[i].tensor)) =>
            \A i \in 1 .. Len(outq') : Filled(outq'[i].tensor)
      BY <2>1, <2>3 DEF OutInv
    <2>5. UNCHANGED <<outTensor, worker, ppc, info, skips, broke, stage, call>>
          /\ curOut' \in OutTensors /\ ipc' = "head" /\ AtI("enqueue")
      BY <1>11, NextOutSlot DEF InferEnqueue, OutInv, inputs, postLocals, history, threadVars
    <2> QED  BY <1>b, <2>3, <2>4, <2>5 DEF OutInv, Quiet
  <1>12. CASE InferHead \/ InferPrepareFails \/ InferFails
    BY <1>0, <1>12, <1>c DEF InferHead, InferPrepareFails, InferFails, GivesUp, Running,
       BreakLoop, LeaveLoop, threadVars, outputs, postLocals, history, OutInv
  <1>13. CASE InferWait \/ InferTimeout \/ InferDone \/ InferNoMemory \/ InferFinish
    BY <1>0, <1>13 DEF InferWait, InferTimeout, InferDone, InferNoMemory, InferFinish, FinishMark,
       FinishExit, threadVars, outputs, postLocals, history, OutInv
  <1>14. CASE PostDequeue
    <2>1. Len(outq) \in Nat \ {0} /\ outq' = Tail(outq) /\ info' = outq[1]
      BY <1>14 DEF PostDequeue, OutInv
    <2>2. /\ outq' \in Seq(PostInfos) /\ Len(outq') = Len(outq) - 1
          /\ \A i \in 1 .. Len(outq') : outq'[i] = outq[i + 1] /\ i + 1 \in 1 .. Len(outq)
          /\ info' \in PostInfos /\ 1 \in 1 .. Len(outq)
      BY <2>1 DEF OutInv
    <2>3. (\A i \in 1 .. Len(outq) : Filled(outq[i].tensor)) =>
            (\A i \in 1 .. Len(outq') : Filled(outq'[i].tensor)) /\ Filled(info'.tensor)
      BY <2>1, <2>2
    <2>4. UNCHANGED <<outTensor, curOut, worker, ipc, skips, broke, stage, call>>
          /\ ppc' = "process" /\ outq # << >>
      BY <1>14 DEF PostDequeue, inferLocals, history, threadVars
    <2> QED  BY <2>1, <2>2, <2>3, <2>4 DEF OutInv
  <1>15. CASE PostHead \/ PostWait \/ PostTimeout \/ PostFinish
    BY <1>0, <1>15 DEF PostHead, PostWait, PostTimeout, PostFinish, LeaveLoop,
       FinishMark, FinishExit, threadVars, outputs, inferLocals, history, postLocals, OutInv
  <1>17. CASE PostDone
    <2>1. skips' \in Nat /\ info' \in PostInfos \cup {NoInfo} /\ ppc' = "head"
      BY <1>17 DEF PostDone, OutInv
    <2> QED  BY <1>17, <2>1 DEF PostDone, outputs, inferLocals, threadVars, OutInv
  <1>16. CASE UNCHANGED vars
    BY <1>16 DEF vars, threadVars, outputs, inferLocals, postLocals, history, OutInv
  <1> QED
    BY <1>1, <1>2, <1>3, <1>4, <1>5, <1>6, <1>7, <1>8, <1>9, <1>10, <1>11, <1>12, <1>13, <1>14,
       <1>15, <1>16, <1>17
    DEF BpuNext, Owner, Infer, Post

-----------------------------------------------------------------------------
BpuInv == ThreadInv /\ StageInv /\ RingInv /\ ContentInv /\ OutInv

LEMMA BpuInvHolds == BpuSpec => []BpuInv
  <1>1. BpuInit => BpuInv
    <2>1. BpuInit => ThreadInv
      BY ThreadInvInit DEF BpuInit
    <2>2. BpuInit => StageInv
      BY BpuAssumption DEF BpuInit, ThreadInit, StageInv, Stages, Idle, Ending
    <2> QED  BY <2>1, <2>2, RingInit, ContentInit, OutInit DEF BpuInv
  <1>2. BpuInv /\ [BpuNext]_vars => BpuInv'
    BY BpuStepsThreads, ThreadInvNext, StageNext, RingNext, ContentNext, OutNext DEF BpuInv
  <1> QED  BY <1>1, <1>2, PTL DEF BpuSpec

\* The variables have their types: indices stay in the rings, a queued tensor
\* is never one that was freed.
THEOREM BpuTypeCorrect == BpuSpec => []BpuTypeOK
  <1>1. BpuInv => BpuTypeOK
    BY DEF BpuInv, ThreadInv, RingInv, ContentInv, OutInv, BpuTypeOK
  <1> QED  BY <1>1, BpuInvHolds, PTL

\* bpu_wrap_send_frame writes no tensor that is queued or being read, for
\* every ring with more tensors than its queue has slots.
THEOREM InputIsOwned == BpuSpec => []InputOwned
  <1>1. ASSUME RingInv  PROVE InputOwned
    <2>1. SUFFICES ASSUME AtS("enqueue")
                   PROVE  curIn \notin {inq[i] : i \in DOMAIN inq} \cup InferReads
      BY DEF InputOwned
    <2>2. /\ curIn \in 0 .. N - 1 /\ N \in Nat /\ InputSlots \in Nat /\ N > InputSlots
          /\ Len(inq) \in Nat /\ Len(inq) < InputSlots /\ DOMAIN inq = 1 .. Len(inq)
      BY <1>1, <2>1, BpuAssumption DEF RingInv, N, InTensors
    <2>3. \A k \in 1 .. N - 1 : Back(curIn, k) # curIn
      BY <2>2 DEF Back
    <2>4. \A i \in DOMAIN inq : inq[i] # curIn
      <3> TAKE i \in DOMAIN inq
      <3>1. Len(inq) - i + 1 \in 1 .. N - 1
        BY <2>2
      <3> QED  BY <1>1, <2>2, <2>3, <3>1 DEF RingInv
    <2>5. Reading => input # curIn
      <3>1. Len(inq) + 1 \in 1 .. N - 1
        BY <2>2
      <3> QED  BY <1>1, <2>3, <3>1 DEF RingInv
    <2> QED  BY <2>4, <2>5 DEF InferReads, Reading
  <1>2. BpuInv => InputOwned
    BY <1>1 DEF BpuInv
  <1> QED  BY <1>2, BpuInvHolds, PTL

\* The post-process reads only tensors that hold a result, however many are
\* skipped and whatever the owner does, while no thread gives up.
THEOREM ResultsAreLive == BpuSpec => []ResultIsLive
  <1>1. BpuInv => ResultIsLive
    <2> SUFFICES ASSUME BpuInv, AtP("process"), ~ broke
                 PROVE  outTensor[info.tensor] \in Frames
      BY DEF ResultIsLive
    <2>1. stage \notin {"off", "stopped"}
      BY BpuAssumption DEF BpuInv, StageInv, Idle, ThreadInv, Lifecycle, RunningIsStarted,
         Quiet, AtP
    <2> QED  BY <2>1 DEF BpuInv, OutInv, Filled
  <1> QED  BY <1>1, BpuInvHolds, PTL

-----------------------------------------------------------------------------
\* The output ring again.  A result that is queued, or that post works on, is
\* in a tensor the inference comes back to only after as many results more as
\* the ring has tensors: those queued behind it, the one being computed, and
\* those skipped, which leave no trace but a step of the index.
M == BPU_OUTPUT_BUFFER_NUM
Gap(c, t) == IF c > t THEN c - t ELSE c - t + M
Matches(p) == outTensor[p.tensor] = p.tv
Sparing == skips < M - 1 - OutputSlots /\ ~ broke

QueuedMatch ==
    \A i \in 1 .. Len(outq) :
        Matches(outq[i]) /\ Gap(curOut, outq[i].tensor) <= Len(outq) - i + 1 + skips

InHandMatches ==
    AtP("process") => Matches(info) /\ Gap(curOut, info.tensor) <= Len(outq) + 1 + skips

MatchInv ==
    /\ Len(outq) <= OutputSlots
    /\ Reading => outTensor[curOut] = inTensor[input]
    /\ Sparing /\ stage \notin {"off", "stopped"} => QueuedMatch /\ InHandMatches

LEMMA MatchInit == BpuInit => MatchInv
  <1> SUFFICES ASSUME BpuInit  PROVE MatchInv
    OBVIOUS
  <1>1. infer \in Workers /\ OutputSlots \in Nat
    BY BpuAssumption
  <1>2. worker[infer] = "absent"
    BY <1>1 DEF BpuInit, ThreadInit
  <1>3. Len(outq) = 0 /\ stage = "off"
    BY DEF BpuInit
  <1> QED  BY <1>1, <1>2, <1>3 DEF MatchInv, Reading, AtI

\* A step that leaves the results where they are.
LEMMA MatchKept ==
    ASSUME MatchInv, UNCHANGED <<outTensor, curOut, outq, info, skips>>, broke => broke',
           AtP("process")' => AtP("process"),
           Reading' => Reading /\ inTensor'[input'] = inTensor[input],
           stage' \notin {"off", "stopped"} => stage \notin {"off", "stopped"}
    PROVE  MatchInv'
  BY DEF MatchInv, Sparing, QueuedMatch, InHandMatches, Matches, Gap

\* One result more, queued or skipped, and every other is one further ahead.
LEMMA GapNext ==
    ASSUME curOut \in OutTensors
    PROVE  /\ \A t \in OutTensors : \A k \in Nat :
                Gap(curOut, t) <= k /\ k < M => Gap(NextOut, t) <= k + 1
           /\ Gap(NextOut, curOut) = 1 \/ M = 1
  <1>1. M \in Nat \ {0} /\ curOut \in 0 .. M - 1 /\ OutTensors = 0 .. M - 1
    BY BpuAssumption DEF M, OutTensors
  <1>2. NextOut = IF curOut + 1 = M THEN 0 ELSE curOut + 1
    BY <1>1 DEF NextOut, M
  <1> QED  BY <1>1, <1>2 DEF Gap

\* The tensor the inference writes is M results ahead of itself.
LEMMA WrittenIsFar == ASSUME curOut \in OutTensors  PROVE Gap(curOut, curOut) = M
  BY BpuAssumption DEF Gap, OutTensors, M

LEMMA MatchNext == BpuInv /\ MatchInv /\ [BpuNext]_vars => MatchInv'
  <1> SUFFICES ASSUME BpuInv, MatchInv, [BpuNext]_vars  PROVE MatchInv'
    OBVIOUS
  <1> USE DEF AtS, AtI, AtP, Reading
  <1>0. /\ sender \in Workers /\ infer \in Workers /\ post \in Workers
        /\ sender # infer /\ sender # post /\ infer # post
        /\ worker \in [Workers -> WorkerStates]
        /\ M \in Nat \ {0} /\ OutputSlots \in Nat \ {0} /\ M > OutputSlots
    BY BpuAssumption DEF BpuInv, ThreadInv, ThreadTypeOK, M
  <1>t. /\ outTensor \in [OutTensors -> Frames \cup {NoFrame, Freed}]
        /\ curOut \in OutTensors /\ skips \in Nat
        /\ outq \in Seq(PostInfos) /\ Len(outq) \in Nat
        /\ \A i \in 1 .. Len(outq) : outq[i].tensor \in OutTensors
        /\ AtP("process") => info.tensor \in OutTensors
    <2>1. \A p \in PostInfos : p.tensor \in OutTensors
      BY DEF PostInfos
    <2> QED  BY <2>1 DEF BpuInv, OutInv
  <1>1. CASE WrapInit \/ WrapDeinit
    <2>1. worker'[post] # "loop" /\ worker'[infer] # "loop"
      BY <1>1, QuietWhenFreed DEF WrapInit, WrapDeinit, Quiet, threadVars, BpuInv
    <2>2. outq' = << >> /\ Len(outq') = 0
      BY <1>1 DEF WrapInit, WrapDeinit
    <2> QED  BY <1>0, <2>1, <2>2 DEF MatchInv, QueuedMatch, InHandMatches
  <1>2. CASE StartPost
    BY <1>0, <1>2, <1>t DEF StartPost, StartCall, inputs, outputs, inferLocals, history,
       MatchInv, Sparing, QueuedMatch, InHandMatches, Matches, Gap
  <1>3. CASE StartInfer \/ StartSender \/ StopSender \/ StopPost \/ StopInfer
    BY <1>3, MatchKept DEF StartInfer, StartSender, StopSender, StopPost, StopInfer,
       StartCall, StopCall, inputs, outputs, inferLocals, postLocals, history
  <1>4. ASSUME NEW w \in Workers, OwnerInside(w)  PROVE MatchInv'
    BY <1>4, EntersAtStart, MatchKept DEF inputs, outputs, inferLocals, postLocals, history,
       BpuInv
  <1>5. CASE SendWrite
    <2>1. Reading => input # curIn
      <3>1. RingInv /\ Len(inq) < InputSlots
        BY <1>5 DEF SendWrite, BpuInv
      <3>2. /\ curIn \in 0 .. N - 1 /\ N \in Nat /\ InputSlots \in Nat /\ N > InputSlots
            /\ Len(inq) \in Nat
        BY <3>1, BpuAssumption DEF RingInv, N, InTensors
      <3> QED  BY <3>1, <3>2 DEF RingInv, Back
    <2>2. Reading => inTensor'[input] = inTensor[input]
      BY <1>5, <2>1 DEF SendWrite, BpuInv, ContentInv
    <2> QED  BY <1>5, <2>2, MatchKept DEF SendWrite, threadVars, outputs, inferLocals,
             postLocals, history
  <1>6. CASE SenderGet \/ SenderGetFails \/ SendSkip \/ SendEnqueue
    BY <1>6, MatchKept DEF SenderGet, SenderGetFails, SendSkip, SendEnqueue, threadVars,
       outputs, inferLocals, postLocals, history
  <1>18. CASE SenderHead \/ SenderRelease \/ SenderFinish
    <2>1. /\ UNCHANGED <<stage, inTensor, outputs, inferLocals, postLocals, skips>>
          /\ broke' = broke \/ broke' = (broke \/ Running(sender))
      BY <1>18 DEF SenderHead, SenderRelease, SenderFinish, GivesUp, history, inputs
    <2>3. broke => broke'
      BY <2>1 DEF BpuInv, OutInv, Running
    <2>2. worker'[infer] = worker[infer] /\ worker'[post] = worker[post]
      BY <1>0, <1>18 DEF SenderHead, SenderRelease, SenderFinish, GivesUp, BreakLoop,
         LeaveLoop, FinishMark, FinishExit, threadVars
    <2> QED  BY <2>1, <2>2, <2>3, MatchKept DEF outputs, inferLocals, postLocals
  <1>7. CASE InferPrepare
    <2>1. outq = << >> /\ ~ AtP("process")
      BY <1>7 DEF InferPrepare, BpuInv, OutInv
    <2> QED
      BY <1>0, <1>7, <1>t, <2>1 DEF InferPrepare, inputs, postLocals, history, threadVars,
         MatchInv, QueuedMatch, InHandMatches
  <1>8. CASE InferRelease
    <2>1. worker[infer] # "loop" /\ (broke \/ stage = "stopped")
      BY <1>8 DEF InferRelease, BpuInv, OutInv
    <2> QED
      BY <1>8, <2>1 DEF InferRelease, postLocals, history, threadVars, MatchInv, Sparing
  <1>9. CASE InferDequeue
    <2>1. /\ UNCHANGED <<inTensor, curOut, outq, info, ppc, worker, stage, skips, broke>>
          /\ input' = Head(inq)
          /\ outTensor' = [outTensor EXCEPT ![curOut] = inTensor[Head(inq)]]
      BY <1>9 DEF InferDequeue, threadVars, postLocals, history
    <2>2. outTensor'[curOut'] = inTensor'[input']
      BY <1>t, <2>1
    <2>3. \A t \in OutTensors : Gap(curOut, t) < M => outTensor'[t] = outTensor[t]
      BY <1>0, <1>t, <2>1, WrittenIsFar
    <2>4. ASSUME Sparing, QueuedMatch, InHandMatches  PROVE (QueuedMatch /\ InHandMatches)'
      <3>1. skips < M - 1 - OutputSlots /\ Len(outq) <= OutputSlots
        BY <2>4 DEF Sparing, MatchInv
      <3>2. ASSUME NEW i \in 1 .. Len(outq)  PROVE outTensor'[outq[i].tensor] = outq[i].tv
        <4>1. Gap(curOut, outq[i].tensor) <= Len(outq) - i + 1 + skips /\ Matches(outq[i])
          BY <2>4, <3>2 DEF QueuedMatch
        <4>2. Gap(curOut, outq[i].tensor) \in Int
          BY <1>0, <1>t, <3>2 DEF Gap, OutTensors, M
        <4>3. Gap(curOut, outq[i].tensor) < M
          BY <1>0, <1>t, <3>1, <3>2, <4>1, <4>2
        <4> QED  BY <1>t, <2>3, <4>1, <4>3 DEF Matches
      <3>3. AtP("process") => outTensor'[info.tensor] = info.tv
        <4> SUFFICES ASSUME AtP("process")  PROVE outTensor'[info.tensor] = info.tv
          OBVIOUS
        <4>1. Gap(curOut, info.tensor) <= Len(outq) + 1 + skips /\ Matches(info)
          BY <2>4 DEF InHandMatches
        <4>2. Gap(curOut, info.tensor) \in Int
          BY <1>0, <1>t DEF Gap, OutTensors, M
        <4>3. Gap(curOut, info.tensor) < M
          BY <1>0, <1>t, <3>1, <4>1, <4>2
        <4> QED  BY <1>t, <2>3, <4>1, <4>3 DEF Matches
      <3> QED  BY <2>1, <2>4, <3>2, <3>3 DEF QueuedMatch, InHandMatches, Matches, Gap
    <2> QED  BY <2>1, <2>2, <2>4 DEF MatchInv, Sparing
  <1>10. CASE InferSkip
    <2>1. /\ UNCHANGED <<outTensor, outq, info, ppc, worker, stage, broke>>
          /\ skips' = skips + 1 /\ curOut' = NextOut /\ ipc' = "head"
      BY <1>10 DEF InferSkip, threadVars, postLocals
    <2>2. Sparing' => Sparing
      BY <1>0, <1>t, <2>1 DEF Sparing
    <2>3. ASSUME Sparing, QueuedMatch, InHandMatches  PROVE (QueuedMatch /\ InHandMatches)'
      <3>1. skips < M - 1 - OutputSlots /\ Len(outq) <= OutputSlots
        BY <2>3 DEF Sparing, MatchInv
      <3>2. ASSUME NEW i \in 1 .. Len(outq)
            PROVE  Gap(curOut', outq[i].tensor) <= Len(outq) - i + 1 + (skips + 1)
        <4>1. Len(outq) - i + 1 + skips \in Nat /\ Len(outq) - i + 1 + skips < M
          BY <1>0, <1>t, <3>1
        <4>2. Gap(curOut, outq[i].tensor) <= Len(outq) - i + 1 + skips
          BY <2>3 DEF QueuedMatch
        <4>3. Gap(curOut', outq[i].tensor) <= (Len(outq) - i + 1 + skips) + 1
          BY <1>t, <2>1, <4>1, <4>2, GapNext
        <4> QED  BY <1>t, <4>1, <4>3
      <3>3. AtP("process") => Gap(curOut', info.tensor) <= Len(outq) + 1 + (skips + 1)
        <4> SUFFICES ASSUME AtP("process")
                     PROVE  Gap(curOut', info.tensor) <= Len(outq) + 1 + (skips + 1)
          OBVIOUS
        <4>1. Len(outq) + 1 + skips \in Nat /\ Len(outq) + 1 + skips < M
          BY <1>0, <1>t, <3>1
        <4>2. Gap(curOut, info.tensor) <= Len(outq) + 1 + skips
          BY <2>3 DEF InHandMatches
        <4>3. Gap(curOut', info.tensor) <= (Len(outq) + 1 + skips) + 1
          BY <1>t, <2>1, <4>1, <4>2, GapNext
        <4> QED  BY <1>t, <4>1, <4>3
      <3> QED  BY <1>t, <2>1, <2>3, <3>2, <3>3 DEF QueuedMatch, InHandMatches, Matches
    <2> QED  BY <2>1, <2>2, <2>3 DEF MatchInv
  <1>11. CASE InferEnqueue
    <2> DEFINE item == [tensor |-> curOut, tv |-> inTensor[input]]
    <2>1. /\ UNCHANGED <<outTensor, info, ppc, worker, stage, broke, skips>>
          /\ outq' = Append(outq, item) /\ curOut' = NextOut /\ ipc' = "head"
          /\ Len(outq) < OutputSlots /\ Reading
      BY <1>11 DEF InferEnqueue, threadVars, postLocals, history
    <2>2. item \in PostInfos /\ item.tensor = curOut /\ item.tv = inTensor[input]
      BY <1>t, <2>1 DEF BpuInv, ContentInv, PostInfos
    <2> HIDE DEF item
    <2>3. /\ outq' \in Seq(PostInfos) /\ Len(outq') = Len(outq) + 1
          /\ \A i \in 1 .. Len(outq) : outq'[i] = outq[i]
          /\ outq'[Len(outq) + 1] = item
      BY <1>t, <2>1, <2>2
    <2>4. ASSUME Sparing, QueuedMatch, InHandMatches  PROVE (QueuedMatch /\ InHandMatches)'
      <3>1. skips < M - 1 - OutputSlots /\ Len(outq) + 1 <= OutputSlots
        BY <1>t, <1>0, <2>1, <2>4 DEF Sparing
      <3>2. ASSUME NEW i \in 1 .. Len(outq)
            PROVE  /\ Gap(curOut', outq[i].tensor) <= Len(outq) + 1 - i + 1 + skips
                   /\ outTensor[outq[i].tensor] = outq[i].tv
        <4>1. Len(outq) - i + 1 + skips \in Nat /\ Len(outq) - i + 1 + skips < M
          BY <1>0, <1>t, <3>1
        <4>2. Gap(curOut, outq[i].tensor) <= Len(outq) - i + 1 + skips /\ Matches(outq[i])
          BY <2>4 DEF QueuedMatch
        <4>3. Gap(curOut', outq[i].tensor) <= (Len(outq) - i + 1 + skips) + 1
          BY <1>t, <2>1, <4>1, <4>2, GapNext
        <4> QED  BY <1>t, <4>1, <4>2, <4>3 DEF Matches
      <3>3. Gap(curOut', item.tensor) = 1 /\ outTensor[item.tensor] = item.tv
        BY <1>0, <1>t, <2>1, <2>2, GapNext DEF MatchInv
      <3>4. AtP("process") => Gap(curOut', info.tensor) <= Len(outq) + 1 + 1 + skips
        <4> SUFFICES ASSUME AtP("process")
                     PROVE  Gap(curOut', info.tensor) <= Len(outq) + 1 + 1 + skips
          OBVIOUS
        <4>1. Len(outq) + 1 + skips \in Nat /\ Len(outq) + 1 + skips < M
          BY <1>0, <1>t, <3>1
        <4>2. Gap(curOut, info.tensor) <= Len(outq) + 1 + skips
          BY <2>4 DEF InHandMatches
        <4>3. Gap(curOut', info.tensor) <= (Len(outq) + 1 + skips) + 1
          BY <1>t, <2>1, <4>1, <4>2, GapNext
        <4> QED  BY <1>t, <4>1, <4>3
      <3>5. QueuedMatch'
        <4> SUFFICES ASSUME NEW i \in 1 .. Len(outq')
                     PROVE  /\ outTensor'[outq'[i].tensor] = outq'[i].tv
                            /\ Gap(curOut', outq'[i].tensor) <= Len(outq') - i + 1 + skips'
          BY DEF QueuedMatch, Matches, Gap
        <4>1. CASE i \in 1 .. Len(outq)
          BY <1>t, <2>1, <2>3, <3>2, <4>1
        <4>2. CASE i = Len(outq) + 1
          BY <1>t, <2>1, <2>3, <3>3, <4>2
        <4> QED  BY <1>t, <2>3, <4>1, <4>2
      <3>6. InHandMatches'
        BY <2>1, <2>3, <2>4, <3>4 DEF InHandMatches, Matches, Gap
      <3> QED  BY <3>5, <3>6
    <2> QED  BY <1>t, <1>0, <2>1, <2>3, <2>4 DEF MatchInv, Sparing
  <1>12. CASE InferHead \/ InferPrepareFails \/ InferFails
    <2>1. /\ UNCHANGED <<stage, inTensor, outputs, input, postLocals, skips>>
          /\ broke' = broke \/ broke' = (broke \/ Running(infer))
          /\ ~ Reading'
      BY <1>12 DEF InferHead, InferPrepareFails, InferFails, GivesUp, history, inputs
    <2>3. broke => broke'
      BY <2>1 DEF BpuInv, OutInv, Running
    <2>2. worker'[post] = worker[post]
      BY <1>0, <1>12 DEF InferHead, InferPrepareFails, InferFails, GivesUp, BreakLoop,
         LeaveLoop, threadVars
    <2> QED  BY <2>1, <2>2, <2>3, MatchKept DEF outputs, postLocals
  <1>13. CASE InferWait \/ InferTimeout \/ InferDone \/ InferNoMemory \/ InferFinish
    BY <1>0, <1>13, MatchKept DEF InferWait, InferTimeout, InferDone, InferNoMemory, InferFinish,
       FinishMark, FinishExit, threadVars, inputs, outputs, postLocals, history
  <1>14. CASE PostDequeue
    <2>1. /\ Len(outq) \in Nat \ {0} /\ outq' = Tail(outq) /\ info' = outq[1]
          /\ UNCHANGED <<outTensor, curOut, inTensor, input, worker, ipc, skips, broke, stage>>
      BY <1>14, <1>t DEF PostDequeue, inputs, inferLocals, history, threadVars
    <2>2. /\ Len(outq') = Len(outq) - 1 /\ 1 \in 1 .. Len(outq)
          /\ \A i \in 1 .. Len(outq') : outq'[i] = outq[i + 1] /\ i + 1 \in 1 .. Len(outq)
      BY <1>t, <2>1
    <2>3. ASSUME QueuedMatch  PROVE (QueuedMatch /\ InHandMatches)'
      <3>1. Matches(outq[1]) /\ Gap(curOut, outq[1].tensor) <= Len(outq) - 1 + 1 + skips
        BY <2>2, <2>3 DEF QueuedMatch
      <3>2. ASSUME NEW i \in 1 .. Len(outq')
            PROVE  /\ Matches(outq[i + 1])
                   /\ Gap(curOut, outq[i + 1].tensor) <= Len(outq) - (i + 1) + 1 + skips
        BY <2>2, <2>3 DEF QueuedMatch
      <3>3. InHandMatches'
        BY <1>t, <2>1, <2>2, <3>1 DEF InHandMatches, Matches, Gap
      <3>4. QueuedMatch'
        BY <1>t, <2>1, <2>2, <3>2 DEF QueuedMatch, Matches, Gap
      <3> QED  BY <3>3, <3>4
    <2> QED  BY <1>0, <1>t, <2>1, <2>2, <2>3 DEF MatchInv, Sparing
  <1>15. CASE PostHead \/ PostWait \/ PostTimeout \/ PostFinish
    BY <1>0, <1>15, MatchKept DEF PostHead, PostWait, PostTimeout, PostFinish, LeaveLoop,
       FinishMark, FinishExit, threadVars, inputs, outputs, inferLocals, history, postLocals
  <1>16. CASE PostDone
    <2>1. /\ UNCHANGED <<outTensor, curOut, outq, inTensor, input, worker, ipc, broke, stage>>
          /\ ppc' = "head" /\ skips' = IF outq = << >> THEN 0 ELSE skips
      BY <1>16 DEF PostDone, inputs, outputs, inferLocals, threadVars
    <2>2. CASE outq = << >>
      BY <2>1, <2>2 DEF MatchInv, QueuedMatch, InHandMatches
    <2>3. CASE outq # << >>
      BY <2>1, <2>3 DEF MatchInv, Sparing, QueuedMatch, InHandMatches, Matches, Gap
    <2> QED  BY <2>2, <2>3
  <1>17. CASE UNCHANGED vars
    BY <1>17, MatchKept DEF vars, threadVars, inputs, outputs, inferLocals, postLocals, history
  <1> QED
    BY <1>1, <1>2, <1>3, <1>4, <1>5, <1>6, <1>7, <1>8, <1>9, <1>10, <1>11, <1>12, <1>13, <1>14,
       <1>15, <1>16, <1>17, <1>18
    DEF BpuNext, Owner, Sender, Infer, Post

LEMMA MatchInvHolds == BpuSpec => []MatchInv
  <1>1. BpuInv /\ MatchInv /\ [BpuNext]_vars => MatchInv'
    BY MatchNext
  <1> QED  BY <1>1, MatchInit, BpuInvHolds, PTL DEF BpuSpec

\* What the callback sends with a result is the time stamp of the frame it was
\* computed from, as long as fewer results than the ring has tensors to spare
\* were skipped since post last had nothing to do, and no thread gave up.
THEOREM TimeStampsMatch == BpuSpec => []MatchesUnlessSkipped
  <1>1. BpuInv /\ MatchInv => MatchesUnlessSkipped
    <2> SUFFICES ASSUME BpuInv, MatchInv, Sparing, AtP("process")
                 PROVE  outTensor[info.tensor] = info.tv
      BY DEF MatchesUnlessSkipped, ResultMatchesFrame, Sparing, M
    <2>1. stage \notin {"off", "stopped"}
      BY BpuAssumption DEF BpuInv, StageInv, Idle, ThreadInv, Lifecycle, RunningIsStarted,
         Quiet, AtP
    <2> QED  BY <2>1 DEF MatchInv, InHandMatches, Matches
  <1> QED  BY <1>1, BpuInvHolds, MatchInvHolds, PTL

-----------------------------------------------------------------------------
\* The frames under way, in the four places of InFlight, last the sender's.
Contents == Frames \cup {NoFrame, Freed}
TimeStamp == [p \in PostInfos |-> p.tv]

ToPost == Images(TimeStamp, outq)
InModel == IF Reading THEN Single(inTensor[input]) ELSE None
ToInfer == Images(inTensor, inq)
InSender == IF AtS("send") \/ AtS("enqueue") THEN Single(sframe) ELSE None
Flow == Cat(Cat(Cat(ToPost, InModel), ToInfer), InSender)

LEMMA FlowTypes ==
    ASSUME BpuInv
    PROVE  /\ ToPost \in Lists(Contents) /\ InModel \in Lists(Contents)
           /\ ToInfer \in Lists(Contents) /\ InSender \in Lists(Contents)
           /\ Cat(ToPost, InModel) \in Lists(Contents)
           /\ Cat(Cat(ToPost, InModel), ToInfer) \in Lists(Contents)
           /\ Flow \in Lists(Contents)
           /\ TimeStamp \in [PostInfos -> Contents]
           /\ inTensor \in [InTensors -> Contents] /\ inTensor[input] \in Contents
           /\ sframe \in Contents
           /\ outq \in Lists(PostInfos) /\ inq \in Lists(InTensors)
  <1>1. /\ TimeStamp \in [PostInfos -> Contents]
        /\ inTensor \in [InTensors -> Contents] /\ inTensor[input] \in Contents
        /\ sframe \in Contents
    BY DEF BpuInv, ContentInv, TimeStamp, PostInfos, Contents
  <1>2. outq \in Lists(PostInfos) /\ inq \in Lists(InTensors)
    BY DEF BpuInv, OutInv, RingInv, Lists
  <1>3. ToPost \in Lists(Contents) /\ ToInfer \in Lists(Contents)
    BY <1>1, <1>2, ImagesType DEF ToPost, ToInfer
  <1>4. InModel \in Lists(Contents) /\ InSender \in Lists(Contents)
    BY <1>1, CatOne, CatNone, <1>3 DEF InModel, InSender
  <1> QED  BY <1>1, <1>2, <1>3, <1>4, CatType DEF Flow

LEMMA FlowIs == BpuInv => InFlight = Flow
  <1> SUFFICES ASSUME BpuInv  PROVE InFlight = Flow
    OBVIOUS
  <1>1. [i \in DOMAIN outq |-> outq[i].tv] = ToPost
    <2>1. \A i \in DOMAIN outq : outq[i] \in PostInfos
      BY DEF BpuInv, OutInv
    <2> QED  BY <2>1 DEF ToPost, Images, TimeStamp
  <1>2. [i \in DOMAIN inq |-> inTensor[inq[i]]] = ToInfer
    BY DEF ToInfer, Images
  <1>3. (IF AtI("infer") \/ AtI("enqueue") THEN <<inTensor[input]>> ELSE << >>) = InModel
    BY DEF InModel, Reading, Single, None
  <1>4. (IF AtS("send") \/ AtS("enqueue") THEN <<sframe>> ELSE << >>) = InSender
    BY DEF InSender, Single, None
  <1> QED  BY <1>1, <1>2, <1>3, <1>4 DEF InFlight, Flow, Cat

\* What a step does to the channel.
Keeps == Flow' = Flow /\ info' = info
Puts == info' = info /\ \E v \in Frames : Flow' = Put(Flow, v)
Loses == info' = info /\ Without(Flow, Flow')
Clears == info' = info /\ Flow' = None
Receives == info = NoInfo /\ Starts(Flow, info'.tv, Flow')
Finishes == info' = NoInfo /\ Flow' = Flow

LEMMA FlowSteps ==
    ASSUME BpuInv, BpuInv',
           \/ Keeps
           \/ Puts \/ Loses \/ Clears \/ Receives \/ Finishes
    PROVE  [Channel!LossyNext]_<<InFlight, info.tv>>
  <1>1. InFlight = Flow
    BY FlowIs
  <1>2. InFlight' = Flow'
    <2>1. (BpuInv => InFlight = Flow)'
      BY FlowIs, PTL
    <2> QED  BY <2>1
  <1>3. CASE Keeps
    BY <1>1, <1>2, <1>3 DEF Keeps
  <1>4. CASE Puts
    <2>1. PICK v \in Frames : Flow' = Append(Flow, v) /\ info' = info
      BY <1>4 DEF Puts, Put
    <2>2. InFlight' = Append(InFlight, v)
      BY <1>1, <1>2, <2>1
    <2>3. Channel!Put
      BY <2>1, <2>2 DEF Channel!Put
    <2> QED  BY <2>3 DEF Channel!LossyNext
  <1>5. CASE Loses
    <2>1. PICK n \in DOMAIN InFlight : Flow' = RemoveAt(Flow, n) /\ info' = info
      BY <1>1, <1>5 DEF Loses, Without
    <2>2. InFlight' = RemoveAt(InFlight, n)
      BY <1>1, <1>2, <2>1
    <2>3. Channel!Lose
      BY <2>1, <2>2 DEF Channel!Lose, Channel!RemoveAt, RemoveAt
    <2> QED  BY <2>3 DEF Channel!LossyNext
  <1>6. CASE Clears
    BY <1>1, <1>2, <1>6 DEF Clears, None, Channel!LoseAll, Channel!LossyNext
  <1>7. CASE Receives
    BY <1>1, <1>2, <1>7 DEF Receives, Starts, NoInfo, Channel!Receive, Channel!LossyNext
  <1>8. CASE Finishes
    BY <1>1, <1>2, <1>8 DEF Finishes, NoInfo, Channel!Finish, Channel!LossyNext
  <1> QED  BY <1>3, <1>4, <1>5, <1>6, <1>7, <1>8

\* The tensor the sender is about to queue holds its frame, and post has
\* nothing in hand but while it works on it.
FlowInv ==
    /\ AtS("enqueue") => inTensor[curIn] = sframe
    /\ ~ AtP("process") => info = NoInfo

LEMMA FlowInit == BpuInit => FlowInv
  <1> SUFFICES ASSUME BpuInit  PROVE FlowInv
    OBVIOUS
  <1>1. sender \in Workers /\ worker[sender] = "absent"
    BY BpuAssumption DEF BpuInit, ThreadInit
  <1> QED  BY <1>1 DEF BpuInit, FlowInv, AtS

LEMMA FlowInvNext == BpuInv /\ FlowInv /\ [BpuNext]_vars => FlowInv'
  <1> SUFFICES ASSUME BpuInv, FlowInv, [BpuNext]_vars  PROVE FlowInv'
    OBVIOUS
  <1> USE DEF AtS, AtI, AtP
  <1>0. /\ sender \in Workers /\ infer \in Workers /\ post \in Workers
        /\ sender # infer /\ sender # post /\ infer # post
        /\ worker \in [Workers -> WorkerStates]
    BY BpuAssumption DEF BpuInv, ThreadInv, ThreadTypeOK
  <1>k. ASSUME UNCHANGED <<inTensor, curIn, sframe, info>>,
               AtS("enqueue")' => AtS("enqueue"), AtP("process") => AtP("process")'
        PROVE  FlowInv'
    BY <1>k DEF FlowInv
  <1>1. CASE WrapInit \/ WrapDeinit
    <2>1. /\ worker'[sender] # "loop" /\ worker[post] # "loop"
      BY <1>1, QuietWhenFreed DEF WrapInit, WrapDeinit, Quiet, threadVars, BpuInv
    <2> QED  BY <1>1, <2>1 DEF WrapInit, WrapDeinit, postLocals, FlowInv
  <1>2. CASE StartInfer \/ StartSender \/ StopSender \/ StopPost \/ StopInfer
    BY <1>2 DEF StartInfer, StartSender, StopSender, StopPost, StopInfer, StartCall, StopCall,
       inputs, postLocals, FlowInv
  <1>3. CASE StartPost
    BY <1>3 DEF StartPost, StartCall, inputs, FlowInv
  <1>4. ASSUME NEW w \in Workers, OwnerInside(w)  PROVE FlowInv'
    <2>1. worker[post] = "loop" => worker'[post] = "loop"
      BY <1>0, <1>4 DEF OwnerInside, OwnerStep, StartMark, CreateOk, CreateFails, StopMark,
         StopKill, StopJoin, StopPoll, StopEnd, StopSleep, threadVars
    <2> QED  BY <1>4, <1>k, <2>1, EntersAtStart DEF BpuInv, inputs, postLocals
  <1>5. CASE SenderGet \/ SenderGetFails \/ SendSkip \/ SendEnqueue
    BY <1>5 DEF SenderGet, SenderGetFails, SendSkip, SendEnqueue, threadVars, postLocals, FlowInv
  <1>6. CASE SendWrite
    BY <1>6 DEF SendWrite, threadVars, postLocals, FlowInv, BpuInv, ContentInv, RingInv
  <1>7. CASE SenderHead \/ SenderRelease \/ SenderFinish
    <2>1. spc' # "enqueue" /\ UNCHANGED <<ppc, info>>
      BY <1>7 DEF SenderHead, SenderRelease, SenderFinish, postLocals, inputs
    <2>2. worker'[post] = worker[post]
      BY <1>0, <1>7 DEF SenderHead, SenderRelease, SenderFinish, GivesUp, BreakLoop, LeaveLoop,
         FinishMark, FinishExit, threadVars
    <2> QED  BY <2>1, <2>2 DEF FlowInv
  <1>8. CASE \/ InferPrepare \/ InferDequeue \/ InferWait \/ InferTimeout \/ InferSkip
             \/ InferDone \/ InferNoMemory \/ InferEnqueue \/ InferRelease
    BY <1>8 DEF InferPrepare, InferDequeue, InferWait, InferTimeout, InferSkip,
       InferDone, InferNoMemory, InferEnqueue, InferRelease, threadVars, postLocals, inputs,
       FlowInv
  <1>9. CASE InferPrepareFails \/ InferHead \/ InferFails \/ InferFinish
    <2>1. UNCHANGED <<inTensor, curIn, sframe, spc, ppc, info>>
      BY <1>9 DEF InferPrepareFails, InferHead, InferFails, InferFinish, postLocals, inputs
    <2>2. worker'[post] = worker[post] /\ worker'[sender] = worker[sender]
      BY <1>0, <1>9 DEF InferPrepareFails, InferHead, InferFails, InferFinish, GivesUp,
         BreakLoop, LeaveLoop, FinishMark, FinishExit, threadVars
    <2> QED  BY <1>k, <2>1, <2>2
  <1>10. CASE PostHead \/ PostFinish \/ PostWait \/ PostTimeout
    <2>1. UNCHANGED <<inTensor, curIn, sframe, spc, info>> /\ ~ AtP("process")
      BY <1>10 DEF PostHead, PostFinish, PostWait, PostTimeout, inputs, postLocals
    <2>2. worker'[sender] = worker[sender]
      BY <1>0, <1>10 DEF PostHead, PostFinish, PostWait, PostTimeout, LeaveLoop, FinishMark,
         FinishExit, threadVars
    <2> QED  BY <1>k, <2>1, <2>2
  <1>11. CASE PostDequeue
    BY <1>11 DEF PostDequeue, threadVars, inputs, FlowInv
  <1>12. CASE PostDone
    BY <1>12 DEF PostDone, threadVars, inputs, FlowInv
  <1>13. CASE UNCHANGED vars
    BY <1>13, <1>k DEF vars, threadVars, inputs, postLocals
  <1> QED
    BY <1>1, <1>2, <1>3, <1>4, <1>5, <1>6, <1>7, <1>8, <1>9, <1>10, <1>11, <1>12, <1>13
    DEF BpuNext, Owner, Sender, Infer, Post

\* What lies in the channel when no hand and no queue changes is the same.
LEMMA FlowKept ==
    ASSUME UNCHANGED <<outq, inq, inTensor, sframe>>,
           Reading' <=> Reading, Reading => input' = input,
           (AtS("send") \/ AtS("enqueue"))' <=> AtS("send") \/ AtS("enqueue")
    PROVE  Flow' = Flow
  <1>1. ToPost' = ToPost /\ ToInfer' = ToInfer
    BY DEF ToPost, ToInfer
  <1>2. InModel' = InModel
    BY DEF InModel
  <1>3. InSender' = InSender
    BY DEF InSender
  <1> QED  BY <1>1, <1>2, <1>3 DEF Flow

\* The steps of the sender that move a frame.
LEMMA SenderFlow ==
    ASSUME BpuInv, FlowInv, SenderGet \/ SendSkip \/ SendWrite \/ SendEnqueue
    PROVE  Keeps \/ Puts \/ Loses
  <1> USE DEF AtS, Keeps
  <1> DEFINE f == Cat(Cat(ToPost, InModel), ToInfer)
  <1>1. /\ ToPost \in Lists(Contents) /\ InModel \in Lists(Contents)
        /\ ToInfer \in Lists(Contents) /\ Cat(ToPost, InModel) \in Lists(Contents)
        /\ f \in Lists(Contents) /\ sframe \in Contents
        /\ inTensor \in [InTensors -> Contents]
        /\ outq \in Lists(PostInfos) /\ inq \in Lists(InTensors) /\ curIn \in InTensors
    BY FlowTypes DEF BpuInv, RingInv
  <1>2. info' = info /\ ToPost' = ToPost
    BY DEF SenderGet, SendSkip, SendWrite, SendEnqueue, postLocals, outputs, ToPost
  <1>3. CASE SenderGet
    <2>1. InSender = None /\ InSender' = Single(frames + 1)
      BY <1>3 DEF SenderGet, InSender, threadVars
    <2>2. ToInfer' = ToInfer /\ InModel' = InModel
      BY <1>3 DEF SenderGet, ToInfer, InModel, Reading, AtI, threadVars, inferLocals
    <2>3. frames + 1 \in Frames /\ frames + 1 \in Contents
      BY <1>3, BpuAssumption DEF SenderGet, BpuInv, ContentInv, Frames, Contents
    <2>4. Flow = f /\ Flow' = Cat(f, Single(frames + 1))
      BY <1>1, <1>2, <2>1, <2>2, CatNone DEF Flow
    <2> HIDE DEF f
    <2>5. Flow' = Put(Flow, frames + 1)
      BY <1>1, <2>3, <2>4, CatOne
    <2> QED  BY <1>2, <2>3, <2>5 DEF Puts
  <1>4. CASE SendSkip
    <2>1. InSender = Single(sframe) /\ InSender' = None
      BY <1>4 DEF SendSkip, InSender, threadVars
    <2>2. ToInfer' = ToInfer /\ InModel' = InModel
      BY <1>4 DEF SendSkip, ToInfer, InModel, Reading, AtI, threadVars, inferLocals
    <2>3. Flow = Cat(f, Single(sframe)) /\ Flow' = f
      BY <1>1, <1>2, <2>1, <2>2, CatNone DEF Flow
    <2> HIDE DEF f
    <2>4. Without(Flow, Flow')
      BY <1>1, <2>3, WithoutLast
    <2> QED  BY <1>2, <2>4 DEF Loses
  <1>5. CASE SendWrite
    <2>1. InSender' = InSender
      BY <1>5 DEF SendWrite, InSender, threadVars
    <2>2. /\ Reading => inTensor'[input] = inTensor[input]
          /\ \A i \in 1 .. Len(inq) : inTensor'[inq[i]] = inTensor[inq[i]]
      <3>1. /\ curIn \in 0 .. N - 1 /\ N \in Nat /\ InputSlots \in Nat /\ N > InputSlots
            /\ Len(inq) \in Nat /\ Len(inq) < InputSlots
        BY <1>5, BpuAssumption DEF SendWrite, BpuInv, RingInv, N, InTensors
      <3>2. \A k \in 1 .. N - 1 : Back(curIn, k) # curIn
        BY <3>1 DEF Back
      <3>3. Reading => input # curIn
        BY <3>1, <3>2 DEF BpuInv, RingInv
      <3>4. ASSUME NEW i \in 1 .. Len(inq)  PROVE inq[i] # curIn /\ inq[i] \in InTensors
        <4>1. Len(inq) - i + 1 \in 1 .. N - 1
          BY <3>1
        <4> QED  BY <3>2, <4>1 DEF BpuInv, RingInv
      <3>5. \A t \in InTensors : t # curIn => inTensor'[t] = inTensor[t]
        BY <1>1, <1>5 DEF SendWrite
      <3> QED  BY <3>3, <3>4, <3>5 DEF BpuInv, ContentInv
    <2>3. ToInfer' = ToInfer
      <3>1. Images(inTensor', inq) = Images(inTensor, inq)
        BY <1>1, <2>2, ImagesSame
      <3> QED  BY <1>5, <3>1 DEF SendWrite, ToInfer
    <2>4. InModel' = InModel
      BY <1>5, <2>2 DEF SendWrite, InModel, Reading, AtI, threadVars, inferLocals
    <2> QED  BY <1>2, <2>1, <2>3, <2>4 DEF Flow
  <1>6. CASE SendEnqueue
    <2>1. InSender = Single(sframe) /\ InSender' = None
      BY <1>6 DEF SendEnqueue, InSender, threadVars
    <2>2. InModel' = InModel
      BY <1>6 DEF SendEnqueue, InModel, Reading, AtI, threadVars, inferLocals
    <2>3. inq' = Put(inq, curIn) /\ inTensor' = inTensor /\ inTensor[curIn] = sframe
      BY <1>6 DEF SendEnqueue, BpuInv, RingInv, FlowInv, Put
    <2>4. ToInfer' = Put(ToInfer, sframe)
      <3>1. Images(inTensor, Put(inq, curIn)) = Put(Images(inTensor, inq), inTensor[curIn])
        BY <1>1, ImagesAppend
      <3> QED  BY <2>3, <3>1 DEF ToInfer
    <2>5. ToInfer' \in Lists(Contents)
      BY <1>1, <2>4, CatOne
    <2> DEFINE e == Cat(ToPost, InModel)
    <2>6. Flow = Cat(Cat(e, ToInfer), Single(sframe)) /\ Flow' = Cat(Cat(e, ToInfer'), None)
      BY <1>2, <2>1, <2>2 DEF Flow
    <2>7. e \in Lists(Contents)
      BY <1>1
    <2> HIDE DEF e, f
    <2>8. Cat(Cat(e, ToInfer'), None) = Cat(e, ToInfer')
      BY <2>5, <2>7, CatType, CatNone
    <2>9. Cat(Cat(e, ToInfer), Single(sframe)) = Cat(e, Put(ToInfer, sframe))
      BY <1>1, <2>7, CatPut
    <2> QED  BY <1>2, <2>4, <2>6, <2>8, <2>9
  <1> QED  BY <1>3, <1>4, <1>5, <1>6

\* The steps of the inference that move a frame.
LEMMA InferFlow ==
    ASSUME BpuInv, BpuInv',
           InferDequeue \/ InferSkip \/ InferFails \/ InferNoMemory \/ InferEnqueue
    PROVE  Keeps \/ Loses
  <1> USE DEF AtI, Reading, Keeps
  <1>1. /\ ToPost \in Lists(Contents) /\ ToInfer \in Lists(Contents)
        /\ InSender \in Lists(Contents) /\ inTensor[input] \in Contents
        /\ TimeStamp \in [PostInfos -> Contents] /\ inTensor \in [InTensors -> Contents]
        /\ outq \in Lists(PostInfos) /\ inq \in Lists(InTensors)
    BY FlowTypes
  <1>0. /\ sender \in Workers /\ infer \in Workers /\ sender # infer
        /\ worker \in [Workers -> WorkerStates]
    BY BpuAssumption DEF BpuInv, ThreadInv, ThreadTypeOK
  <1>2. UNCHANGED <<info, inTensor, spc, sframe>>
    BY DEF InferDequeue, InferSkip, InferFails, InferNoMemory, InferEnqueue, postLocals, inputs
  <1>3. worker'[sender] = worker[sender]
    BY <1>0 DEF InferDequeue, InferSkip, InferFails, InferNoMemory, InferEnqueue, GivesUp,
       BreakLoop, threadVars
  <1>4. InSender' = InSender
    BY <1>2, <1>3 DEF InSender, AtS
  <1>5. CASE InferDequeue
    <2>1. InModel = None /\ inq # None /\ inq' = Rest(inq) /\ outq' = outq
          /\ InModel' = Single(inTensor[First(inq)])
      BY <1>5 DEF InferDequeue, InModel, None, Rest, First, threadVars
    <2>2. ToPost' = ToPost
      BY <2>1 DEF ToPost
    <2>3. /\ ToInfer' = Rest(ToInfer) /\ ToInfer # None
          /\ inTensor[First(inq)] = First(ToInfer)
      <3> DEFINE f == inTensor
                 s == inq
      <3>0. s \in Lists(InTensors) /\ s # None /\ f \in [InTensors -> Contents]
        BY <1>1, <2>1
      <3> HIDE DEF f, s
      <3>1. Images(f, Rest(s)) = Rest(Images(f, s)) /\ First(Images(f, s)) = f[First(s)]
        BY <3>0, ImagesTail
      <3>2. Images(inTensor, inq) # None
        BY <1>1, <2>1, ImagesAt
      <3> QED  BY <1>2, <2>1, <3>1, <3>2 DEF ToInfer, f, s
    <2>4. Flow = Cat(Cat(Cat(ToPost, None), ToInfer), InSender)
      BY <2>1 DEF Flow
    <2>5. Flow' = Cat(Cat(Cat(ToPost, Single(First(ToInfer))), Rest(ToInfer)), InSender)
      BY <1>4, <2>1, <2>2, <2>3 DEF Flow
    <2>6. Cat(ToPost, None) = ToPost
      BY <1>1, CatNone
    <2>7. Cat(Cat(ToPost, Single(First(ToInfer))), Rest(ToInfer)) = Cat(ToPost, ToInfer)
      BY <1>1, <2>3, CatFirst
    <2> QED  BY <1>2, <2>4, <2>5, <2>6, <2>7
  <1>6. CASE InferSkip \/ InferFails \/ InferNoMemory
    <2>1. InModel = Single(inTensor[input]) /\ InModel' = None
      BY <1>6 DEF InferSkip, InferFails, InferNoMemory, GivesUp, BreakLoop, InModel
    <2>2. UNCHANGED <<outq, inq>>
      BY <1>6 DEF InferSkip, InferFails, InferNoMemory, outputs, inputs
    <2>3. ToPost' = ToPost /\ ToInfer' = ToInfer
      BY <1>2, <2>2 DEF ToPost, ToInfer
    <2> DEFINE x == inTensor[input]
    <2>4. x \in Contents
      BY <1>1
    <2>5. Flow = Cat(Cat(Cat(ToPost, Single(x)), ToInfer), InSender)
      BY <2>1 DEF Flow
    <2> HIDE DEF x
    <2>6. Flow' = Cat(Cat(ToPost, ToInfer), InSender)
      BY <1>1, <1>4, <2>1, <2>3, CatNone DEF Flow
    <2>7. Without(Cat(ToPost, Single(x)), ToPost)
      BY <1>1, <2>4, WithoutLast
    <2>8. Cat(ToPost, Single(x)) \in Lists(Contents)
      BY <1>1, <2>4, CatOne, CatType
    <2>9. Without(Cat(Cat(ToPost, Single(x)), ToInfer), Cat(ToPost, ToInfer))
      BY <1>1, <2>7, <2>8, WithoutCat
    <2>10. /\ Cat(Cat(ToPost, Single(x)), ToInfer) \in Lists(Contents)
           /\ Cat(ToPost, ToInfer) \in Lists(Contents)
      BY <1>1, <2>8, CatType
    <2>11. Without(Cat(Cat(Cat(ToPost, Single(x)), ToInfer), InSender),
                   Cat(Cat(ToPost, ToInfer), InSender))
      BY <1>1, <2>9, <2>10, WithoutCat
    <2> QED  BY <1>2, <2>5, <2>6, <2>11 DEF Loses
  <1>7. CASE InferEnqueue
    <2> DEFINE item == [tensor |-> curOut, tv |-> inTensor[input]]
    <2>1. InModel = Single(inTensor[input]) /\ InModel' = None
      BY <1>7 DEF InferEnqueue, InModel
    <2>2. outq' = Put(outq, item) /\ inq' = inq
      BY <1>7 DEF InferEnqueue, inputs, Put
    <2>3. item \in PostInfos /\ TimeStamp[item] = inTensor[input]
      BY <1>7 DEF InferEnqueue, BpuInv, OutInv, ContentInv, PostInfos, TimeStamp
    <2> HIDE DEF item
    <2>4. ToPost' = Put(ToPost, inTensor[input])
      <3>1. Images(TimeStamp, Put(outq, item)) = Put(Images(TimeStamp, outq), TimeStamp[item])
        BY <1>1, <2>3, ImagesAppend
      <3> QED  BY <2>2, <2>3, <3>1 DEF ToPost
    <2>5. ToInfer' = ToInfer
      BY <1>2, <2>2 DEF ToInfer
    <2>6. Put(ToPost, inTensor[input]) \in Lists(Contents)
      BY <1>1, CatOne
    <2>7. Cat(Put(ToPost, inTensor[input]), None) = Cat(ToPost, Single(inTensor[input]))
      BY <1>1, <2>6, CatNone, CatOne
    <2> QED  BY <1>2, <1>4, <2>1, <2>4, <2>5, <2>7 DEF Flow
  <1> QED  BY <1>5, <1>6, <1>7

\* The steps of post that move a frame, and the new thread, which has none.
LEMMA PostFlow ==
    ASSUME BpuInv, FlowInv, PostDequeue \/ PostDone \/ StartPost
    PROVE  Receives \/ Finishes
  <1> USE DEF AtP, Keeps
  <1>0. /\ sender \in Workers /\ infer \in Workers /\ post \in Workers
        /\ sender # post /\ infer # post
        /\ worker \in [Workers -> WorkerStates]
    BY BpuAssumption DEF BpuInv, ThreadInv, ThreadTypeOK
  <1>1. /\ ToPost \in Lists(Contents) /\ InModel \in Lists(Contents)
        /\ ToInfer \in Lists(Contents) /\ InSender \in Lists(Contents)
        /\ Cat(ToPost, InModel) \in Lists(Contents)
        /\ Cat(Cat(ToPost, InModel), ToInfer) \in Lists(Contents)
        /\ TimeStamp \in [PostInfos -> Contents] /\ outq \in Lists(PostInfos)
    BY FlowTypes
  <1>2. UNCHANGED <<inTensor, inq, sframe, spc, ipc, input, worker>>
    BY DEF PostDequeue, PostDone, StartPost, StartCall, inputs, inferLocals, threadVars
  <1>3. CASE PostDequeue
    <2>1. /\ outq # None /\ outq' = Rest(outq) /\ info' = First(outq) /\ info = NoInfo
      BY <1>3 DEF PostDequeue, None, Rest, First, FlowInv
    <2>2. ToInfer' = ToInfer /\ InSender' = InSender /\ InModel' = InModel
      BY <1>2 DEF ToInfer, InSender, InModel, Reading, AtI, AtS
    <2>3. /\ ToPost' = Rest(ToPost) /\ ToPost # None /\ First(ToPost) = info'.tv
      <3>1. /\ Images(TimeStamp, Rest(outq)) = Rest(Images(TimeStamp, outq))
            /\ First(Images(TimeStamp, outq)) = TimeStamp[First(outq)]
            /\ First(outq) = outq[1] /\ 1 \in 1 .. Len(outq)
        BY <1>1, <2>1, ImagesTail
      <3>2. Images(TimeStamp, outq) # None
        BY <1>1, <2>1, ImagesAt
      <3>3. First(outq) \in PostInfos
        BY <3>1 DEF BpuInv, OutInv
      <3> QED  BY <2>1, <3>1, <3>2, <3>3 DEF ToPost, TimeStamp
    <2>4. Starts(ToPost, info'.tv, Rest(ToPost))
      BY <1>1, <2>3, StartsFirst
    <2>5. Starts(Cat(ToPost, InModel), info'.tv, Cat(Rest(ToPost), InModel))
      BY <1>1, <2>4, StartsCat
    <2>6. Starts(Cat(Cat(ToPost, InModel), ToInfer), info'.tv,
                 Cat(Cat(Rest(ToPost), InModel), ToInfer))
      BY <1>1, <2>5, StartsCat
    <2>7. Starts(Cat(Cat(Cat(ToPost, InModel), ToInfer), InSender), info'.tv,
                 Cat(Cat(Cat(Rest(ToPost), InModel), ToInfer), InSender))
      BY <1>1, <2>6, StartsCat
    <2> QED  BY <2>1, <2>2, <2>3, <2>7 DEF Flow, Receives
  <1>4. CASE PostDone \/ StartPost
    <2>1. info' = NoInfo /\ outq' = outq
      BY <1>4 DEF PostDone, StartPost, outputs
    <2> QED  BY <1>2, <2>1, FlowKept DEF Finishes, Reading, AtI, AtS
  <1> QED  BY <1>3, <1>4

\* bpu_wrap_init and bpu_wrap_deinit throw everything away.
LEMMA EmptyFlow ==
    ASSUME BpuInv, WrapInit \/ WrapDeinit
    PROVE  Clears
  <1>1. /\ worker[sender] # "loop" /\ worker[infer] # "loop"
        /\ UNCHANGED <<worker, info>> /\ inq' = None /\ outq' = None
    BY QuietWhenFreed DEF BpuInv, Quiet, WrapInit, WrapDeinit, threadVars, postLocals, None
  <1>2. InModel' = None /\ InSender' = None
    BY <1>1 DEF InModel, InSender, Reading, AtI, AtS
  <1>3. /\ None \in Lists(PostInfos) /\ None \in Lists(InTensors) /\ None \in Lists(Contents)
    BY EmptySeq DEF Lists, None
  <1>4. Images(TimeStamp, None) = None /\ Images(inTensor', None) = None
    BY <1>3, ImagesAt
  <1>5. ToPost' = None /\ ToInfer' = None
    BY <1>1, <1>4 DEF ToPost, ToInfer
  <1> QED  BY <1>1, <1>2, <1>3, <1>5, CatNone DEF Flow, Clears

LEMMA FlowNext ==
    BpuInv /\ FlowInv /\ BpuInv' /\ [BpuNext]_vars => [Channel!LossyNext]_<<InFlight, info.tv>>
  <1> SUFFICES ASSUME BpuInv, FlowInv, BpuInv', [BpuNext]_vars
               PROVE  \/ Keeps
                      \/ Puts \/ Loses \/ Clears \/ Receives \/ Finishes
    BY FlowSteps
  <1> USE DEF AtS, AtI, Reading, Keeps
  <1>0. /\ sender \in Workers /\ infer \in Workers /\ post \in Workers
        /\ sender # infer /\ sender # post /\ infer # post
        /\ worker \in [Workers -> WorkerStates]
    BY BpuAssumption DEF BpuInv, ThreadInv, ThreadTypeOK
  <1>1. CASE WrapInit \/ WrapDeinit
    BY <1>1, EmptyFlow
  <1>2. CASE StartInfer
    <2>1. worker[infer] # "loop"
      BY <1>0, <1>2 DEF StartInfer, BpuInv, StageInv, Idle, ThreadInv, Lifecycle,
         RunningIsStarted, Quiet
    <2> QED  BY <1>2, <2>1, FlowKept DEF StartInfer, StartCall, inputs, outputs, postLocals
  <1>3. CASE StartSender
    <2>1. worker[sender] # "loop" /\ worker' = worker /\ info' = info
      BY <1>0, <1>3 DEF StartSender, StartCall, BpuInv, StageInv, Idle, ThreadInv, Lifecycle,
         RunningIsStarted, Quiet, postLocals
    <2>2. InSender = None /\ InSender' = None
      BY <2>1 DEF InSender
    <2>3. ToPost' = ToPost /\ ToInfer' = ToInfer /\ InModel' = InModel
      BY <1>3, <2>1 DEF StartSender, ToPost, ToInfer, InModel, outputs, inferLocals
    <2> QED  BY <2>1, <2>2, <2>3 DEF Flow
  <1>4. CASE StopSender \/ StopPost \/ StopInfer
    BY <1>4, FlowKept DEF StopSender, StopPost, StopInfer, StopCall, inputs, outputs,
       inferLocals, postLocals
  <1>5. ASSUME NEW w \in Workers, OwnerInside(w)  PROVE Keeps
    <2>1. \A v \in Workers : worker[v] = "loop" => worker'[v] = "loop"
      BY <1>0, <1>5 DEF OwnerInside, OwnerStep, StartMark, CreateOk, CreateFails, StopMark,
         StopKill, StopJoin, StopPoll, StopEnd, StopSleep, threadVars
    <2> QED  BY <1>0, <1>5, <2>1, EntersAtStart, FlowKept DEF BpuInv, inputs, outputs,
             inferLocals, postLocals
  <1>6. CASE SenderGet \/ SendSkip \/ SendWrite \/ SendEnqueue
    BY <1>6, SenderFlow
  <1>7. CASE SenderHead \/ SenderGetFails \/ SenderRelease \/ SenderFinish
    <2>1. /\ UNCHANGED <<outq, inq, inTensor, info, ipc, input>>
          /\ AtS("send") \/ AtS("enqueue") => FALSE
          /\ (AtS("send") \/ AtS("enqueue"))' => FALSE
      BY <1>7 DEF SenderHead, SenderGetFails, SenderRelease, SenderFinish, outputs, inputs,
         inferLocals, postLocals
    <2>2. worker'[infer] = worker[infer]
      BY <1>0, <1>7 DEF SenderHead, SenderGetFails, SenderRelease, SenderFinish, GivesUp,
         BreakLoop, LeaveLoop, FinishMark, FinishExit, threadVars
    <2>3. InSender' = InSender
      BY <2>1 DEF InSender
    <2>4. ToPost' = ToPost /\ ToInfer' = ToInfer /\ InModel' = InModel
      BY <2>1, <2>2 DEF ToPost, ToInfer, InModel
    <2> QED  BY <2>1, <2>3, <2>4 DEF Flow
  <1>8. CASE InferDequeue \/ InferSkip \/ InferFails \/ InferNoMemory \/ InferEnqueue
    BY <1>8, InferFlow
  <1>9. CASE InferPrepare \/ InferWait \/ InferTimeout \/ InferDone
    BY <1>9, FlowKept DEF InferPrepare, InferWait, InferTimeout, InferDone, threadVars, inputs,
       outputs, postLocals
  <1>10. CASE InferPrepareFails \/ InferHead \/ InferRelease \/ InferFinish
    <2>1. /\ UNCHANGED <<outq, inq, inTensor, sframe, spc, info, input>>
          /\ ~ Reading /\ ~ Reading'
      BY <1>10 DEF InferPrepareFails, InferHead, InferRelease, InferFinish, FinishMark,
         FinishExit, outputs, inputs, inferLocals, postLocals
    <2>2. worker'[sender] = worker[sender]
      BY <1>0, <1>10 DEF InferPrepareFails, InferHead, InferRelease, InferFinish, GivesUp,
         BreakLoop, LeaveLoop, FinishMark, FinishExit, threadVars
    <2> QED  BY <2>1, <2>2, FlowKept
  <1>11. CASE PostDequeue \/ PostDone \/ StartPost
    BY <1>11, PostFlow
  <1>12. CASE PostHead \/ PostWait \/ PostTimeout \/ PostFinish
    <2>1. UNCHANGED <<outq, inq, inTensor, sframe, spc, info, input, ipc>>
      BY <1>12 DEF PostHead, PostWait, PostTimeout, PostFinish, outputs, inputs, inferLocals,
         postLocals
    <2>2. worker'[sender] = worker[sender] /\ worker'[infer] = worker[infer]
      BY <1>0, <1>12 DEF PostHead, PostWait, PostTimeout, PostFinish, LeaveLoop, FinishMark,
         FinishExit, threadVars
    <2> QED  BY <2>1, <2>2, FlowKept
  <1>13. CASE UNCHANGED vars
    BY <1>13, FlowKept DEF vars, threadVars, inputs, outputs, inferLocals, postLocals
  <1> QED
    BY <1>1, <1>2, <1>3, <1>4, <1>5, <1>6, <1>7, <1>8, <1>9, <1>10, <1>11, <1>12, <1>13
    DEF BpuNext, Owner, Sender, Infer, Post

\* From the VSE to the callback frames may be lost, at seven places, but none
\* is repeated or overtaken, across stops and starts too: the rings and queues
\* refine a channel that may lose.
THEOREM FlowIsLossyFifo == BpuSpec => ImplementsLossyFifo
  <1>1. BpuInit => Channel!LossyInit
    <2> SUFFICES ASSUME BpuInit  PROVE Channel!LossyInit
      OBVIOUS
    <2>1. sender \in Workers /\ infer \in Workers
      BY BpuAssumption
    <2>2. worker[sender] # "loop" /\ worker[infer] # "loop"
      BY <2>1 DEF BpuInit, ThreadInit
    <2>3. outq = << >> /\ inq = << >> /\ info = NoInfo
      BY DEF BpuInit
    <2>4. InFlight = ((<< >> \o << >>) \o << >>) \o << >>
      BY <2>2, <2>3 DEF InFlight, AtI, AtS
    <2> QED  BY <2>3, <2>4 DEF Channel!LossyInit, NoInfo
  <1>2. BpuSpec => []FlowInv
    BY FlowInit, FlowInvNext, BpuInvHolds, PTL DEF BpuSpec
  <1> QED
    BY <1>1, <1>2, FlowNext, BpuInvHolds, PTL DEF BpuSpec, ImplementsLossyFifo, Channel!LossySpec
=============================================================================
