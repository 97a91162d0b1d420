------------------------- MODULE BoxPipelineProofs -------------------------
(***************************************************************************)
(* Theorems about BoxPipeline, for any number of encoders and frames and   *)
(* any capacity of decoder and VSE, with or without errors and failed      *)
(* creations of threads, over any number of starts and stops.              *)
(***************************************************************************)
EXTENDS BoxPipeline, MThreadProofs, ListLemmas

\* Where the owner is says which threads can be running.
Idle(w) == call[w] = "none" /\ result[w] \in {"none", "stopped"}
Ending(w) ==
    /\ call[w] \notin {"start", "create"}
    /\ call[w] = "none" => result[w] = "stopped"

StageInv ==
    /\ stage \in {"off", "starting", "running", "stopping", "stopped"}
    /\ \A w \in Workers :
         /\ stage \in {"off", "stopped"} => Idle(w)
         /\ stage = "starting" /\ w \notin called => Idle(w)
         /\ stage = "stopping" /\ w \in called => Ending(w)
         /\ call[w] \in {"start", "create"} => stage = "starting"

\* vpp_box_init and vpp_box_uninit replace and free what the threads use:
\* decoder, VSE and encoders.
FreedWhenQuiet == stage \in {"off", "stopped"} => \A w \in Workers : Quiet(w)

\* src_img belongs to vflow, to the VSE, or to vflow again when the frame for
\* the BPU is ready.
Clear == ~ vseBusy /\ bpuReady = << >>
Sent ==
    \/ vseBusy /\ bpuReady = << >>
    \/ ~ vseBusy /\ bpuReady = <<source>>

FlowInv ==
    /\ vseBusy \in BOOLEAN
    /\ stage = "starting" /\ vflow \notin called => Clear
    /\ call[vflow] \in {"start", "create"} => Clear /\ vpc = "head"
    /\ worker[vflow] = "loop" =>
         /\ vpc \in {"head", "decode", "copy", "send", "get", "bpu"}
         /\ vpc = "get" => Sent
         /\ vpc # "get" => Clear
         /\ vpc = "bpu" => vseFrame = source

BoxInv == ThreadInv /\ StageInv /\ FlowInv

-----------------------------------------------------------------------------
\* Every step is one of MThread or leaves the threads alone.
LEMMA BoxStepsThreads == [BoxNext]_vars => [ThreadNext]_threadVars
  <1> SUFFICES ASSUME [BoxNext]_vars  PROVE [ThreadNext]_threadVars
    OBVIOUS
  <1> USE BoxAssumption DEF ThreadNext, OwnerStep, WorkerStep
  <1>1. ASSUME NEW w \in Workers, OwnerInside(w) \/ StopThread(w)
        PROVE  [ThreadNext]_threadVars
    BY <1>1 DEF OwnerInside, StopThread
  <1>2. CASE BoxStart \/ Started \/ BoxStop \/ Stopped \/ BoxUninit
    BY <1>2 DEF BoxStart, Started, BoxStop, Stopped, BoxUninit
  <1>3. CASE StartVdec \/ StartVflow \/ \E v \in Vencs : StartVenc(v)
    BY <1>3 DEF StartVdec, StartVflow, StartVenc
  <1>4. CASE VdecHead \/ OpenGivesUp \/ VdecGivesUp \/ VdecFinish
    BY <1>4 DEF VdecHead, OpenGivesUp, VdecGivesUp, VdecFinish, GivesUp
  <1>5. CASE OpenOk \/ OpenRetry \/ VdecRead \/ VdecReadFails \/ VdecHeader \/ VdecInput
    BY <1>5 DEF OpenOk, OpenRetry, VdecRead, VdecReadFails, VdecHeader, VdecInput
  <1>6. CASE VflowHead \/ VflowGetFails \/ VflowGivesUp \/ VflowFinish
    BY <1>6 DEF VflowHead, VflowGetFails, VflowGivesUp, VflowFinish, GivesUp
  <1>7. CASE \/ VflowDecode \/ VflowDecodeFails \/ VflowCopy \/ VflowSend
             \/ VflowGet \/ VflowRelease \/ VseDone
    BY <1>7 DEF VflowDecode, VflowDecodeFails, VflowCopy, VflowSend, VflowGet,
                VflowRelease, VseDone
  <1>8. ASSUME NEW v \in Vencs, VencHead(v) \/ VencFinish(v)
        PROVE  [ThreadNext]_threadVars
    BY <1>8 DEF VencHead, VencFinish
  <1>9. ASSUME NEW v \in Vencs,
               \/ VencGet(v) \/ VencGetFails(v) \/ VencInput(v) \/ VencOutput(v)
               \/ VencOutputTimeout(v) \/ VencOutputStopped(v) \/ VencPush(v)
               \/ VencRelease(v) \/ VencExit(v)
        PROVE  [ThreadNext]_threadVars
    BY <1>9 DEF VencGet, VencGetFails, VencInput, VencOutput, VencOutputTimeout,
                VencOutputStopped, VencPush, VencRelease, VencExit, vars
  <1>10. CASE UNCHANGED vars
    BY <1>10 DEF vars
  <1> QED
    BY <1>1, <1>2, <1>3, <1>4, <1>5, <1>6, <1>7, <1>8, <1>9, <1>10
    DEF BoxNext, Owner, StopGoesOn, Vdec, Vflow, Venc

\* What a thread of the pipeline does leaves the owner where it is.
LEMMA OwnerWaits ==
    ASSUME Vdec \/ Vflow \/ VseDone \/ (\E v \in Vencs : Venc(v)) \/ UNCHANGED vars
    PROVE  UNCHANGED <<stage, called, call, result>>
  <1>1. CASE Vdec
    BY <1>1 DEF Vdec, OpenOk, OpenRetry, OpenGivesUp, VdecHead, VdecRead, VdecReadFails,
       VdecHeader, VdecInput, VdecGivesUp, VdecFinish, GivesUp, BreakLoop, LeaveLoop,
       FinishMark, FinishExit, threadVars
  <1>2. CASE Vflow \/ VseDone
    BY <1>2 DEF Vflow, VflowHead, VflowDecode, VflowDecodeFails, VflowCopy, VflowSend,
       VseDone, VflowGet, VflowGetFails, VflowRelease, VflowGivesUp, VflowFinish, GivesUp,
       BreakLoop, LeaveLoop, FinishMark, FinishExit, threadVars
  <1>3. ASSUME NEW v \in Vencs, Venc(v)  PROVE UNCHANGED <<stage, called, call, result>>
    BY <1>3 DEF Venc, VencHead, VencGet, VencGetFails, VencInput, VencOutput,
       VencOutputTimeout, VencOutputStopped, VencPush, VencRelease, VencExit, VencFinish,
       LeaveLoop, FinishMark, FinishExit, threadVars, vars
  <1>4. CASE UNCHANGED vars
    BY <1>4 DEF vars, threadVars
  <1> QED  BY <1>1, <1>2, <1>3, <1>4

LEMMA StageNext == ThreadInv /\ StageInv /\ [BoxNext]_vars => StageInv'
  <1> SUFFICES ASSUME ThreadInv, StageInv, [BoxNext]_vars  PROVE StageInv'
    OBVIOUS
  <1> USE BoxAssumption DEF StageInv, Idle, Ending, ThreadInv, ThreadTypeOK, Calls, Results,
                            Lifecycle, CallAgrees
  <1>1. CASE BoxStart \/ BoxStop \/ BoxUninit
    BY <1>1 DEF BoxStart, BoxStop, BoxUninit, threadVars
  <1>2. CASE Started \/ Stopped
    BY <1>2 DEF Started, Stopped, OwnerFree, threadVars
  <1>3. ASSUME NEW w \in Workers, StartCall(w), stage = "starting",
               called' = called \cup {w}, stage' = stage
        PROVE  StageInv'
    BY <1>3 DEF StartCall, OwnerFree
  <1>4. CASE StartVdec \/ StartVflow \/ \E v \in Vencs : StartVenc(v)
    BY <1>3, <1>4 DEF StartVdec, StartVflow, StartVenc
  <1>5. ASSUME NEW w \in Workers, StopThread(w)  PROVE StageInv'
    BY <1>5 DEF StopThread, StopCall, OwnerFree
  <1>6. ASSUME NEW w \in Workers, OwnerInside(w)  PROVE StageInv'
    BY <1>6 DEF OwnerInside, OwnerStep, StartMark, CreateOk, CreateFails, StopMark, StopKill,
                StopJoin, StopPoll, StopEnd, StopSleep, threadVars
  <1>7. CASE Vdec \/ Vflow \/ VseDone \/ (\E v \in Vencs : Venc(v)) \/ UNCHANGED vars
    BY <1>7, OwnerWaits
  <1> QED
    BY <1>1, <1>2, <1>4, <1>5, <1>6, <1>7 DEF BoxNext, Owner, StopGoesOn

LEMMA OneItem ==
    ASSUME NEW x
    PROVE  Append(<< >>, x) = <<x>> /\ Head(<<x>>) = x /\ Tail(<<x>>) = << >>
  <1>1. << >> \in Seq({x}) /\ <<x>> \in Seq({x}) /\ x \in {x}
    OBVIOUS
  <1> QED  BY <1>1

\* A thread that is out of its loop only comes back by its creation.
LEMMA FlowNext == ThreadInv /\ StageInv /\ FlowInv /\ [BoxNext]_vars => FlowInv'
  <1> SUFFICES ASSUME ThreadInv, StageInv, FlowInv, [BoxNext]_vars  PROVE FlowInv'
    OBVIOUS
  <1> USE BoxAssumption DEF FlowInv, Clear, Sent
  <1>1. stage \in {"off", "stopped"} \/ (stage = "starting" /\ vflow \notin called)
          => worker[vflow] # "loop" /\ call[vflow] = "none"
    BY DEF StageInv, Idle, ThreadInv, Lifecycle, RunningIsStarted, Quiet
  <1>2. call[vflow] \in {"start", "create"} => stage = "starting" /\ worker[vflow] # "loop"
    BY DEF StageInv, ThreadInv, Lifecycle, CallAgrees, RunningIsStarted, Quiet
  <1>3. CASE BoxStart \/ BoxUninit
    BY <1>1, <1>3 DEF BoxStart, BoxUninit, Fresh, threadVars
  <1>4. CASE BoxStop \/ Started \/ Stopped
    BY <1>4 DEF BoxStop, Started, Stopped, threadVars, flowing, vse
  <1>5. CASE StartVdec \/ \E v \in Vencs : StartVenc(v)
    BY <1>1, <1>5 DEF StartVdec, StartVenc, StartCall, flowing, vse, ThreadInv, ThreadTypeOK
  <1>6. CASE StartVflow
    BY <1>1, <1>6 DEF StartVflow, StartCall, vse
  <1>7. ASSUME NEW w \in Workers, StopThread(w)  PROVE FlowInv'
    BY <1>7 DEF StopThread, StopCall, flowing, vse, ThreadInv, ThreadTypeOK
  <1>8. ASSUME NEW w \in Workers, OwnerInside(w)  PROVE FlowInv'
    <2>1. UNCHANGED <<stage, called, vpc, source, vseFrame, vseBusy, bpuReady>>
      BY <1>8 DEF OwnerInside, flowing, vse
    <2>2. /\ worker'[vflow] = "loop" =>
               worker[vflow] = "loop" \/ call[vflow] = "create"
          /\ call'[vflow] \in {"start", "create"} => call[vflow] \in {"start", "create"}
      BY <1>8 DEF OwnerInside, OwnerStep, StartMark, CreateOk, CreateFails, StopMark, StopKill,
         StopJoin, StopPoll, StopEnd, StopSleep, threadVars, ThreadInv, ThreadTypeOK
    <2> QED  BY <2>1, <2>2
  <1>9. CASE Vdec \/ (\E v \in Vencs : Venc(v)) \/ UNCHANGED vars
    <2>1. UNCHANGED <<stage, called, call>>
      BY <1>9, OwnerWaits
    <2>2. UNCHANGED <<vpc, source, vseFrame, vseBusy, bpuReady>> /\ worker'[vflow] = worker[vflow]
      <3>1. CASE Vdec
        BY <3>1 DEF Vdec, OpenOk, OpenRetry, OpenGivesUp, VdecHead, VdecRead, VdecReadFails,
           VdecHeader, VdecInput, VdecGivesUp, VdecFinish, GivesUp, BreakLoop, LeaveLoop,
           FinishMark, FinishExit, threadVars, flowing, vse, ThreadInv, ThreadTypeOK
      <3>2. ASSUME NEW v \in Vencs, Venc(v)
            PROVE  /\ UNCHANGED <<vpc, source, vseFrame, vseBusy, bpuReady>>
                   /\ worker'[vflow] = worker[vflow]
        BY <3>2 DEF Venc, VencHead, VencGet, VencGetFails, VencInput, VencOutput,
           VencOutputTimeout, VencOutputStopped, VencPush, VencRelease, VencExit, VencFinish,
           LeaveLoop, FinishMark, FinishExit, threadVars, vars, flowing, vse,
           ThreadInv, ThreadTypeOK
      <3>3. CASE UNCHANGED vars
        BY <3>3 DEF vars, threadVars, flowing, vse
      <3> QED  BY <1>9, <3>1, <3>2, <3>3
    <2> QED  BY <2>1, <2>2
  <1>10. CASE Vflow
    <2> USE <1>1, <1>2 DEF ThreadInv, ThreadTypeOK, threadVars
    <2>1. UNCHANGED <<stage, called, call>>
      BY <1>10, OwnerWaits
    <2>2. CASE VflowHead \/ VflowDecode \/ VflowDecodeFails
      BY <2>1, <2>2 DEF VflowHead, VflowDecode, VflowDecodeFails, AtV, LeaveLoop, vse
    <2>3. CASE VflowCopy
      BY <2>1, <2>3 DEF VflowCopy, AtV, vse
    <2>4. CASE VflowSend
      <3>1. /\ worker[vflow] = "loop" /\ vpc' = "get"
            /\ vseBusy' = TRUE /\ bpuReady' = bpuReady /\ worker' = worker
        BY <2>4 DEF VflowSend, AtV
      <3>2. bpuReady' = << >>
        BY <2>4, <3>1 DEF VflowSend, AtV
      <3>3. Sent' /\ (vseBusy \in BOOLEAN)'
        BY <3>1, <3>2
      <3> HIDE DEF Sent, Clear
      <3> QED  BY <2>1, <3>1, <3>3
    <2>5. CASE VflowGet
      <3>1. /\ worker[vflow] = "loop" /\ bpuReady = <<source>> /\ ~ vseBusy
            /\ vpc' = "bpu" /\ vseFrame' = Head(bpuReady) /\ bpuReady' = Tail(bpuReady)
            /\ source' = source /\ vseBusy' = vseBusy /\ worker' = worker
        BY <2>5 DEF VflowGet, AtV
      <3>2. vseFrame' = source' /\ bpuReady' = << >>
        BY <3>1, OneItem
      <3> QED  BY <2>1, <3>1, <3>2
    <2>6. CASE VflowRelease
      BY <2>1, <2>6 DEF VflowRelease, AtV, vse
    <2>7. CASE VflowGetFails \/ VflowGivesUp \/ VflowFinish
      BY <2>1, <2>7 DEF VflowGetFails, VflowGivesUp, VflowFinish, GivesUp, BreakLoop,
         LeaveLoop, FinishMark, FinishExit, AtV, vse, flowing
    <2> QED  BY <1>10, <2>2, <2>3, <2>4, <2>5, <2>6, <2>7 DEF Vflow
  <1>11. CASE VseDone
    <2>1. /\ vseBusy /\ vseBusy' = FALSE /\ bpuReady' = Append(bpuReady, source)
          /\ UNCHANGED <<stage, called, call, worker, vpc, source, vseFrame>>
      BY <1>11 DEF VseDone, threadVars, flowing
    <2>2. bpuReady = << >> => bpuReady' = <<source'>>
      BY <2>1, OneItem
    <2> QED  BY <2>1, <2>2
  <1> QED
    BY <1>3, <1>4, <1>5, <1>6, <1>7, <1>8, <1>9, <1>10, <1>11
    DEF BoxNext, Owner, StopGoesOn

\* Off or stopped, the channel is quiet.
LEMMA FreedQuiet == BoxInv => FreedWhenQuiet
  BY DEF BoxInv, ThreadInv, Lifecycle, RunningIsStarted, StageInv, Idle, FreedWhenQuiet

-----------------------------------------------------------------------------
\* The inductive invariant holds.
THEOREM BoxInvariant == BoxSpec => []BoxInv
  <1>1. BoxInit => BoxInv
    <2> SUFFICES ASSUME BoxInit  PROVE BoxInv
      OBVIOUS
    <2>1. ThreadInv
      BY ThreadInvInit DEF BoxInit
    <2>2. StageInv
      BY DEF BoxInit, ThreadInit, StageInv, Idle
    <2>3. FlowInv
      BY BoxAssumption DEF BoxInit, ThreadInit, FlowInv
    <2> QED  BY <2>1, <2>2, <2>3 DEF BoxInv
  <1>2. BoxInv /\ [BoxNext]_vars => BoxInv'
    BY BoxStepsThreads, ThreadInvNext, StageNext, FlowNext DEF BoxInv
  <1> QED  BY <1>1, <1>2, PTL DEF BoxSpec

\* The threads of a vpp_box channel are started, stopped and ended as MThread
\* describes it, so what is proved there holds for every one of them.
THEOREM BoxKeepsThreadRules == BoxSpec => ThreadSpec
  <1>1. BoxInit => ThreadInit
    BY DEF BoxInit
  <1> QED  BY <1>1, BoxStepsThreads, PTL DEF BoxSpec, ThreadSpec

\* There is one src_img and no lock around it: vflow copies a frame into it
\* only when the VSE does not read it, and the frame it hands to the BPU is the
\* one whose time stamp it sends along, over any number of frames and restarts.
THEOREM SourceIsMatched == BoxSpec => []SourceMatches
  <1>1. BoxInv => SourceMatches
    BY DEF BoxInv, FlowInv, Clear, SourceMatches, AtV
  <1> QED  BY <1>1, BoxInvariant, PTL

\* When vpp_box_init and vpp_box_uninit replace and free decoder, VSE and
\* encoders, every thread of the channel is past its cleanup.
THEOREM FreedIsQuiet == BoxSpec => []FreedWhenQuiet
  BY FreedQuiet, BoxInvariant, PTL

-----------------------------------------------------------------------------
(***************************************************************************)
(* The refinement of LossyFifo: what is on its way to stream v.            *)
(***************************************************************************)
Contents == Frames \cup {NoFrame}
OneOf(frame) == IF frame = NoFrame THEN None ELSE Single(frame)

\* A frame in the hands of venc or vflow.
ToPush(v) ==
    IF AtE(v, "push") /\ is_geted_codec_stream[v] THEN Single(bitstream[v]) ELSE None
InVenc(v) == IF AtE(v, "input") THEN Single(eframe[v]) ELSE None
InVse == IF vseBusy THEN Single(source) ELSE None
InVflow == IF AtV("copy") \/ AtV("send") THEN Single(image) ELSE None

\* What has passed the VSE, what is in or before it, and both.
Encoded(v) == Cat(Cat(ToPush(v), OneOf(encoder[v])), InVenc(v))
Scaled(v) == Cat(Encoded(v), encReady[v])
Shown(v) == Cat(Cat(Scaled(v), InVse), InVflow)
Flow(v) == Cat(Cat(Shown(v), decoder), OneOf(packet))

\* A hand that is to hold a frame holds one; nothing has been encoded of the
\* frame the encoder works on; and what is pushed, a thread is to clear.
VencInv(v) ==
    /\ call[v] \in {"start", "create"} => epc[v] = "head"
    /\ AtE(v, "input") => eframe[v] # NoFrame
    /\ AtE(v, "output") => encoder[v] # NoFrame /\ ~ is_geted_codec_stream[v]
    /\ AtE(v, "push") /\ is_geted_codec_stream[v] => bitstream[v] # NoFrame
    /\ pushed[v] # NoFrame => AtE(v, "release")

StreamType ==
    /\ frames \in 0 .. MaxFrames /\ {packet, image, source} \subseteq Contents
    /\ decoder \in Lists(Frames)
    /\ encReady \in [Vencs -> Lists(Frames)]
    /\ encoder \in [Vencs -> Contents] /\ eframe \in [Vencs -> Contents]
    /\ bitstream \in [Vencs -> Contents] /\ pushed \in [Vencs -> Contents]
    /\ epc \in [Vencs -> {"head", "get", "input", "output", "push", "release", "finish"}]
    /\ is_geted_codec_stream \in [Vencs -> BOOLEAN]

\* The same of vdec and vflow; src_img holds vflow's frame when it is sent.
HandInv ==
    /\ stage = "off" => packet = NoFrame
    /\ call[vdec] \in {"start", "create"} => dpc = "open"
    /\ AtD("input") => packet # NoFrame
    /\ AtV("copy") \/ AtV("send") => image # NoFrame
    /\ AtV("send") => source = image
    /\ vseBusy => source # NoFrame

StreamInv ==
    /\ StreamType
    /\ HandInv
    /\ \A v \in Vencs : VencInv(v)

LEMMA FlowTypes ==
    ASSUME NEW v \in Vencs
    PROVE  StreamInv =>
             /\ ToPush(v) \in Lists(Frames) /\ OneOf(encoder[v]) \in Lists(Frames)
             /\ InVenc(v) \in Lists(Frames) /\ Encoded(v) \in Lists(Frames)
             /\ encReady[v] \in Lists(Frames) /\ Scaled(v) \in Lists(Frames)
             /\ InVse \in Lists(Frames) /\ InVflow \in Lists(Frames)
             /\ Shown(v) \in Lists(Frames) /\ decoder \in Lists(Frames)
             /\ OneOf(packet) \in Lists(Frames)
  <1> SUFFICES ASSUME StreamInv  PROVE
             /\ ToPush(v) \in Lists(Frames) /\ OneOf(encoder[v]) \in Lists(Frames)
             /\ InVenc(v) \in Lists(Frames) /\ Encoded(v) \in Lists(Frames)
             /\ encReady[v] \in Lists(Frames) /\ Scaled(v) \in Lists(Frames)
             /\ InVse \in Lists(Frames) /\ InVflow \in Lists(Frames)
             /\ Shown(v) \in Lists(Frames) /\ decoder \in Lists(Frames)
             /\ OneOf(packet) \in Lists(Frames)
    OBVIOUS
  <1> USE DEF StreamInv, VencInv, StreamType, HandInv
  <1>1. /\ \A x \in Frames : Single(x) \in Lists(Frames)
        /\ None \in Lists(Frames)
    BY OneList, EmptySeq DEF Single, None, Lists
  <1>2. ToPush(v) \in Lists(Frames) /\ OneOf(encoder[v]) \in Lists(Frames)
        /\ InVenc(v) \in Lists(Frames)
    BY <1>1 DEF ToPush, OneOf, InVenc, Contents
  <1>3. InVse \in Lists(Frames) /\ InVflow \in Lists(Frames) /\ OneOf(packet) \in Lists(Frames)
    BY <1>1 DEF InVse, InVflow, OneOf, Contents
  <1>4. Encoded(v) \in Lists(Frames)
    BY <1>2, CatType DEF Encoded
  <1>5. Scaled(v) \in Lists(Frames)
    BY <1>4, CatType DEF Scaled
  <1>6. Shown(v) \in Lists(Frames)
    BY <1>3, <1>5, CatType DEF Shown
  <1> QED  BY <1>2, <1>3, <1>4, <1>5, <1>6

\* A thread enters its loop by its creation only, and leaves it by itself.
LEMMA OwnerMoves ==
    ASSUME ThreadInv, NEW u \in Workers, NEW w \in Workers, OwnerInside(u)
    PROVE  /\ worker'[w] = "loop" => worker[w] = "loop" \/ call[w] = "create"
           /\ worker[w] = "loop" => worker'[w] = "loop"
           /\ call'[w] \in {"start", "create"} => call[w] \in {"start", "create"}
  BY DEF OwnerInside, OwnerStep, StartMark, CreateOk, CreateFails, StopMark, StopKill, StopJoin,
     StopPoll, StopEnd, StopSleep, threadVars, ThreadInv, ThreadTypeOK

LEMMA StreamTypeNext == StreamInv /\ [BoxNext]_vars => StreamType'
  <1> SUFFICES ASSUME StreamInv, [BoxNext]_vars  PROVE StreamType'
    OBVIOUS
  <1> USE DEF StreamInv, StreamType
  <1>k. ASSUME UNCHANGED <<frames, packet, image, source, decoder, encReady, encoder, eframe,
                           bitstream, pushed, epc, is_geted_codec_stream>>
        PROVE  StreamType'
    BY <1>k
  <1>0. NoFrame \in Contents /\ << >> \in Lists(Frames)
    BY EmptySeq DEF Contents, Lists
  <1>1. CASE BoxStart \/ BoxUninit
    BY <1>0, <1>1 DEF BoxStart, BoxUninit, Fresh, decoding, flowing
  <1>2. CASE StartVdec \/ StartVflow
    BY <1>0, <1>2 DEF StartVdec, StartVflow, decoding, flowing, vse, encoding
  <1>3. ASSUME NEW v \in Vencs, StartVenc(v)  PROVE StreamType'
    BY <1>0, <1>3 DEF StartVenc, decoding, flowing, vse
  <1>4. CASE BoxStop \/ Started \/ StopGoesOn \/ \E w \in Workers : OwnerInside(w)
    BY <1>4, <1>k DEF BoxStop, Started, StopGoesOn, StopThread, Stopped, OwnerInside, decoding,
       flowing, vse, encoding
  <1>5. CASE VdecRead
    BY <1>5, BoxAssumption DEF VdecRead, flowing, vse, encoding, Contents, Frames
  <1>6. CASE VdecInput
    <2>1. packet \in Frames
      BY <1>6 DEF VdecInput, HandInv, Contents
    <2>2. Append(decoder, packet) \in Lists(Frames)
      BY <2>1 DEF Lists
    <2> QED  BY <1>0, <1>6, <2>2 DEF VdecInput, flowing, vse, encoding
  <1>7. CASE \/ OpenOk \/ OpenRetry \/ OpenGivesUp \/ VdecHead \/ VdecReadFails \/ VdecHeader
             \/ VdecGivesUp \/ VdecFinish
    BY <1>7, <1>k DEF OpenOk, OpenRetry, OpenGivesUp, VdecHead, VdecReadFails, VdecHeader,
       VdecGivesUp, VdecFinish, decoding, flowing, vse, encoding
  <1>8. CASE VflowDecode \/ VflowDecodeFails
    <2>1. decoder # << >> => Head(decoder) \in Frames /\ Tail(decoder) \in Lists(Frames)
      BY HeadFirst DEF Lists
    <2> QED  BY <1>8, <2>1 DEF VflowDecode, VflowDecodeFails, decoding, vse, encoding, Contents
  <1>9. CASE \/ VflowHead \/ VflowCopy \/ VflowSend \/ VflowGet \/ VflowGetFails \/ VflowRelease
             \/ VflowGivesUp \/ VflowFinish
    BY <1>0, <1>9 DEF VflowHead, VflowCopy, VflowSend, VflowGet, VflowGetFails, VflowRelease,
       VflowGivesUp, VflowFinish, decoding, flowing, vse, encoding
  <1>10. CASE VseDone
    <2>1. source \in Frames
      BY <1>10 DEF VseDone, HandInv, Contents
    <2>2. \A v \in Vencs : Append(encReady[v], source) \in Lists(Frames)
      BY <2>1 DEF Lists
    <2> QED  BY <1>10, <2>2 DEF VseDone, decoding, flowing, encoding
  <1>11. ASSUME NEW v \in Vencs, Venc(v)  PROVE StreamType'
    <2>1. encReady[v] # << >> =>
            Head(encReady[v]) \in Contents /\ Tail(encReady[v]) \in Lists(Frames)
      BY HeadFirst DEF Lists, Contents
    <2>2. CASE VencGet(v)
      BY <2>1, <2>2 DEF VencGet, GotoE, decoding, flowing
    <2>3. CASE VencInput(v) \/ VencOutput(v) \/ VencPush(v) \/ VencRelease(v)
      <3>1. CASE VencInput(v)
        BY <3>1 DEF VencInput, GotoE, decoding, flowing, vse
      <3>2. CASE VencOutput(v)
        BY <1>0, <3>2 DEF VencOutput, GotoE, decoding, flowing, vse
      <3>3. CASE VencPush(v)
        BY <3>3 DEF VencPush, GotoE, decoding, flowing, vse
      <3>4. CASE VencRelease(v)
        BY <1>0, <3>4 DEF VencRelease, GotoE, decoding, flowing, vse
      <3> QED  BY <2>3, <3>1, <3>2, <3>3, <3>4
    <2>4. CASE VencHead(v) \/ VencGetFails(v) \/ VencOutputStopped(v)
      BY <2>4 DEF VencHead, VencGetFails, VencOutputStopped, GotoE, decoding, flowing, vse
    <2>5. CASE VencOutputTimeout(v) \/ VencExit(v) \/ VencFinish(v)
      BY <1>k, <2>5 DEF VencOutputTimeout, VencExit, VencFinish, decoding, flowing, vse,
         encoding, vars
    <2> QED  BY <1>11, <2>2, <2>3, <2>4, <2>5 DEF Venc
  <1>12. CASE UNCHANGED vars
    BY <1>12, <1>k DEF vars, decoding, flowing, vse, encoding
  <1> QED
    BY <1>1, <1>2, <1>3, <1>4, <1>5, <1>6, <1>7, <1>8, <1>9, <1>10, <1>11, <1>12
    DEF BoxNext, Owner, Vdec, Vflow

LEMMA HandNext == BoxInv /\ StreamInv /\ [BoxNext]_vars => HandInv'
  <1> SUFFICES ASSUME BoxInv, StreamInv, [BoxNext]_vars  PROVE HandInv'
    OBVIOUS
  <1> USE DEF AtD, AtV
  <1>0. /\ vdec \in Workers /\ vflow \in Workers /\ vdec # vflow /\ vdec \notin Vencs
        /\ vflow \notin Vencs /\ worker \in [Workers -> WorkerStates]
        /\ call \in [Workers -> Calls]
    BY BoxAssumption DEF BoxInv, ThreadInv, ThreadTypeOK
  <1>1. stage \in {"off", "stopped"} => worker[vdec] # "loop" /\ worker[vflow] # "loop"
    BY <1>0, FreedQuiet DEF FreedWhenQuiet, Quiet
  <1>k. ASSUME UNCHANGED <<packet, image, source, dpc, vpc>>,
               stage' = "off" => stage = "off",
               vseBusy' => vseBusy,
               \A w \in {vdec, vflow} : call'[w] \in {"start", "create"} =>
                                          call[w] \in {"start", "create"},
               worker'[vdec] = "loop" => worker[vdec] = "loop" \/ dpc = "open",
               worker'[vflow] = "loop" => worker[vflow] = "loop" \/ vpc = "head"
        PROVE  HandInv'
    BY <1>k DEF StreamInv, HandInv
  <1>2. CASE BoxStart \/ BoxUninit
    BY <1>1, <1>2 DEF BoxStart, BoxUninit, Fresh, threadVars, decoding, flowing, StreamInv,
       HandInv
  <1>3. CASE StartVdec
    BY <1>0, <1>3 DEF StartVdec, StartCall, flowing, vse, StreamInv, HandInv
  <1>4. CASE StartVflow
    <2>1. ~ vseBusy /\ worker[vflow] # "loop"
      BY <1>0, <1>4 DEF StartVflow, BoxInv, FlowInv, Clear, StageInv, Idle, ThreadInv, Lifecycle,
         RunningIsStarted, Quiet
    <2> QED  BY <1>0, <1>4, <2>1 DEF StartVflow, StartCall, decoding, vse, StreamInv, HandInv
  <1>5. ASSUME NEW v \in Vencs, StartVenc(v)  PROVE HandInv'
    BY <1>0, <1>5, <1>k DEF StartVenc, StartCall, decoding, flowing, vse
  <1>6. ASSUME NEW w \in Workers, StopThread(w)  PROVE HandInv'
    BY <1>0, <1>6, <1>k DEF StopThread, StopCall, decoding, flowing, vse
  <1>7. CASE BoxStop \/ Started \/ Stopped
    BY <1>7, <1>k DEF BoxStop, Started, Stopped, threadVars, decoding, flowing, vse
  <1>8. ASSUME NEW w \in Workers, OwnerInside(w)  PROVE HandInv'
    <2>1. UNCHANGED <<stage, packet, image, source, dpc, vpc, vseBusy>>
      BY <1>8 DEF OwnerInside, decoding, flowing, vse
    <2> QED  BY <1>0, <1>8, <1>k, <2>1, OwnerMoves DEF BoxInv, FlowInv, StreamInv, HandInv
  <1>9. CASE Vdec
    <2>1. UNCHANGED <<stage, call, image, source, vpc, vseBusy>> /\ worker'[vflow] = worker[vflow]
      <3>1. UNCHANGED <<stage, call>>
        BY <1>9, OwnerWaits
      <3> QED  BY <1>0, <1>9, <3>1 DEF Vdec, OpenOk, OpenRetry, OpenGivesUp, VdecHead, VdecRead,
               VdecReadFails, VdecHeader, VdecInput, VdecGivesUp, VdecFinish, GivesUp, BreakLoop,
               LeaveLoop, FinishMark, FinishExit, threadVars, flowing, vse
    <2>2. /\ stage' = "off" => packet' = NoFrame
          /\ worker'[vdec] = "loop" /\ dpc' = "input" => packet' # NoFrame
          /\ call'[vdec] \in {"start", "create"} => dpc' = "open"
      <3>1. worker[vdec] # "loop" => UNCHANGED <<dpc, packet>> /\ worker'[vdec] # "loop"
        BY <1>0, <1>9 DEF Vdec, OpenOk, OpenRetry, OpenGivesUp, VdecHead, VdecRead,
           VdecReadFails, VdecHeader, VdecInput, VdecGivesUp, VdecFinish, GivesUp, BreakLoop,
           LeaveLoop, FinishMark, FinishExit, threadVars, decoding
      <3>2. worker[vdec] = "loop" => stage # "off" /\ call[vdec] \notin {"start", "create"}
        BY <1>0, <1>1 DEF BoxInv, ThreadInv, Lifecycle, CallAgrees, RunningIsStarted, Quiet
      <3>3. CASE VdecRead
        BY <2>1, <3>2, <3>3 DEF VdecRead, StreamInv, StreamType, Frames, NoFrame
      <3>4. CASE \/ OpenOk \/ OpenRetry \/ OpenGivesUp \/ VdecHead \/ VdecReadFails \/ VdecHeader
                 \/ VdecInput \/ VdecGivesUp
        BY <2>1, <3>1, <3>2, <3>4 DEF OpenOk, OpenRetry, OpenGivesUp, VdecHead,
           VdecReadFails, VdecHeader, VdecInput, VdecGivesUp, StreamInv, HandInv
      <3>5. CASE VdecFinish
        BY <1>0, <2>1, <3>5 DEF VdecFinish, FinishMark, FinishExit, decoding, StreamInv, HandInv
      <3> QED  BY <1>9, <3>3, <3>4, <3>5 DEF Vdec
    <2> QED  BY <2>1, <2>2 DEF StreamInv, HandInv
  <1>10. CASE Vflow
    <2>1. UNCHANGED <<stage, call, packet, dpc>> /\ worker'[vdec] = worker[vdec]
      <3>1. UNCHANGED <<stage, call>>
        BY <1>10, OwnerWaits
      <3> QED  BY <1>0, <1>10, <3>1 DEF Vflow, VflowHead, VflowDecode, VflowDecodeFails, VflowCopy,
               VflowSend, VflowGet, VflowGetFails, VflowRelease, VflowGivesUp, VflowFinish,
               GivesUp, BreakLoop, LeaveLoop, FinishMark, FinishExit, threadVars, decoding
    <2>2. /\ worker'[vflow] = "loop" /\ vpc' \in {"copy", "send"} => image' # NoFrame
          /\ worker'[vflow] = "loop" /\ vpc' = "send" => source' = image'
          /\ vseBusy' => source' # NoFrame
      <3>1. CASE VflowDecode
        <4>1. Head(decoder) # NoFrame
          <5>1. decoder \in Seq(Frames) /\ decoder # << >>
            BY <3>1 DEF VflowDecode, StreamInv, StreamType, Lists
          <5>2. Head(decoder) \in Frames
            BY <5>1, HeadFirst
          <5> QED  BY <5>2 DEF Frames, NoFrame
        <4> QED  BY <3>1, <4>1 DEF VflowDecode, vse, StreamInv, HandInv
      <3>2. CASE VflowCopy \/ VflowSend
        BY <3>2 DEF VflowCopy, VflowSend, vse, StreamInv, HandInv
      <3>3. CASE VflowHead \/ VflowDecodeFails \/ VflowGet \/ VflowGetFails \/ VflowRelease \/ VflowGivesUp
        BY <3>3 DEF VflowHead, VflowDecodeFails, VflowGet, VflowGetFails, VflowRelease,
           VflowGivesUp, vse, StreamInv, HandInv
      <3>4. CASE VflowFinish
        BY <1>0, <3>4 DEF VflowFinish, FinishMark, FinishExit, flowing, vse, StreamInv, HandInv
      <3> QED  BY <1>10, <3>1, <3>2, <3>3, <3>4 DEF Vflow
    <2> QED  BY <2>1, <2>2 DEF StreamInv, HandInv
  <1>11. CASE VseDone
    BY <1>11, <1>k DEF VseDone, threadVars, decoding, flowing
  <1>12. ASSUME NEW v \in Vencs, Venc(v)  PROVE HandInv'
    <2>1. UNCHANGED <<stage, call>>
      BY <1>12, OwnerWaits
    <2>2. /\ UNCHANGED <<packet, image, source, dpc, vpc, vseBusy>>
          /\ worker'[vdec] = worker[vdec] /\ worker'[vflow] = worker[vflow]
      BY <1>0, <1>12 DEF Venc, VencHead, VencGet, VencGetFails, VencInput, VencOutput,
         VencOutputTimeout, VencOutputStopped, VencPush, VencRelease, VencExit, VencFinish,
         LeaveLoop, FinishMark, FinishExit, threadVars, vars, decoding, flowing, vse
    <2> QED  BY <1>k, <2>1, <2>2
  <1>13. CASE UNCHANGED vars
    BY <1>13, <1>k DEF vars, threadVars, decoding, flowing, vse
  <1> QED
    BY <1>2, <1>3, <1>4, <1>5, <1>6, <1>7, <1>8, <1>9, <1>10, <1>11, <1>12, <1>13
    DEF BoxNext, Owner, StopGoesOn

LEMMA VencNext ==
    ASSUME BoxInv, StreamInv, [BoxNext]_vars, NEW v \in Vencs
    PROVE  VencInv(v)'
  <1> USE DEF AtE
  <1>0. /\ v \in Workers /\ v # vdec /\ v # vflow
        /\ worker \in [Workers -> WorkerStates] /\ call \in [Workers -> Calls]
    BY BoxAssumption DEF BoxInv, ThreadInv, ThreadTypeOK
  <1>t. /\ encoder \in [Vencs -> Contents] /\ eframe \in [Vencs -> Contents]
        /\ bitstream \in [Vencs -> Contents] /\ pushed \in [Vencs -> Contents]
        /\ epc \in [Vencs -> {"head", "get", "input", "output", "push", "release", "finish"}]
        /\ is_geted_codec_stream \in [Vencs -> BOOLEAN] /\ VencInv(v)
        /\ encReady \in [Vencs -> Lists(Frames)]
    BY DEF StreamInv, StreamType
  <1>k. ASSUME epc'[v] = epc[v], eframe'[v] = eframe[v], encoder'[v] = encoder[v],
               bitstream'[v] = bitstream[v], pushed'[v] = pushed[v],
               is_geted_codec_stream'[v] = is_geted_codec_stream[v],
               call'[v] \in {"start", "create"} => call[v] \in {"start", "create"},
               worker'[v] = "loop" => worker[v] = "loop" \/ call[v] = "create",
               worker[v] = "loop" => worker'[v] = "loop"
        PROVE  VencInv(v)'
    BY <1>k, <1>t DEF VencInv
  <1>1. CASE BoxStart \/ BoxUninit
    <2>1. worker[v] # "loop"
      BY <1>0, <1>1, FreedQuiet DEF BoxStart, BoxUninit, FreedWhenQuiet, Quiet
    <2> QED  BY <1>1, <1>t, <2>1 DEF BoxStart, BoxUninit, Fresh, threadVars, VencInv
  <1>2. CASE StartVdec \/ StartVflow \/ \E u \in Vencs : u # v /\ StartVenc(u)
    <2>1. ASSUME NEW w \in Workers, w # v, StartCall(w)
          PROVE  worker' = worker /\ call'[v] = call[v]
      BY <1>0, <2>1 DEF StartCall
    <2>2. worker' = worker /\ call'[v] = call[v]
      BY <1>0, <1>2, <2>1, BoxAssumption DEF StartVdec, StartVflow, StartVenc
    <2>3. CASE StartVdec \/ StartVflow
      BY <1>k, <2>2, <2>3 DEF StartVdec, StartVflow, encoding
    <2>4. ASSUME NEW u \in Vencs, u # v, StartVenc(u)  PROVE VencInv(v)'
      BY <1>k, <1>t, <2>2, <2>4 DEF StartVenc
    <2> QED  BY <1>2, <2>3, <2>4
  <1>3. CASE StartVenc(v)
    <2>1. worker[v] # "loop"
      BY <1>0, <1>3 DEF StartVenc, BoxInv, StageInv, Idle, ThreadInv, Lifecycle, RunningIsStarted,
         Quiet
    <2> QED  BY <1>3, <1>t, <2>1 DEF StartVenc, StartCall, VencInv
  <1>4. ASSUME NEW w \in Workers, StopThread(w)  PROVE VencInv(v)'
    BY <1>0, <1>4, <1>k DEF StopThread, StopCall, encoding
  <1>5. CASE BoxStop \/ Started \/ Stopped
    BY <1>5, <1>k DEF BoxStop, Started, Stopped, threadVars, encoding
  <1>6. ASSUME NEW w \in Workers, OwnerInside(w)  PROVE VencInv(v)'
    <2>1. UNCHANGED encoding
      BY <1>6 DEF OwnerInside
    <2> QED  BY <1>0, <1>6, <1>k, <2>1, OwnerMoves DEF BoxInv, encoding
  <1>7. CASE Vdec \/ Vflow \/ VseDone
    <2>1. UNCHANGED encoding /\ worker'[v] = worker[v]
      <3>1. CASE Vdec
        BY <1>0, <3>1 DEF Vdec, OpenOk, OpenRetry, OpenGivesUp, VdecHead, VdecRead, VdecReadFails,
           VdecHeader, VdecInput, VdecGivesUp, VdecFinish, GivesUp, BreakLoop, LeaveLoop,
           FinishMark, FinishExit, threadVars
      <3>2. CASE Vflow \/ VseDone
        BY <1>0, <3>2 DEF Vflow, VflowHead, VflowDecode, VflowDecodeFails, VflowCopy, VflowSend,
           VseDone, VflowGet, VflowGetFails, VflowRelease, VflowGivesUp, VflowFinish, GivesUp,
           BreakLoop, LeaveLoop, FinishMark, FinishExit, threadVars
      <3> QED  BY <1>7, <3>1, <3>2
    <2>2. UNCHANGED call
      BY <1>7, OwnerWaits
    <2> QED  BY <1>k, <2>1, <2>2 DEF encoding
  <1>8. ASSUME NEW u \in Vencs, Venc(u), u # v  PROVE VencInv(v)'
    <2>1. UNCHANGED call
      BY <1>8, OwnerWaits
    <2>2. u \in Workers
      BY BoxAssumption
    <2>3. worker'[v] = worker[v] /\ epc'[v] = epc[v]
      BY <1>0, <1>8, <1>t, <2>2 DEF Venc, VencHead, VencGet, VencGetFails, VencInput, VencOutput,
         VencOutputTimeout, VencOutputStopped, VencPush, VencRelease, VencExit, VencFinish,
         GotoE, LeaveLoop, FinishMark, FinishExit, threadVars, vars, encoding
    <2>4. /\ eframe'[v] = eframe[v] /\ encoder'[v] = encoder[v] /\ bitstream'[v] = bitstream[v]
          /\ pushed'[v] = pushed[v] /\ is_geted_codec_stream'[v] = is_geted_codec_stream[v]
      BY <1>8, <1>t DEF Venc, VencHead, VencGet, VencGetFails, VencInput, VencOutput,
         VencOutputTimeout, VencOutputStopped, VencPush, VencRelease, VencExit, VencFinish,
         vars, encoding
    <2> QED  BY <1>k, <2>1, <2>3, <2>4
  <1>9. CASE Venc(v)
    <2>1. UNCHANGED call
      BY <1>9, OwnerWaits
    <2>2. worker[v] = "loop" => call[v] \notin {"start", "create"}
      BY <1>0 DEF BoxInv, ThreadInv, Lifecycle, CallAgrees, RunningIsStarted, Quiet
    <2>3. CASE VencHead(v)
      BY <1>t, <2>1, <2>2, <2>3 DEF VencHead, GotoE, VencInv
    <2>4. CASE VencGet(v)
      <3>1. encReady[v] \in Seq(Frames) /\ encReady[v] # << >>
        BY <1>t, <2>4 DEF VencGet, Lists
      <3>2. Head(encReady[v]) \in Frames
        BY <3>1, HeadFirst
      <3>3. Head(encReady[v]) # NoFrame
        BY <3>2 DEF Frames, NoFrame
      <3> QED  BY <1>t, <2>1, <2>2, <2>4, <3>3 DEF VencGet, GotoE, VencInv
    <2>5. CASE VencGetFails(v) \/ VencInput(v) \/ VencOutput(v) \/ VencOutputStopped(v)
      BY <1>t, <2>1, <2>2, <2>5 DEF VencGetFails, VencInput, VencOutput, VencOutputStopped, GotoE,
         VencInv
    <2>6. CASE VencPush(v) \/ VencRelease(v)
      BY <1>t, <2>1, <2>2, <2>6 DEF VencPush, VencRelease, GotoE, threadVars, VencInv
    <2>7. CASE VencOutputTimeout(v) \/ VencExit(v)
      BY <1>k, <2>7 DEF VencOutputTimeout, VencExit, threadVars, vars, encoding
    <2>8. CASE VencFinish(v)
      BY <1>0, <1>t, <2>1, <2>8 DEF VencFinish, FinishMark, FinishExit, encoding, VencInv
    <2> QED  BY <1>9, <2>3, <2>4, <2>5, <2>6, <2>7, <2>8 DEF Venc
  <1>10. CASE UNCHANGED vars
    BY <1>10, <1>k DEF vars, threadVars, encoding
  <1> QED
    BY <1>1, <1>2, <1>3, <1>4, <1>5, <1>6, <1>7, <1>8, <1>9, <1>10
    DEF BoxNext, Owner, StopGoesOn

LEMMA StreamInvHolds == BoxSpec => []StreamInv
  <1>1. BoxInit => StreamInv
    <2> SUFFICES ASSUME BoxInit  PROVE StreamInv
      OBVIOUS
    <2>1. NoFrame \in Contents /\ << >> \in Lists(Frames)
      BY EmptySeq DEF Contents, Lists
    <2>2. StreamType
      BY <2>1, BoxAssumption DEF BoxInit, StreamType
    <2>3. ASSUME NEW w \in Workers  PROVE worker[w] = "absent" /\ call[w] = "none"
      BY DEF BoxInit, ThreadInit
    <2>4. HandInv
      BY <2>3, BoxAssumption DEF BoxInit, HandInv, AtD, AtV
    <2>5. ASSUME NEW v \in Vencs  PROVE VencInv(v)
      BY <2>3, BoxAssumption DEF BoxInit, VencInv, AtE
    <2> QED  BY <2>2, <2>4, <2>5 DEF StreamInv
  <1>2. BoxInv /\ StreamInv /\ [BoxNext]_vars => StreamInv'
    BY StreamTypeNext, HandNext, VencNext DEF StreamInv
  <1> QED  BY <1>1, <1>2, BoxInvariant, PTL DEF BoxSpec

\* What a step does to the channel of stream v.
Keeps(v) == Flow(v)' = Flow(v) /\ pushed'[v] = pushed[v]
Puts(v) == pushed'[v] = pushed[v] /\ \E x \in Frames : Flow(v)' = Put(Flow(v), x)
Loses(v) == pushed'[v] = pushed[v] /\ Without(Flow(v), Flow(v)')
Clears(v) == pushed'[v] = pushed[v] /\ Flow(v)' = None
Receives(v) == pushed[v] = NoFrame /\ Starts(Flow(v), pushed'[v], Flow(v)')
Finishes(v) == pushed'[v] = NoFrame /\ Flow(v)' = Flow(v)

\* A frame is lost although others come behind it.
LEMMA BehindShown ==
    ASSUME NEW v \in Vencs, StreamInv, StreamInv', Without(Shown(v), Shown(v)'),
           decoder' = decoder, packet' = packet
    PROVE  Without(Flow(v), Flow(v)')
  <1> DEFINE a == Shown(v)
             c == Shown(v)'
             d == decoder
             p == OneOf(packet)
  <1>1. (StreamInv => Shown(v) \in Lists(Frames))'
    BY FlowTypes, PTL
  <1>2. /\ a \in Lists(Frames) /\ c \in Lists(Frames) /\ d \in Lists(Frames)
        /\ p \in Lists(Frames) /\ Without(a, c)
    BY <1>1, FlowTypes
  <1>3. Flow(v) = Cat(Cat(a, d), p) /\ Flow(v)' = Cat(Cat(c, d), p)
    BY DEF Flow, OneOf
  <1> HIDE DEF a, c, d, p
  <1>4. Cat(a, d) \in Lists(Frames) /\ Cat(c, d) \in Lists(Frames)
    BY <1>2, CatType
  <1>5. Without(Cat(a, d), Cat(c, d))
    BY <1>2, WithoutCat
  <1>6. Without(Cat(Cat(a, d), p), Cat(Cat(c, d), p))
    BY <1>2, <1>4, <1>5, WithoutCat
  <1> QED  BY <1>3, <1>6

LEMMA BehindEncoded ==
    ASSUME NEW v \in Vencs, StreamInv, StreamInv', Without(Encoded(v), Encoded(v)'),
           encReady'[v] = encReady[v], InVse' = InVse, InVflow' = InVflow,
           decoder' = decoder, packet' = packet
    PROVE  Without(Flow(v), Flow(v)')
  <1> DEFINE a == Encoded(v)
             c == Encoded(v)'
             r == encReady[v]
             s == InVse
             f == InVflow
  <1>1. (StreamInv => Encoded(v) \in Lists(Frames))'
    BY FlowTypes, PTL
  <1>2. /\ a \in Lists(Frames) /\ c \in Lists(Frames) /\ r \in Lists(Frames)
        /\ s \in Lists(Frames) /\ f \in Lists(Frames) /\ Without(a, c)
    BY <1>1, FlowTypes
  <1>3. Shown(v) = Cat(Cat(Cat(a, r), s), f) /\ Shown(v)' = Cat(Cat(Cat(c, r), s), f)
    BY DEF Shown, Scaled
  <1> HIDE DEF a, c, r, s, f
  <1>4. Cat(a, r) \in Lists(Frames) /\ Cat(c, r) \in Lists(Frames)
    BY <1>2, CatType
  <1>5. Cat(Cat(a, r), s) \in Lists(Frames) /\ Cat(Cat(c, r), s) \in Lists(Frames)
    BY <1>2, <1>4, CatType
  <1>6. Without(Cat(a, r), Cat(c, r))
    BY <1>2, WithoutCat
  <1>7. Without(Cat(Cat(a, r), s), Cat(Cat(c, r), s))
    BY <1>2, <1>4, <1>6, WithoutCat
  <1>8. Without(Cat(Cat(Cat(a, r), s), f), Cat(Cat(Cat(c, r), s), f))
    BY <1>2, <1>5, <1>7, WithoutCat
  <1> QED  BY <1>3, <1>8, BehindShown

\* The first frame is received although others come behind it.
LEMMA BehindFirst ==
    ASSUME NEW v \in Vencs, StreamInv, NEW x \in Frames,
           ToPush(v) = Single(x), ToPush(v)' = None,
           UNCHANGED <<encoder, InVenc(v), encReady, InVse, InVflow, decoder, packet>>
    PROVE  Starts(Flow(v), x, Flow(v)')
  <1> DEFINE a == ToPush(v)
             e == OneOf(encoder[v])
             i == InVenc(v)
             r == encReady[v]
             s == InVse
             f == InVflow
             d == decoder
             p == OneOf(packet)
  <1>1. /\ a \in Lists(Frames) /\ e \in Lists(Frames) /\ i \in Lists(Frames)
        /\ r \in Lists(Frames) /\ s \in Lists(Frames) /\ f \in Lists(Frames)
        /\ d \in Lists(Frames) /\ p \in Lists(Frames)
    BY FlowTypes
  <1>2. /\ Flow(v) = Cat(Cat(Cat(Cat(Cat(Cat(Cat(a, e), i), r), s), f), d), p)
        /\ Flow(v)' = Cat(Cat(Cat(Cat(Cat(Cat(Cat(None, e), i), r), s), f), d), p)
    BY DEF Flow, Shown, Scaled, Encoded, OneOf
  <1>3. Starts(a, x, None)
    BY StartsOne
  <1> HIDE DEF a, e, i, r, s, f, d, p
  <1>4. Cat(a, e) \in Lists(Frames) /\ Starts(Cat(a, e), x, Cat(None, e))
    BY <1>1, <1>3, CatType, StartsCat
  <1> DEFINE a1 == Cat(a, e)
             c1 == Cat(None, e)
  <1> HIDE DEF a1, c1
  <1>5. Cat(a1, i) \in Lists(Frames) /\ Starts(Cat(a1, i), x, Cat(c1, i))
    BY <1>1, <1>4, CatType, StartsCat DEF a1, c1
  <1> DEFINE a2 == Cat(a1, i)
             c2 == Cat(c1, i)
  <1> HIDE DEF a2, c2
  <1>6. Cat(a2, r) \in Lists(Frames) /\ Starts(Cat(a2, r), x, Cat(c2, r))
    BY <1>1, <1>5, CatType, StartsCat DEF a2, c2
  <1> DEFINE a3 == Cat(a2, r)
             c3 == Cat(c2, r)
  <1> HIDE DEF a3, c3
  <1>7. Cat(a3, s) \in Lists(Frames) /\ Starts(Cat(a3, s), x, Cat(c3, s))
    BY <1>1, <1>6, CatType, StartsCat DEF a3, c3
  <1> DEFINE a4 == Cat(a3, s)
             c4 == Cat(c3, s)
  <1> HIDE DEF a4, c4
  <1>8. Cat(a4, f) \in Lists(Frames) /\ Starts(Cat(a4, f), x, Cat(c4, f))
    BY <1>1, <1>7, CatType, StartsCat DEF a4, c4
  <1> DEFINE a5 == Cat(a4, f)
             c5 == Cat(c4, f)
  <1> HIDE DEF a5, c5
  <1>9. Cat(a5, d) \in Lists(Frames) /\ Starts(Cat(a5, d), x, Cat(c5, d))
    BY <1>1, <1>8, CatType, StartsCat DEF a5, c5
  <1> DEFINE a6 == Cat(a5, d)
             c6 == Cat(c5, d)
  <1> HIDE DEF a6, c6
  <1>10. Starts(Cat(a6, p), x, Cat(c6, p))
    BY <1>1, <1>9, StartsCat DEF a6, c6
  <1> QED  BY <1>2, <1>10 DEF a1, a2, a3, a4, a5, a6, c1, c2, c3, c4, c5, c6

\* What is on its way is the same when no hand and no buffer changes.
LEMMA StreamKept ==
    ASSUME NEW v \in Vencs,
           UNCHANGED <<ToPush(v), InVenc(v), InVse, InVflow, decoder, packet>>,
           encoder'[v] = encoder[v], encReady'[v] = encReady[v]
    PROVE  Flow(v)' = Flow(v)
  BY DEF Flow, Shown, Scaled, Encoded, OneOf

\* Only the thread of a hand, or its start, changes it.
LEMMA HandsKept ==
    ASSUME NEW v \in Vencs,
           worker'[v] = worker[v], epc'[v] = epc[v], eframe'[v] = eframe[v],
           bitstream'[v] = bitstream[v], is_geted_codec_stream'[v] = is_geted_codec_stream[v]
    PROVE  ToPush(v)' = ToPush(v) /\ InVenc(v)' = InVenc(v)
  BY DEF ToPush, InVenc, AtE

\* The steps of vdec.
LEMMA VdecFlow ==
    ASSUME NEW v \in Vencs, BoxInv, StreamInv, Vdec
    PROVE  Keeps(v) \/ Puts(v) \/ Loses(v)
  <1>0. /\ v \in Workers /\ v # vdec /\ vdec \in Workers /\ vflow \in Workers /\ vdec # vflow
        /\ worker \in [Workers -> WorkerStates]
    BY BoxAssumption DEF BoxInv, ThreadInv, ThreadTypeOK
  <1>1. /\ UNCHANGED <<epc, eframe, encoder, bitstream, is_geted_codec_stream, pushed>>
        /\ UNCHANGED <<encReady, vseBusy, source, image, vpc>>
        /\ worker'[v] = worker[v] /\ worker'[vflow] = worker[vflow]
    BY <1>0 DEF Vdec, OpenOk, OpenRetry, OpenGivesUp, VdecHead, VdecRead, VdecReadFails,
       VdecHeader, VdecInput, VdecGivesUp, VdecFinish, GivesUp, BreakLoop, LeaveLoop,
       FinishMark, FinishExit, threadVars, flowing, vse, encoding
  <1>2. UNCHANGED <<ToPush(v), InVenc(v), InVse, InVflow>>
    BY <1>1, HandsKept DEF InVse, InVflow, AtV
  <1>3. Shown(v)' = Shown(v) /\ pushed'[v] = pushed[v]
    BY <1>1, <1>2 DEF Shown, Scaled, Encoded, OneOf
  <1> DEFINE a == Shown(v)
             b == Cat(Shown(v), decoder)
  <1>4. a \in Lists(Frames) /\ decoder \in Lists(Frames) /\ b \in Lists(Frames)
    BY FlowTypes, CatType
  <1>5. CASE VdecRead
    <2>1. CASE packet' = packet
      BY <1>1, <1>2, <1>5, <2>1, StreamKept DEF VdecRead, Keeps
    <2>2. CASE packet' # packet
      <3>1. packet = NoFrame /\ packet' \in Frames /\ packet' # NoFrame /\ decoder' = decoder
        BY <1>5, <2>2, BoxAssumption DEF VdecRead, StreamInv, StreamType, Frames, NoFrame
      <3>2. Flow(v) = Cat(b, None) /\ Flow(v)' = Cat(b, Single(packet'))
        BY <1>3, <3>1 DEF Flow, OneOf
      <3> DEFINE x == packet'
      <3> HIDE DEF a, b, x
      <3>3. Cat(b, None) = b /\ Cat(b, Single(x)) = Put(b, x)
        BY <1>4, <3>1, CatNone, CatOne DEF x
      <3>4. Flow(v)' = Put(Flow(v), x)
        BY <3>2, <3>3 DEF x
      <3> QED  BY <1>3, <3>1, <3>4 DEF Puts, x
    <2> QED  BY <2>1, <2>2
  <1>6. CASE VdecInput
    <2>1. packet \in Frames /\ packet # NoFrame /\ packet' = NoFrame
      BY <1>6 DEF VdecInput, StreamInv, StreamType, HandInv, Contents
    <2>2. Flow(v) = Cat(b, Single(packet)) /\ Flow(v)' = Cat(Cat(a, decoder'), None)
      BY <1>3, <2>1 DEF Flow, OneOf
    <2>3. CASE decoder' = decoder
      <3>1. Flow(v)' = Cat(b, None)
        BY <2>2, <2>3
      <3> HIDE DEF a, b
      <3>2. Cat(b, None) = b /\ Without(Cat(b, Single(packet)), b)
        BY <1>4, <2>1, CatNone, WithoutLast
      <3> QED  BY <1>3, <2>2, <3>1, <3>2 DEF Loses
    <2>4. CASE decoder' = Put(decoder, packet)
      <3> DEFINE d == decoder
                 x == packet
      <3>1. d \in Lists(Frames) /\ x \in Frames /\ decoder' = Put(d, x)
        BY <1>4, <2>1, <2>4
      <3>2. b = Cat(a, d)
        OBVIOUS
      <3> HIDE DEF a, b, d, x
      <3>3. Cat(Cat(a, d), Single(x)) = Cat(a, Put(d, x)) /\ Put(d, x) \in Lists(Frames)
        BY <1>4, <3>1, CatPut, CatOne
      <3>4. Cat(a, Put(d, x)) \in Lists(Frames)
        BY <1>4, <3>3, CatType
      <3>5. Cat(Cat(a, Put(d, x)), None) = Cat(a, Put(d, x))
        BY <3>4, CatNone
      <3> QED  BY <1>3, <2>2, <3>1, <3>2, <3>3, <3>5 DEF Keeps, x
    <2> QED  BY <1>6, <2>3, <2>4 DEF VdecInput, Put
  <1>7. CASE \/ OpenOk \/ OpenRetry \/ OpenGivesUp \/ VdecHead \/ VdecReadFails \/ VdecHeader
             \/ VdecGivesUp \/ VdecFinish
    <2>1. UNCHANGED <<packet, decoder>>
      BY <1>7 DEF OpenOk, OpenRetry, OpenGivesUp, VdecHead, VdecReadFails, VdecHeader,
         VdecGivesUp, VdecFinish, decoding
    <2> QED  BY <1>1, <1>2, <2>1, StreamKept DEF Keeps
  <1> QED  BY <1>5, <1>6, <1>7 DEF Vdec

\* The steps of vflow and the VSE.
LEMMA VflowFlow ==
    ASSUME NEW v \in Vencs, BoxInv, StreamInv, StreamInv', Vflow \/ VseDone
    PROVE  Keeps(v) \/ Loses(v)
  <1> USE DEF AtV
  <1>0. /\ v \in Workers /\ v # vflow /\ vflow \in Workers /\ worker \in [Workers -> WorkerStates]
    BY BoxAssumption DEF BoxInv, ThreadInv, ThreadTypeOK
  <1>1. /\ UNCHANGED <<epc, eframe, encoder, bitstream, is_geted_codec_stream, pushed, packet>>
        /\ worker'[v] = worker[v]
    BY <1>0 DEF Vflow, VflowHead, VflowDecode, VflowDecodeFails, VflowCopy, VflowSend,
       VseDone, VflowGet, VflowGetFails, VflowRelease, VflowGivesUp, VflowFinish, GivesUp,
       BreakLoop, LeaveLoop, FinishMark, FinishExit, threadVars, encoding, decoding
  <1>2. UNCHANGED <<ToPush(v), InVenc(v), Encoded(v)>> /\ pushed'[v] = pushed[v]
    BY <1>1, HandsKept DEF Encoded, OneOf
  <1>3. vpc # "get" /\ worker[vflow] = "loop" => ~ vseBusy
    BY DEF BoxInv, FlowInv, Clear
  <1> DEFINE a == Scaled(v)
             g == Cat(Scaled(v), InVse)
             s == Shown(v)
             d == decoder
             p == OneOf(packet)
  <1>4. /\ a \in Lists(Frames) /\ d \in Lists(Frames) /\ p \in Lists(Frames)
        /\ g \in Lists(Frames) /\ s \in Lists(Frames) /\ InVse \in Lists(Frames)
    BY FlowTypes, CatType
  <1>5. encReady' = encReady => a' = a
    BY <1>2 DEF Scaled
  <1>6. CASE VflowDecode
    <2>1. /\ d # None /\ image' = First(d) /\ d' = Rest(d) /\ encReady' = encReady
          /\ InVflow = None /\ InVflow' = Single(image') /\ InVse' = InVse
      BY <1>6 DEF VflowDecode, threadVars, vse, InVflow, InVse, None, First, Rest
    <2>2. g' = g
      BY <1>5, <2>1
    <2>3. /\ Flow(v) = Cat(Cat(Cat(g, None), d), p)
          /\ Flow(v)' = Cat(Cat(Cat(g, Single(First(d))), Rest(d)), p)
      BY <1>1, <2>1, <2>2 DEF Flow, Shown, OneOf
    <2> HIDE DEF g, d, p
    <2>4. Cat(g, None) = g /\ Cat(Cat(g, Single(First(d))), Rest(d)) = Cat(g, d)
      BY <1>4, <2>1, CatNone, CatFirst
    <2> QED  BY <1>2, <2>3, <2>4 DEF Keeps
  <1>7. CASE VflowDecodeFails
    <2>1. /\ encReady' = encReady /\ InVflow' = InVflow /\ InVse' = InVse
      BY <1>7 DEF VflowDecodeFails, threadVars, vse, InVflow, InVse
    <2>4. d' = d \/ (d # None /\ d' = Rest(d))
      <3>1. decoder' = decoder \/ decoder' = IF decoder # << >> THEN Tail(decoder) ELSE decoder
        BY <1>7 DEF VflowDecodeFails
      <3>2. decoder = << >> => d' = d
        BY <3>1
      <3>3. decoder # << >> => d' = d \/ d' = Tail(d)
        BY <3>1
      <3> QED  BY <3>2, <3>3 DEF None, Rest
    <2>2. CASE d' = d
      BY <1>1, <1>2, <2>1, <2>2, StreamKept DEF Keeps
    <2>3. CASE d # None /\ d' = Rest(d)
      <3>1. s' = s
        BY <1>5, <2>1 DEF Shown
      <3>2. Flow(v) = Cat(Cat(s, d), p) /\ Flow(v)' = Cat(Cat(s, Rest(d)), p)
        BY <1>1, <2>3, <3>1 DEF Flow, OneOf
      <3> DEFINE x == First(d)
                 q == Rest(d)
                 k == Cat(s, Single(x))
      <3>3. s \in Lists(Frames) /\ d \in Lists(Frames) /\ d # None
        BY <1>4, <2>3
      <3> HIDE DEF s, d
      <3>4. Cat(k, q) = Cat(s, d) /\ x \in Frames /\ q \in Lists(Frames)
        BY <3>3, CatFirst
      <3> HIDE DEF x, q
      <3>5. Without(k, s) /\ Single(x) \in Lists(Frames)
        BY <3>3, <3>4, WithoutLast, CatOne
      <3>6. k \in Lists(Frames)
        BY <3>3, <3>5, CatType
      <3> HIDE DEF k
      <3>7. Without(Cat(k, q), Cat(s, q))
        BY <3>3, <3>4, <3>5, <3>6, WithoutCat
      <3> DEFINE m == Cat(k, q)
                 n == Cat(s, q)
      <3>8. m \in Lists(Frames) /\ n \in Lists(Frames) /\ p \in Lists(Frames) /\ Without(m, n)
        BY <1>4, <3>3, <3>4, <3>6, <3>7, CatType
      <3> HIDE DEF m, n, p
      <3>9. Without(Cat(m, p), Cat(n, p))
        BY <3>8, WithoutCat
      <3> QED  BY <1>2, <3>2, <3>4, <3>9 DEF Loses, m, n, q
    <2> QED  BY <2>2, <2>3, <2>4
  <1>8. CASE VflowCopy
    <2>1. UNCHANGED <<InVflow, InVse, decoder, encReady>>
      BY <1>3, <1>8 DEF VflowCopy, threadVars, vse, InVflow, InVse
    <2> QED  BY <1>1, <1>2, <2>1, StreamKept DEF Keeps
  <1>9. CASE VflowSend
    <2>1. /\ image \in Frames /\ source = image
      BY <1>9 DEF VflowSend, StreamInv, StreamType, HandInv, Contents
    <2>2. /\ InVflow = Single(image) /\ InVflow' = None /\ InVse = None /\ InVse' = Single(image)
          /\ UNCHANGED <<decoder, encReady>>
      BY <1>3, <1>9, <2>1 DEF VflowSend, threadVars, InVflow, InVse
    <2>3. /\ Shown(v) = Cat(Cat(a, None), Single(image))
          /\ Shown(v)' = Cat(Cat(a, Single(image)), None)
      BY <1>5, <2>2 DEF Shown
    <2> HIDE DEF a
    <2>4. Cat(a, Single(image)) \in Lists(Frames)
      BY <1>4, <2>1, CatOne
    <2>5. Cat(a, None) = a /\ Cat(Cat(a, Single(image)), None) = Cat(a, Single(image))
      BY <1>4, <2>4, CatNone
    <2>6. Shown(v)' = Shown(v)
      BY <2>3, <2>5
    <2> QED  BY <1>1, <1>2, <2>2, <2>6 DEF Flow, OneOf, Keeps
  <1>10. CASE VseDone
    <2>1. source \in Frames /\ InVse = Single(source) /\ InVse' = None
          /\ InVflow' = InVflow /\ decoder' = decoder
      BY <1>10 DEF VseDone, threadVars, flowing, InVse, InVflow, StreamInv, StreamType, HandInv,
         Contents
    <2> DEFINE c == Encoded(v)
               r == encReady[v]
    <2>2. c \in Lists(Frames) /\ r \in Lists(Frames) /\ c' = c
      BY <1>2, FlowTypes
    <2>3. g = Cat(Cat(c, r), Single(source)) /\ g' = Cat(Cat(c, r'), None)
      BY <1>2, <2>1 DEF Scaled
    <2>4. CASE r' = r
      <3> DEFINE f == InVflow
                 k == Cat(c, r)
      <3>1. k \in Lists(Frames) /\ f \in Lists(Frames)
        BY <2>2, FlowTypes, CatType
      <3>2. Shown(v) = Cat(Cat(k, Single(source)), f) /\ Shown(v)' = Cat(Cat(k, None), f)
        BY <2>1, <2>3, <2>4 DEF Shown
      <3> HIDE DEF f, k
      <3>3. /\ Cat(k, None) = k /\ Without(Cat(k, Single(source)), k)
            /\ Cat(k, Single(source)) \in Lists(Frames)
        BY <2>1, <3>1, CatNone, WithoutLast, CatOne
      <3> DEFINE m == Cat(k, Single(source))
      <3> HIDE DEF m
      <3>4. Without(Cat(m, f), Cat(k, f))
        BY <3>1, <3>3, WithoutCat DEF m
      <3>5. Without(Shown(v), Shown(v)')
        BY <3>2, <3>3, <3>4 DEF m
      <3> QED  BY <1>1, <1>2, <2>1, <3>5, BehindShown DEF Loses
    <2>5. CASE r' = Put(r, source)
      <3>1. g = Cat(Cat(c, r), Single(source)) /\ g' = Cat(Cat(c, Put(r, source)), None)
        BY <2>3, <2>5
      <3> HIDE DEF c, r
      <3>2. Cat(Cat(c, r), Single(source)) = Cat(c, Put(r, source)) /\ Put(r, source) \in Lists(Frames)
        BY <2>1, <2>2, CatPut, CatOne
      <3>3. Cat(c, Put(r, source)) \in Lists(Frames)
        BY <2>2, <3>2, CatType
      <3>4. Cat(Cat(c, Put(r, source)), None) = Cat(c, Put(r, source))
        BY <3>3, CatNone
      <3>5. g' = g
        BY <3>1, <3>2, <3>4
      <3> QED  BY <1>1, <1>2, <2>1, <3>5 DEF Flow, Shown, OneOf, Keeps
    <2>6. r' = r \/ r' = Put(r, source)
      BY <1>10 DEF VseDone, Put
    <2> QED  BY <2>4, <2>5, <2>6
  <1>11. CASE VflowGivesUp
    <2>1. CASE vpc = "bpu"
      <3>1. UNCHANGED <<InVflow, InVse, decoder, encReady>>
        BY <1>11, <2>1 DEF VflowGivesUp, vse, InVflow, InVse
      <3> QED  BY <1>1, <1>2, <3>1, StreamKept DEF Keeps
    <2>2. CASE vpc = "send"
      <3>1. image \in Frames
        BY <1>11, <2>2 DEF VflowGivesUp, StreamInv, StreamType, HandInv, Contents
      <3>2. /\ InVflow = Single(image) /\ InVflow' = None
            /\ UNCHANGED <<InVse, decoder, encReady>>
        BY <1>11, <2>2 DEF VflowGivesUp, vse, InVflow, InVse
      <3>3. Shown(v) = Cat(g, Single(image)) /\ Shown(v)' = Cat(g, None)
        BY <1>5, <3>2 DEF Shown
      <3> HIDE DEF g
      <3>4. Cat(g, None) = g /\ Without(Cat(g, Single(image)), g)
        BY <1>4, <3>1, CatNone, WithoutLast
      <3>5. Without(Shown(v), Shown(v)')
        BY <3>3, <3>4
      <3> QED  BY <1>1, <1>2, <3>2, <3>5, BehindShown DEF Loses
    <2> QED  BY <1>11, <2>1, <2>2 DEF VflowGivesUp
  <1>12. CASE VflowHead \/ VflowGet \/ VflowGetFails \/ VflowRelease \/ VflowFinish
    <2>1. /\ UNCHANGED <<decoder, encReady, vseBusy, source>>
          /\ ~ (worker[vflow] = "loop" /\ vpc \in {"copy", "send"})
          /\ ~ (worker'[vflow] = "loop" /\ vpc' \in {"copy", "send"})
      BY <1>0, <1>12 DEF VflowHead, VflowGet, VflowGetFails, VflowRelease, VflowFinish,
         FinishMark, FinishExit, flowing, vse
    <2>2. UNCHANGED <<InVflow, InVse>>
      BY <2>1 DEF InVflow, InVse
    <2> QED  BY <1>1, <1>2, <2>1, <2>2, StreamKept DEF Keeps
  <1> QED  BY <1>6, <1>7, <1>8, <1>9, <1>10, <1>11, <1>12 DEF Vflow

\* The steps of the stream's own venc.
LEMMA VencFlow ==
    ASSUME NEW v \in Vencs, BoxInv, StreamInv, StreamInv', Venc(v)
    PROVE  Keeps(v) \/ Loses(v) \/ Receives(v) \/ Finishes(v)
  <1> USE DEF AtE
  <1>0. /\ v \in Workers /\ v # vflow /\ vflow \in Workers /\ worker \in [Workers -> WorkerStates]
    BY BoxAssumption DEF BoxInv, ThreadInv, ThreadTypeOK
  <1>t. /\ encoder \in [Vencs -> Contents] /\ eframe \in [Vencs -> Contents]
        /\ bitstream \in [Vencs -> Contents] /\ pushed \in [Vencs -> Contents]
        /\ epc \in [Vencs -> {"head", "get", "input", "output", "push", "release", "finish"}]
        /\ is_geted_codec_stream \in [Vencs -> BOOLEAN] /\ VencInv(v)
        /\ encReady \in [Vencs -> Lists(Frames)]
    BY DEF StreamInv, StreamType
  <1>1. /\ UNCHANGED <<vseBusy, source, vpc, image, decoder, packet>>
        /\ worker'[vflow] = worker[vflow]
    BY <1>0 DEF Venc, VencHead, VencGet, VencGetFails, VencInput, VencOutput,
       VencOutputTimeout, VencOutputStopped, VencPush, VencRelease, VencExit, VencFinish,
       LeaveLoop, FinishMark, FinishExit, threadVars, vars, decoding, flowing, vse
  <1>2. UNCHANGED <<InVse, InVflow>>
    BY <1>1 DEF InVse, InVflow, AtV
  <1>3. Scaled(v)' = Scaled(v) => Flow(v)' = Flow(v)
    BY <1>1, <1>2 DEF Flow, Shown, OneOf
  <1>4. ASSUME encReady' = encReady, Encoded(v)' = Encoded(v)  PROVE Flow(v)' = Flow(v)
    BY <1>3, <1>4 DEF Scaled
  <1>5. CASE VencGet(v)
    <2> DEFINE r == encReady[v]
               c == Cat(ToPush(v), OneOf(encoder[v]))
    <2>1. /\ r # None /\ r' = Rest(r) /\ encoder' = encoder /\ pushed' = pushed
          /\ InVenc(v) = None /\ InVenc(v)' = Single(First(r)) /\ ToPush(v) = None
          /\ ToPush(v)' = None
      BY <1>5, <1>t DEF VencGet, GotoE, threadVars, InVenc, ToPush, None, Rest, First
    <2>2. c \in Lists(Frames) /\ r \in Lists(Frames) /\ c' = c
      BY <2>1, FlowTypes, CatType DEF OneOf
    <2>3. Scaled(v) = Cat(Cat(c, None), r) /\ Scaled(v)' = Cat(Cat(c, Single(First(r))), Rest(r))
      BY <2>1, <2>2 DEF Scaled, Encoded
    <2> HIDE DEF c, r
    <2>4. Cat(c, None) = c /\ Cat(Cat(c, Single(First(r))), Rest(r)) = Cat(c, r)
      BY <2>1, <2>2, CatNone, CatFirst
    <2> QED  BY <1>3, <2>1, <2>3, <2>4 DEF Keeps
  <1>6. CASE VencInput(v)
    <2> DEFINE x == eframe[v]
               y == encoder[v]
    <2>1. /\ x \in Frames /\ x # NoFrame /\ y \in Contents /\ encoder'[v] = x
          /\ encReady' = encReady /\ pushed' = pushed
          /\ InVenc(v) = Single(x) /\ InVenc(v)' = None
          /\ ToPush(v) = None /\ ToPush(v)' = None
      BY <1>6, <1>t DEF VencInput, GotoE, threadVars, vse, InVenc, ToPush, VencInv, Contents
    <2>2. /\ Encoded(v) = Cat(Cat(None, OneOf(y)), Single(x))
          /\ Encoded(v)' = Cat(Cat(None, Single(x)), None)
      BY <2>1 DEF Encoded, OneOf
    <2>3. /\ OneOf(y) \in Lists(Frames) /\ Single(x) \in Lists(Frames) /\ None \in Lists(Frames)
      <3>1. None \in Lists(Frames) /\ OneOf(y) \in Lists(Frames)
        BY FlowTypes, EmptySeq DEF None, Lists
      <3> QED  BY <2>1, <3>1, CatOne
    <2> HIDE DEF x, y
    <2>4. /\ Cat(None, OneOf(y)) = OneOf(y) /\ Cat(None, Single(x)) = Single(x)
          /\ Cat(Single(x), None) = Single(x)
      BY <2>3, CatNone
    <2>5. Encoded(v) = Cat(OneOf(y), Single(x)) /\ Encoded(v)' = Single(x)
      BY <2>2, <2>4
    <2>6. CASE y = NoFrame
      BY <1>4, <2>1, <2>4, <2>5, <2>6 DEF OneOf, Keeps
    <2>7. CASE y # NoFrame
      <3>1. y \in Frames /\ OneOf(y) = Single(y)
        BY <2>1, <2>7 DEF Contents, OneOf
      <3>2. Without(Cat(None, Single(y)), None) /\ Cat(None, Single(y)) = Single(y)
        BY <2>3, <2>4, <3>1, WithoutLast
      <3> DEFINE k == Single(y)
                 m == Single(x)
      <3>3. Without(k, None) /\ k \in Lists(Frames) /\ m \in Lists(Frames)
        BY <2>3, <3>1, <3>2
      <3> HIDE DEF k, m
      <3>4. Without(Cat(k, m), Cat(None, m)) /\ Cat(None, m) = m
        BY <2>3, <3>3, WithoutCat, CatNone
      <3>5. Without(Encoded(v), Encoded(v)')
        BY <2>5, <3>1, <3>4 DEF k, m
      <3> QED  BY <1>1, <1>2, <2>1, <3>5, BehindEncoded DEF Loses
    <2> QED  BY <2>6, <2>7
  <1>7. CASE VencOutput(v)
    <2> DEFINE y == encoder[v]
    <2>1. /\ y \in Frames /\ y # NoFrame /\ encoder'[v] = NoFrame
          /\ encReady' = encReady /\ pushed' = pushed
          /\ InVenc(v) = None /\ InVenc(v)' = None
          /\ ToPush(v) = None /\ ToPush(v)' = Single(y)
      BY <1>7, <1>t DEF VencOutput, GotoE, threadVars, vse, InVenc, ToPush, VencInv, Contents
    <2>2. /\ Encoded(v) = Cat(Cat(None, Single(y)), None)
          /\ Encoded(v)' = Cat(Cat(Single(y), None), None)
      BY <2>1 DEF Encoded, OneOf
    <2> HIDE DEF y
    <2>3. Single(y) \in Lists(Frames)
      BY <2>1, FlowTypes, CatOne
    <2>4. Cat(None, Single(y)) = Single(y) /\ Cat(Single(y), None) = Single(y)
      BY <2>3, CatNone
    <2> QED  BY <1>4, <2>1, <2>2, <2>4 DEF Keeps
  <1>8. CASE VencPush(v)
    <2>1. /\ pushed[v] = NoFrame /\ InVenc(v) = None /\ InVenc(v)' = None
          /\ UNCHANGED <<encoder, encReady>> /\ ToPush(v)' = None
      BY <1>8, <1>t DEF VencPush, GotoE, threadVars, vse, InVenc, ToPush, VencInv
    <2>2. CASE is_geted_codec_stream[v]
      <3> DEFINE x == bitstream[v]
      <3>1. x \in Frames /\ ToPush(v) = Single(x) /\ pushed'[v] = x
        BY <1>8, <1>t, <2>2 DEF VencPush, ToPush, VencInv, Contents
      <3> HIDE DEF x
      <3> QED  BY <1>1, <1>2, <2>1, <3>1, BehindFirst DEF Receives
    <2>3. CASE ~ is_geted_codec_stream[v]
      <3>1. ToPush(v) = None /\ pushed' = pushed
        BY <1>8, <2>3 DEF VencPush, ToPush
      <3> QED  BY <1>4, <2>1, <3>1 DEF Encoded, OneOf, Keeps
    <2> QED  BY <2>2, <2>3
  <1>9. CASE VencRelease(v)
    <2>1. /\ InVenc(v) = None /\ InVenc(v)' = None /\ ToPush(v) = None /\ ToPush(v)' = None
          /\ UNCHANGED <<encoder, encReady>> /\ pushed'[v] = NoFrame
      BY <1>9, <1>t DEF VencRelease, GotoE, threadVars, vse, InVenc, ToPush
    <2> QED  BY <1>4, <2>1 DEF Encoded, OneOf, Finishes
  <1>10. CASE VencHead(v) \/ VencGetFails(v) \/ VencOutputStopped(v)
    <2>1. /\ InVenc(v) = None /\ InVenc(v)' = None /\ ToPush(v) = None /\ ToPush(v)' = None
          /\ UNCHANGED <<encoder, encReady, pushed>>
      BY <1>10, <1>t DEF VencHead, VencGetFails, VencOutputStopped, GotoE, threadVars, vse, InVenc,
         ToPush, VencInv
    <2> QED  BY <1>4, <2>1 DEF Encoded, OneOf, Keeps
  <1>11. CASE VencOutputTimeout(v) \/ VencExit(v)
    <2>1. UNCHANGED <<InVenc(v), ToPush(v), encoder, encReady, pushed>>
      BY <1>11 DEF VencOutputTimeout, VencExit, threadVars, vse, encoding, vars, InVenc, ToPush
    <2> QED  BY <1>4, <2>1 DEF Encoded, OneOf, Keeps
  <1>12. CASE VencFinish(v)
    <2>1. /\ UNCHANGED <<epc, encoder, encReady, pushed>> /\ epc[v] = "finish"
      BY <1>12 DEF VencFinish, vse, encoding
    <2>2. InVenc(v) = None /\ InVenc(v)' = None /\ ToPush(v) = None /\ ToPush(v)' = None
      BY <2>1 DEF InVenc, ToPush
    <2> QED  BY <1>4, <2>1, <2>2 DEF Encoded, OneOf, Keeps
  <1> QED  BY <1>5, <1>6, <1>7, <1>8, <1>9, <1>10, <1>11, <1>12 DEF Venc

\* Every step of the channel is one of LossyFifo's, or none.
LEMMA FlowMoves ==
    ASSUME NEW v \in Vencs, BoxInv, StreamInv, StreamInv', [BoxNext]_vars
    PROVE  Keeps(v) \/ Puts(v) \/ Loses(v) \/ Clears(v) \/ Receives(v) \/ Finishes(v)
  <1>0. /\ v \in Workers /\ v # vflow /\ v # vdec /\ vflow \in Workers /\ vdec \in Workers
        /\ vdec # vflow
        /\ worker \in [Workers -> WorkerStates]
    BY BoxAssumption DEF BoxInv, ThreadInv, ThreadTypeOK
  <1>k. ASSUME UNCHANGED <<vse, encoding, decoder, packet, image, source, vpc>>,
               worker'[v] = worker[v] \/ epc[v] \notin {"input", "push"},
               worker'[vflow] = worker[vflow] \/ vpc = "head"
        PROVE  Keeps(v)
    <2>1. UNCHANGED <<ToPush(v), InVenc(v), InVse, InVflow>>
      BY <1>k DEF ToPush, InVenc, InVse, InVflow, AtE, AtV, vse, encoding
    <2> QED  BY <1>k, <2>1, StreamKept DEF Keeps, vse, encoding
  <1>1. CASE BoxStart \/ BoxUninit
    <2>1. worker[v] # "loop" /\ worker[vflow] # "loop"
      BY <1>0, <1>1, FreedQuiet DEF BoxStart, BoxUninit, FreedWhenQuiet, Quiet
    <2>2. /\ encReady'[v] = None /\ OneOf(encoder'[v]) = None /\ OneOf(packet') = None
          /\ decoder' = None /\ vseBusy' = FALSE /\ worker' = worker /\ pushed' = pushed
      BY <1>1 DEF BoxStart, BoxUninit, Fresh, threadVars, decoding, None, OneOf, StreamInv, HandInv
    <2>3. ToPush(v)' = None /\ InVenc(v)' = None /\ InVse' = None /\ InVflow' = None
      BY <2>1, <2>2 DEF ToPush, InVenc, InVse, InVflow, AtE, AtV
    <2>4. None \in Lists(Frames)
      BY EmptySeq DEF None, Lists
    <2> QED  BY <2>2, <2>3, <2>4, CatNone DEF Flow, Shown, Scaled, Encoded, OneOf, Clears
  <1>2. CASE StartVdec
    <2>1. /\ UNCHANGED <<vse, encoding, decoder, image, source, vpc>> /\ worker' = worker
          /\ packet' = NoFrame
      BY <1>2 DEF StartVdec, StartCall, flowing
    <2>2. CASE packet = NoFrame
      BY <1>k, <2>1, <2>2
    <2>3. CASE packet # NoFrame
      <3> DEFINE b == Cat(Shown(v), decoder)
      <3>1. packet \in Frames
        BY <2>3 DEF StreamInv, StreamType, Contents
      <3>2. b \in Lists(Frames)
        BY FlowTypes, CatType
      <3>3. UNCHANGED <<ToPush(v), InVenc(v), InVse, InVflow>>
        BY <2>1 DEF ToPush, InVenc, InVse, InVflow, AtE, AtV, vse, encoding
      <3>4. Flow(v) = Cat(b, Single(packet)) /\ Flow(v)' = Cat(b, None)
        BY <2>1, <2>3, <3>3 DEF Flow, Shown, Scaled, Encoded, OneOf, vse, encoding
      <3> HIDE DEF b
      <3>5. Cat(b, None) = b /\ Without(Cat(b, Single(packet)), b)
        BY <3>1, <3>2, CatNone, WithoutLast
      <3> QED  BY <2>1, <3>4, <3>5 DEF Loses, encoding
    <2> QED  BY <2>2, <2>3
  <1>3. CASE StartVflow
    <2>1. ~ vseBusy /\ worker[vflow] # "loop"
      BY <1>0, <1>3 DEF StartVflow, BoxInv, FlowInv, Clear, StageInv, Idle, ThreadInv, Lifecycle,
         RunningIsStarted, Quiet
    <2>4. worker' = worker
      BY <1>3 DEF StartVflow, StartCall
    <2>2. UNCHANGED <<vse, encoding, decoder, packet>>
      BY <1>3 DEF StartVflow, decoding
    <2>3. UNCHANGED <<ToPush(v), InVenc(v), InVse, InVflow>>
      BY <2>1, <2>2, <2>4 DEF ToPush, InVenc, InVse, InVflow, AtE, AtV, vse, encoding
    <2> QED  BY <2>2, <2>3, StreamKept DEF Keeps, vse, encoding
  <1>4. ASSUME NEW u \in Vencs, StartVenc(u)  PROVE Keeps(v)
    <2>1. worker[u] # "loop" /\ worker' = worker
      BY <1>4, BoxAssumption DEF StartVenc, StartCall, BoxInv, StageInv, Idle, ThreadInv,
         Lifecycle, RunningIsStarted, Quiet
    <2>2. UNCHANGED <<vse, vpc, source, image, encoder, pushed, decoder, packet>>
      BY <1>4 DEF StartVenc, decoding, flowing
    <2>3. UNCHANGED <<InVse, InVflow>>
      BY <2>1, <2>2 DEF InVse, InVflow, AtV, vse
    <2>4. UNCHANGED <<ToPush(v), InVenc(v)>>
      <3>1. CASE u = v
        BY <2>1, <3>1 DEF ToPush, InVenc, AtE
      <3>2. CASE u # v
        <4>1. /\ epc'[v] = epc[v] /\ eframe'[v] = eframe[v] /\ bitstream'[v] = bitstream[v]
              /\ is_geted_codec_stream'[v] = is_geted_codec_stream[v]
          BY <1>4, <3>2 DEF StartVenc, StreamInv, StreamType
        <4> QED  BY <2>1, <4>1, HandsKept
      <3> QED  BY <3>1, <3>2
    <2> QED  BY <2>2, <2>3, <2>4, StreamKept DEF Keeps, vse
  <1>5. ASSUME NEW w \in Workers, StopThread(w)  PROVE Keeps(v)
    BY <1>5, <1>k DEF StopThread, StopCall, decoding, flowing
  <1>6. CASE BoxStop \/ Started \/ Stopped \/ UNCHANGED vars
    BY <1>6, <1>k DEF BoxStop, Started, Stopped, threadVars, decoding, flowing, vars
  <1>7. ASSUME NEW w \in Workers, OwnerInside(w)  PROVE Keeps(v)
    <2>1. UNCHANGED <<vse, encoding, decoder, packet, image, source, vpc>>
      BY <1>7 DEF OwnerInside, decoding, flowing
    <2>2. /\ epc[v] = "head" \/ (worker'[v] = "loop" <=> worker[v] = "loop")
          /\ vpc = "head" \/ (worker'[vflow] = "loop" <=> worker[vflow] = "loop")
      BY <1>0, <1>7, OwnerMoves DEF BoxInv, FlowInv, StreamInv, VencInv
    <2>3. UNCHANGED <<ToPush(v), InVenc(v), InVse, InVflow>>
      BY <2>1, <2>2 DEF ToPush, InVenc, InVse, InVflow, AtE, AtV, vse, encoding
    <2> QED  BY <2>1, <2>3, StreamKept DEF Keeps, vse, encoding
  <1>8. CASE Vdec
    BY <1>8, VdecFlow
  <1>9. CASE Vflow \/ VseDone
    BY <1>9, VflowFlow
  <1>10. CASE Venc(v)
    BY <1>10, VencFlow
  <1>11. ASSUME NEW u \in Vencs, Venc(u), u # v  PROVE Keeps(v)
    <2>1. u \in Workers /\ u # vflow
      BY BoxAssumption
    <2>2. UNCHANGED <<vseBusy, source, vpc, image, decoder, packet>>
      BY <1>11 DEF Venc, VencHead, VencGet, VencGetFails, VencInput, VencOutput,
         VencOutputTimeout, VencOutputStopped, VencPush, VencRelease, VencExit, VencFinish,
         vars, decoding, flowing, vse
    <2>3. worker'[vflow] = worker[vflow] /\ worker'[v] = worker[v] /\ epc'[v] = epc[v]
      BY <1>0, <1>11, <2>1 DEF Venc, VencHead, VencGet, VencGetFails, VencInput, VencOutput,
         VencOutputTimeout, VencOutputStopped, VencPush, VencRelease, VencExit, VencFinish,
         GotoE, LeaveLoop, FinishMark, FinishExit, threadVars, vars, encoding, StreamInv,
         StreamType
    <2>4. /\ eframe'[v] = eframe[v] /\ encoder'[v] = encoder[v] /\ bitstream'[v] = bitstream[v]
          /\ pushed'[v] = pushed[v] /\ is_geted_codec_stream'[v] = is_geted_codec_stream[v]
          /\ encReady'[v] = encReady[v]
      BY <1>11 DEF Venc, VencHead, VencGet, VencGetFails, VencInput, VencOutput,
         VencOutputTimeout, VencOutputStopped, VencPush, VencRelease, VencExit, VencFinish,
         vars, vse, encoding, StreamInv, StreamType
    <2>5. UNCHANGED <<ToPush(v), InVenc(v), InVse, InVflow>>
      BY <2>2, <2>3, <2>4, HandsKept DEF InVse, InVflow, AtV
    <2> QED  BY <2>2, <2>4, <2>5, StreamKept DEF Keeps
  <1> QED
    BY <1>1, <1>2, <1>3, <1>4, <1>5, <1>6, <1>7, <1>8, <1>9, <1>10, <1>11
    DEF BoxNext, Owner, StopGoesOn

\* The mapping of the refinement is the list the lemmas speak of.
LEMMA InFlightIsFlow == InFlight(main) = Flow(main)
  BY DEF InFlight, Flow, Shown, Scaled, Encoded, ToPush, OneOf, One, InVenc, InVse, InVflow, Cat,
     None, Single

LEMMA StreamNext ==
    ASSUME Vencs # {}, BoxInv, StreamInv, StreamInv', [BoxNext]_vars
    PROVE  [Stream!LossyNext]_<<InFlight(main), pushed[main]>>
  <1> DEFINE v == main
  <1>1. v \in Vencs
    BY DEF main
  <1>2. InFlight(v) = Flow(v) /\ InFlight(v)' = Flow(v)'
    <2>1. (InFlight(main) = Flow(main))'
      BY InFlightIsFlow, PTL
    <2> QED  BY <2>1, InFlightIsFlow
  <1>3. CASE Keeps(v)
    BY <1>2, <1>3 DEF Keeps
  <1>4. CASE Puts(v)
    BY <1>2, <1>4 DEF Puts, Put, Stream!Put, Stream!LossyNext
  <1>5. CASE Loses(v)
    <2>1. PICK n \in DOMAIN InFlight(v) : Flow(v)' = RemoveAt(Flow(v), n)
      BY <1>2, <1>5 DEF Loses, Without
    <2>2. InFlight(v)' = RemoveAt(InFlight(v), n) /\ pushed'[v] = pushed[v]
      BY <1>2, <1>5, <2>1 DEF Loses
    <2>3. Stream!Lose
      BY <2>1, <2>2 DEF Stream!Lose, Stream!RemoveAt, RemoveAt
    <2> QED  BY <2>3 DEF Stream!LossyNext
  <1>6. CASE Clears(v)
    BY <1>2, <1>6 DEF Clears, None, Stream!LoseAll, Stream!LossyNext
  <1>7. CASE Receives(v)
    BY <1>2, <1>7 DEF Receives, Starts, Stream!Receive, Stream!LossyNext
  <1>8. CASE Finishes(v)
    BY <1>2, <1>8 DEF Finishes, Stream!Finish, Stream!LossyNext
  <1> QED  BY <1>1, <1>3, <1>4, <1>5, <1>6, <1>7, <1>8, FlowMoves

\* From the file or network to the clients of a stream frames may be lost, at
\* eight places, but none is repeated or overtaken, across stops and starts
\* too: decoder, VSE, encoder and the hands between them refine a channel that
\* may lose.
THEOREM StreamLosesOnly == Vencs # {} => (BoxSpec => StreamIsLossyFifo)
  <1> SUFFICES ASSUME Vencs # {}  PROVE BoxSpec => StreamIsLossyFifo
    OBVIOUS
  <1>1. BoxInit => Stream!LossyInit
    <2> SUFFICES ASSUME BoxInit  PROVE Stream!LossyInit
      OBVIOUS
    <2>1. main \in Vencs /\ main \in Workers /\ vflow \in Workers
      BY BoxAssumption DEF main
    <2>2. worker[main] # "loop" /\ worker[vflow] # "loop"
      BY <2>1 DEF BoxInit, ThreadInit
    <2>3. /\ encoder[main] = NoFrame /\ encReady[main] = << >> /\ pushed[main] = NoFrame
          /\ vseBusy = FALSE /\ decoder = << >> /\ packet = NoFrame
      BY <2>1 DEF BoxInit
    <2>4. InFlight(main) = ((((((<< >> \o << >>) \o << >>) \o << >>) \o << >>) \o << >>) \o << >>) \o << >>
      BY <2>2, <2>3 DEF InFlight, One, AtE, AtV
    <2> QED  BY <2>3, <2>4 DEF Stream!LossyInit
  <1> QED
    BY <1>1, StreamNext, BoxInvariant, StreamInvHolds, PTL DEF BoxSpec, StreamIsLossyFifo,
       Stream!LossySpec
=============================================================================
