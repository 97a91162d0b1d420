------------------------------ MODULE BpuWrap ------------------------------
(***************************************************************************)
(* The inference of one camera channel: bpu_wrap.c with its sender,        *)
(* send_yuv_to_bpu of vpp_camera_impl.c.  Frames pass through two short    *)
(* queues and two rings of tensors that nothing but their indices protects:*)
(*                                                                         *)
(*   sender --m_input_queue--> infer --m_output_queue--> post --> callback *)
(*     |  m_input_tensors       |  output_tensors                          *)
(*                                                                         *)
(* Both models with a post-process, yolov5s and fcos, run this code.  The  *)
(* threads are those of MThread, the queues the FIFO lists MQueue          *)
(* implements.  The tensor a thread writes has its new content from the    *)
(* first of the steps that write it; the last is the one that lets it go.  *)
(***************************************************************************)
EXTENDS MThread, Integers, Sequences

CONSTANTS
    sender, infer, post,    \* m_bpu_thread, m_run_model_thread, m_post_process_thread
    BPU_INPUT_BUFFER_NUM,   \* tensors of the input ring
    BPU_OUTPUT_BUFFER_NUM,  \* tensors of the output ring
    InputSlots,             \* m_input_queue holds this many (its length - 1)
    OutputSlots,            \* and m_output_queue this many
    MaxFrames               \* bound: frames the camera delivers

ASSUME BpuAssumption ==
    /\ Workers = {sender, infer, post}
    /\ sender # infer /\ sender # post /\ infer # post
    /\ {InputSlots, OutputSlots} \subseteq Nat \ {0}
    /\ {BPU_INPUT_BUFFER_NUM, BPU_OUTPUT_BUFFER_NUM} \subseteq Nat \ {0}
    /\ BPU_INPUT_BUFFER_NUM > InputSlots
    /\ BPU_OUTPUT_BUFFER_NUM > OutputSlots
    /\ MaxFrames \in Nat

VARIABLES
    stage,          \* where the owner is between bpu_wrap_model_init and _deinit
    frames,         \* frames the VSE has given to the sender so far
    inTensor,       \* the frame in each of m_input_tensors
    curIn,          \* m_cur_input_tensor
    inq,            \* m_input_queue: indices of input tensors
    outTensor,      \* the frame whose result is in each of output_tensors
    curOut,         \* cur_ouput_buf_idx
    outq,           \* m_output_queue: post_info, a tensor and its time stamp
    spc, sframe,    \* send_yuv_to_bpu: its position and its frame
    ipc, input,     \* inference_yolov5s: its position and its input tensor
    ppc, info,      \* post_process_yolov5s: its position and its post_info
    skips,          \* history: results skipped since post last had nothing to do
    broke           \* history: a thread has left its loop on an error, not told to

inputs == <<frames, inTensor, curIn, inq, spc, sframe>>
outputs == <<outTensor, curOut, outq>>
inferLocals == <<ipc, input>>
postLocals == <<ppc, info>>
history == <<skips, broke>>
vars == <<threadVars, stage, inputs, outputs, inferLocals, postLocals, history>>

Frames == 1 .. MaxFrames
NoFrame == 0        \* a tensor nothing was written to
Freed == -1         \* a tensor whose memory is released
NoInfo == [tensor |-> 0, tv |-> NoFrame]

InTensors == 0 .. BPU_INPUT_BUFFER_NUM - 1
OutTensors == 0 .. BPU_OUTPUT_BUFFER_NUM - 1
PostInfos == [tensor : OutTensors, tv : Frames]

NextIn == (curIn + 1) % BPU_INPUT_BUFFER_NUM
NextOut == (curOut + 1) % BPU_OUTPUT_BUFFER_NUM

Running(w) == eState[w] = "RUNNING"

\* A thread leaves its loop on an error, told to stop or not.
GivesUp(w) == BreakLoop(w) /\ broke' = (broke \/ Running(w))

BpuInit ==
    /\ ThreadInit
    /\ stage = "off"
    /\ frames = 0
    /\ inTensor = [t \in InTensors |-> NoFrame]
    /\ curIn = 0 /\ curOut = 0
    /\ inq = << >> /\ outq = << >>
    /\ outTensor = [t \in OutTensors |-> Freed]
    /\ spc = "head" /\ sframe = NoFrame
    /\ ipc = "prepare" /\ input = 0
    /\ ppc = "head" /\ info = NoInfo
    /\ skips = 0 /\ broke = FALSE

-----------------------------------------------------------------------------
\* bpu_wrap_init: new queues and input tensors.
WrapInit ==
    /\ stage = "off"
    /\ stage' = "startInfer"
    /\ inTensor' = [t \in InTensors |-> NoFrame]
    /\ curIn' = 0
    /\ inq' = << >> /\ outq' = << >>
    /\ skips' = 0 /\ broke' = FALSE
    /\ UNCHANGED <<threadVars, frames, spc, sframe, outTensor, curOut, inferLocals, postLocals>>

\* bpu_wrap_start, then the thread that sends; a new thread has new locals.
StartInfer ==
    /\ stage = "startInfer"
    /\ StartCall(infer)
    /\ stage' = "startPost"
    /\ ipc' = "prepare"
    /\ UNCHANGED <<inputs, outputs, input, postLocals, history>>

StartPost ==
    /\ stage = "startPost"
    /\ StartCall(post)
    /\ stage' = "startSender"
    /\ ppc' = "head" /\ info' = NoInfo
    /\ UNCHANGED <<inputs, outputs, inferLocals, history>>

StartSender ==
    /\ stage = "startSender"
    /\ StartCall(sender)
    /\ stage' = "running"
    /\ spc' = "head" /\ sframe' = NoFrame
    /\ UNCHANGED <<frames, inTensor, curIn, inq, outputs, inferLocals, postLocals, history>>

\* vpp_camera_stop stops the sender; bpu_wrap_stop stops post, then infer.
StopSender ==
    /\ stage = "running"
    /\ StopCall(sender)
    /\ stage' = "stopPost"
    /\ UNCHANGED <<inputs, outputs, inferLocals, postLocals, history>>

\* Mutant: the threads are stopped in the order they were started.
StopInferFirst ==
    /\ stage = "stopPost"
    /\ StopCall(infer)
    /\ stage' = "stopInfer"
    /\ UNCHANGED <<inputs, outputs, inferLocals, postLocals, history>>

StopPost ==
    /\ stage = "stopPost"
    /\ StopCall(post)
    /\ stage' = "stopInfer"
    /\ UNCHANGED <<inputs, outputs, inferLocals, postLocals, history>>

StopInfer ==
    /\ stage = "stopInfer"
    /\ StopCall(infer)
    /\ stage' = "stopped"
    /\ UNCHANGED <<inputs, outputs, inferLocals, postLocals, history>>

\* bpu_wrap_deinit: the input tensors are freed, the queues with what is
\* left in them too.
WrapDeinit ==
    /\ stage = "stopped" /\ OwnerFree
    /\ stage' = "off"
    /\ inTensor' = [t \in InTensors |-> Freed]
    /\ inq' = << >> /\ outq' = << >>
    /\ UNCHANGED <<threadVars, frames, curIn, spc, sframe, outTensor, curOut,
                   inferLocals, postLocals, history>>

\* The steps of mThreadStart and mThreadStop behind these calls.
OwnerInside(w) ==
    /\ OwnerStep(w) \/ StopSleep(w)
    /\ UNCHANGED <<stage, inputs, outputs, inferLocals, postLocals, history>>

Owner ==
    \/ WrapInit \/ StartInfer \/ StartPost \/ StartSender
    \/ StopSender \/ StopPost \/ StopInfer \/ WrapDeinit
    \/ \E w \in Workers : OwnerInside(w)

-----------------------------------------------------------------------------
\* send_yuv_to_bpu.  The two nested loops test eState one after the other.
AtS(p) == worker[sender] = "loop" /\ spc = p

SenderHead ==
    /\ AtS("head")
    /\ IF Running(sender)
       THEN spc' = "get" /\ UNCHANGED threadVars
       ELSE LeaveLoop(sender) /\ spc' = "finish"
    /\ UNCHANGED <<stage, frames, inTensor, curIn, inq, sframe,
                   outputs, inferLocals, postLocals, history>>

SenderGet ==
    /\ AtS("get")
    /\ frames < MaxFrames
    /\ frames' = frames + 1
    /\ sframe' = frames + 1
    /\ spc' = "send"
    /\ UNCHANGED <<threadVars, stage, inTensor, curIn, inq,
                   outputs, inferLocals, postLocals, history>>

\* vp_vse_get_frame times out, or fails at once when the thread is signalled.
SenderGetFails ==
    /\ AtS("get")
    /\ spc' = "head"
    /\ UNCHANGED <<threadVars, stage, frames, inTensor, curIn, inq, sframe,
                   outputs, inferLocals, postLocals, history>>

\* bpu_wrap_send_frame: a full queue costs the frame.  mQueueIsFull takes no
\* lock, but only this thread fills the queue.
SendSkip ==
    /\ AtS("send")
    /\ Len(inq) >= InputSlots
    /\ spc' = "release"
    /\ UNCHANGED <<threadVars, stage, frames, inTensor, curIn, inq, sframe,
                   outputs, inferLocals, postLocals, history>>

SendWrite ==
    /\ AtS("send")
    /\ Len(inq) < InputSlots
    /\ inTensor' = [inTensor EXCEPT ![curIn] = sframe]
    /\ spc' = "enqueue"
    /\ UNCHANGED <<threadVars, stage, frames, curIn, inq, sframe,
                   outputs, inferLocals, postLocals, history>>

\* Mutant: the tensor in use is not advanced.
SendEnqueueStays ==
    /\ AtS("enqueue")
    /\ Len(inq) < InputSlots
    /\ inq' = Append(inq, curIn)
    /\ spc' = "release"
    /\ UNCHANGED <<threadVars, stage, frames, inTensor, curIn, sframe,
                   outputs, inferLocals, postLocals, history>>

\* mQueueEnqueueEx; the index moves on only when it succeeds.
SendEnqueue ==
    /\ AtS("enqueue")
    /\ IF Len(inq) < InputSlots
       THEN inq' = Append(inq, curIn) /\ curIn' = NextIn
       ELSE UNCHANGED <<inq, curIn>>
    /\ spc' = "release"
    /\ UNCHANGED <<threadVars, stage, frames, inTensor, sframe,
                   outputs, inferLocals, postLocals, history>>

\* vp_vse_release_frame; on an error the thread gives up.
SenderRelease ==
    /\ AtS("release")
    /\ \/ spc' = "head" /\ UNCHANGED <<threadVars, broke>>
       \/ GivesUp(sender) /\ spc' = "finish"
    /\ sframe' = NoFrame
    /\ UNCHANGED <<stage, frames, inTensor, curIn, inq,
                   outputs, inferLocals, postLocals, skips>>

SenderFinish ==
    /\ spc = "finish"
    /\ FinishMark(sender) \/ FinishExit(sender)
    /\ UNCHANGED <<stage, inputs, outputs, inferLocals, postLocals, history>>

Sender ==
    \/ SenderHead \/ SenderGet \/ SenderGetFails
    \/ SendSkip \/ SendWrite \/ SendEnqueue \/ SenderRelease \/ SenderFinish

-----------------------------------------------------------------------------
\* inference_yolov5s, inference_fcos.
AtI(p) == worker[infer] = "loop" /\ ipc = p

\* prepare_output_tensor; when it fails the thread ends with none of them.
InferPrepare ==
    /\ AtI("prepare")
    /\ outTensor' = [t \in OutTensors |-> NoFrame]
    /\ curOut' = 0
    /\ ipc' = "head"
    /\ UNCHANGED <<threadVars, stage, inputs, outq, input, postLocals, history>>

InferPrepareFails ==
    /\ AtI("prepare")
    /\ GivesUp(infer)
    /\ ipc' = "finish"
    /\ UNCHANGED <<stage, inputs, outputs, input, postLocals, skips>>

InferHead ==
    /\ AtI("head")
    /\ IF Running(infer)
       THEN ipc' = "dequeue" /\ UNCHANGED threadVars
       ELSE LeaveLoop(infer) /\ ipc' = "release"
    /\ UNCHANGED <<stage, inputs, outputs, input, postLocals, history>>

\* mQueueDequeueTimed, and the model is started on the tensor.
InferDequeue ==
    /\ AtI("dequeue") \/ AtI("wait")
    /\ inq # << >>
    /\ inq' = Tail(inq)
    /\ input' = Head(inq)
    /\ outTensor' = [outTensor EXCEPT ![curOut] = inTensor[Head(inq)]]
    /\ ipc' = "infer"
    /\ UNCHANGED <<threadVars, stage, frames, inTensor, curIn, spc, sframe,
                   curOut, outq, postLocals, history>>

InferWait ==
    /\ AtI("dequeue")
    /\ inq = << >>
    /\ ipc' = "wait"
    /\ UNCHANGED <<threadVars, stage, inputs, outputs, input, postLocals, history>>

\* Mutant: it waits again without a look at eState.
InferTimeoutWaits ==
    /\ AtI("wait")
    /\ ipc' = "dequeue"
    /\ UNCHANGED <<threadVars, stage, inputs, outputs, input, postLocals, history>>

InferTimeout ==
    /\ AtI("wait")
    /\ ipc' = "head"
    /\ UNCHANGED <<threadVars, stage, inputs, outputs, input, postLocals, history>>

\* hbDNNInfer, hbDNNWaitTaskDone or hbDNNReleaseTask fails.
InferFails ==
    /\ AtI("infer")
    /\ GivesUp(infer)
    /\ ipc' = "release"
    /\ UNCHANGED <<stage, inputs, outputs, input, postLocals, skips>>

\* The result is there; post is too slow: it is dropped.
InferSkip ==
    /\ AtI("infer")
    /\ Len(outq) >= OutputSlots
    /\ curOut' = NextOut
    /\ skips' = skips + 1
    /\ ipc' = "head"
    /\ UNCHANGED <<threadVars, stage, inputs, outTensor, outq, input, postLocals, broke>>

InferDone ==
    /\ AtI("infer")
    /\ Len(outq) < OutputSlots
    /\ ipc' = "enqueue"
    /\ UNCHANGED <<threadVars, stage, inputs, outputs, input, postLocals, history>>

\* malloc of the post_info fails: the index stays.
InferNoMemory ==
    /\ AtI("enqueue")
    /\ ipc' = "head"
    /\ UNCHANGED <<threadVars, stage, inputs, outputs, input, postLocals, history>>

\* Mutant: the time stamp is the newest frame's.
InferEnqueueNewest ==
    /\ AtI("enqueue")
    /\ Len(outq) < OutputSlots
    /\ outq' = Append(outq, [tensor |-> curOut, tv |-> frames])
    /\ curOut' = NextOut
    /\ ipc' = "head"
    /\ UNCHANGED <<threadVars, stage, inputs, outTensor, input, postLocals, history>>

\* Mutant: the index of the output tensor stays.
InferEnqueueStays ==
    /\ AtI("enqueue")
    /\ Len(outq) < OutputSlots
    /\ outq' = Append(outq, [tensor |-> curOut, tv |-> inTensor[input]])
    /\ ipc' = "head"
    /\ UNCHANGED <<threadVars, stage, inputs, outTensor, curOut, input, postLocals, history>>

\* mQueueEnqueue, which waits while the queue is full.
InferEnqueue ==
    /\ AtI("enqueue")
    /\ Len(outq) < OutputSlots
    /\ outq' = Append(outq, [tensor |-> curOut, tv |-> inTensor[input]])
    /\ curOut' = NextOut
    /\ ipc' = "head"
    /\ UNCHANGED <<threadVars, stage, inputs, outTensor, input, postLocals, history>>

\* release_output_tensor of every tensor.
InferRelease ==
    /\ worker[infer] = "leaving" /\ ipc = "release"
    /\ outTensor' = [t \in OutTensors |-> Freed]
    /\ ipc' = "finish"
    /\ UNCHANGED <<threadVars, stage, inputs, curOut, outq, input, postLocals, history>>

InferFinish ==
    /\ ipc = "finish"
    /\ FinishMark(infer) \/ FinishExit(infer)
    /\ UNCHANGED <<stage, inputs, outputs, inferLocals, postLocals, history>>

Infer ==
    \/ InferPrepare \/ InferPrepareFails \/ InferHead
    \/ InferDequeue \/ InferWait \/ InferTimeout
    \/ InferFails \/ InferSkip \/ InferDone \/ InferNoMemory \/ InferEnqueue
    \/ InferRelease \/ InferFinish

-----------------------------------------------------------------------------
\* post_process_yolov5s, post_process_fcos.
AtP(p) == worker[post] = "loop" /\ ppc = p

PostHead ==
    /\ AtP("head")
    /\ IF Running(post)
       THEN ppc' = "dequeue" /\ UNCHANGED threadVars
       ELSE LeaveLoop(post) /\ ppc' = "finish"
    /\ UNCHANGED <<stage, inputs, outputs, inferLocals, info, history>>

\* From here on Yolov5PostProcess reads the tensor.
PostDequeue ==
    /\ AtP("dequeue") \/ AtP("wait")
    /\ outq # << >>
    /\ outq' = Tail(outq)
    /\ info' = Head(outq)
    /\ ppc' = "process"
    /\ UNCHANGED <<threadVars, stage, inputs, outTensor, curOut, inferLocals, history>>

PostWait ==
    /\ AtP("dequeue")
    /\ outq = << >>
    /\ ppc' = "wait"
    /\ UNCHANGED <<threadVars, stage, inputs, outputs, inferLocals, info, history>>

PostTimeout ==
    /\ AtP("wait")
    /\ ppc' = "head"
    /\ UNCHANGED <<threadVars, stage, inputs, outputs, inferLocals, info, history>>

\* The callback sends the result; the post_info is freed.
PostDone ==
    /\ AtP("process")
    /\ info' = NoInfo
    /\ skips' = IF outq = << >> THEN 0 ELSE skips
    /\ ppc' = "head"
    /\ UNCHANGED <<threadVars, stage, inputs, outputs, inferLocals, broke>>

PostFinish ==
    /\ ppc = "finish"
    /\ FinishMark(post) \/ FinishExit(post)
    /\ UNCHANGED <<stage, inputs, outputs, inferLocals, postLocals, history>>

Post == PostHead \/ PostDequeue \/ PostWait \/ PostTimeout \/ PostDone \/ PostFinish

-----------------------------------------------------------------------------
BpuNext == Owner \/ Sender \/ Infer \/ Post

BpuSpec == BpuInit /\ [][BpuNext]_vars

\* The threads are scheduled, and the owner goes on with a stop it has begun.
BpuFairness ==
    /\ WF_vars(Sender)
    /\ WF_vars(Infer)
    /\ WF_vars(Post)
    /\ WF_vars(StopPost \/ StopInfer)
    /\ \A w \in Workers : WF_vars(OwnerInside(w))

BpuFairSpec == BpuSpec /\ BpuFairness

-----------------------------------------------------------------------------
BpuTypeOK ==
    /\ ThreadTypeOK
    /\ frames \in 0 .. MaxFrames
    /\ inTensor \in [InTensors -> Frames \cup {NoFrame, Freed}]
    /\ outTensor \in [OutTensors -> Frames \cup {NoFrame, Freed}]
    /\ curIn \in InTensors /\ curOut \in OutTensors
    /\ inq \in Seq(InTensors) /\ outq \in Seq(PostInfos)
    /\ sframe \in Frames \cup {NoFrame}
    /\ input \in InTensors
    /\ info \in PostInfos \cup {NoInfo}
    /\ skips \in Nat /\ broke \in BOOLEAN

\* bpu_wrap_send_frame looks at a queue of one frame to decide that it may
\* overwrite a tensor of a ring of five: the tensor it writes is neither
\* queued nor being read by the model, although nothing tells the sender how
\* far the model is.
InferReads == IF AtI("infer") \/ AtI("enqueue") THEN {input} ELSE {}

InputOwned ==
    AtS("enqueue") =>
        curIn \notin {inq[i] : i \in DOMAIN inq} \cup InferReads

\* The time stamp sent with a result ("needed when video and results are
\* synchronised") is that of the frame the result was computed from.
ResultMatchesFrame == AtP("process") => outTensor[info.tensor] = info.tv

\* It is so as long as, since post last had nothing to do, fewer results were
\* skipped than the ring has tensors to spare ("theoretically the
\* post-process is faster than the inference"), and no thread gave up; a stop
\* does not free the tensor under the post-process either.
MatchesUnlessSkipped ==
    skips < BPU_OUTPUT_BUFFER_NUM - 1 - OutputSlots /\ ~broke => ResultMatchesFrame

\* The post-process never reads a tensor that was freed or not yet written,
\* skipped results or not: the inference allocates the tensors before the
\* first result and releases them only when the post-process has stopped,
\* unless it gives up by itself.
ResultIsLive == AtP("process") /\ ~broke => outTensor[info.tensor] \in Frames

\* From the VSE to the callback the time stamps are those of a channel that
\* may lose frames and never repeats or reorders them, across restarts too.
InFlight ==
    [i \in DOMAIN outq |-> outq[i].tv]
    \o (IF AtI("infer") \/ AtI("enqueue") THEN <<inTensor[input]>> ELSE << >>)
    \o [i \in DOMAIN inq |-> inTensor[inq[i]]]
    \o (IF AtS("send") \/ AtS("enqueue") THEN <<sframe>> ELSE << >>)

Channel == INSTANCE LossyFifo WITH
    Values <- Frames, NoValue <- NoFrame, pending <- InFlight, received <- info.tv

ImplementsLossyFifo == Channel!LossySpec

\* A stop returns although the inference may be about to enqueue a result
\* that nobody dequeues any more: post is stopped first.
BpuStopReturns == (stage = "stopPost" /\ ~broke) ~> (broke \/ (stage = "stopped" /\ OwnerFree))
=============================================================================
