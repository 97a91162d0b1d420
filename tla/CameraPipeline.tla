--------------------------- MODULE CameraPipeline ---------------------------
(***************************************************************************)
(* One encoded stream of vpp_camera_impl.c.  The vflow thread borrows      *)
(* frame buffers from the VSE hardware, the venc thread gives them to the  *)
(* encoder and back to the VSE.  A frame travels in a descriptor, a malloc *)
(* of hbn_vnode_image_t; the descriptors circulate through two queues as   *)
(* large as their number:                                                  *)
(*                                                                         *)
(*    m_enc_to_vflow_queue -> vflow -> m_vflow_to_enc_queue -> venc -> ...  *)
(*                                                                         *)
(* The threads are those of MThread; the queues are the FIFO lists MQueue  *)
(* implements.  A step is one call, one test of eState, or one access to a *)
(* counter.  The VSE and the encoder are external: the VSE lends a buffer  *)
(* while it has one, the encoder finishes a frame at some time.            *)
(***************************************************************************)
EXTENDS MThread, Integers, FiniteSets, SequencesExt

CONSTANTS
    vflow, venc,    \* m_vflow_thread and m_venc_thread
    Descs,          \* hbn_vnode_image_t objects
    Buffers,        \* VSE output buffers, VPP_VSE_OUTBUFFER_COUNT of each
    Nil             \* NULL

ASSUME PipelineAssumption ==
    /\ Workers = {vflow, venc}
    /\ vflow # venc
    /\ IsFiniteSet(Descs)
    /\ IsFiniteSet(Buffers)
    /\ Cardinality(Descs) = Cardinality(Buffers)
    /\ Nil \notin Descs \cup Buffers

VARIABLES
    stage,      \* where vpp_camera_start or vpp_camera_stop is
    e2v, v2e,   \* m_enc_to_vflow_queue, m_vflow_to_enc_queue
    image,      \* the frame in each descriptor: *hbn_vnode_image
    heap,       \* descriptors that are malloced
    lent,       \* buffers the VSE has lent, oldest first
    encoding,   \* the frame the encoder is reading, or Nil
    used,       \* vflow_buffer_used_count
    vpc, vdesc, vframe, got, saved,     \* vlfow_get_stream_proc
    epc, edesc, eframe, stream          \* venc_get_stream_proc

queues == <<e2v, v2e>>
store == <<image, heap>>
hardware == <<lent, encoding>>
vflowLocals == <<vpc, vdesc, vframe, got, saved>>
vencLocals == <<epc, edesc, eframe, stream>>
shared == <<stage, queues, store, hardware, used>>
vars == <<threadVars, shared, vflowLocals, vencLocals>>

\* Mutant: a ring without the extra slot.
CapacityShort == Cardinality(Buffers) - 1

Capacity == Cardinality(Buffers)

Running(w) == eState[w] = "RUNNING"

PipelineInit ==
    /\ ThreadInit
    /\ stage = "off"
    /\ e2v = << >> /\ v2e = << >>
    /\ image = [d \in Descs |-> Nil]
    /\ heap = {}
    /\ lent = << >> /\ encoding = Nil
    /\ used = 0
    /\ vpc = "head" /\ vdesc = Nil /\ vframe = Nil /\ got = FALSE /\ saved = FALSE
    /\ epc = "head" /\ edesc = Nil /\ eframe = Nil /\ stream = FALSE

-----------------------------------------------------------------------------
\* vpp_camera_start: the empty descriptors are queued, then the threads start.
CreateQueues ==
    /\ stage = "off"
    /\ stage' = "startVflow"
    /\ v2e' = << >>
    /\ e2v' = SetToSeq(Descs)
    /\ heap' = Descs
    /\ image' = [d \in Descs |-> Nil]
    /\ UNCHANGED <<threadVars, hardware, used, vflowLocals, vencLocals>>

\* A new thread has new locals.
StartVflow ==
    /\ stage = "startVflow"
    /\ StartCall(vflow)
    /\ stage' = "startVenc"
    /\ vpc' = "head" /\ vdesc' = Nil /\ vframe' = Nil /\ got' = FALSE /\ saved' = FALSE
    /\ UNCHANGED <<queues, store, hardware, used, vencLocals>>

StartVenc ==
    /\ stage = "startVenc"
    /\ StartCall(venc)
    /\ stage' = "running"
    /\ epc' = "head" /\ edesc' = Nil /\ eframe' = Nil /\ stream' = FALSE
    /\ UNCHANGED <<queues, store, hardware, used, vflowLocals>>

\* vpp_camera_stop: vflow first, then venc.
StopVflow ==
    /\ stage = "running"
    /\ StopCall(vflow)
    /\ stage' = "stopVenc"
    /\ UNCHANGED <<queues, store, hardware, used, vflowLocals, vencLocals>>

StopVenc ==
    /\ stage = "stopVenc"
    /\ StopCall(venc)
    /\ stage' = "drain"
    /\ UNCHANGED <<queues, store, hardware, used, vflowLocals, vencLocals>>

\* The two loops that dequeue and free what is left.
DrainEnc ==
    /\ stage = "drain" /\ OwnerFree
    /\ v2e # << >>
    /\ v2e' = Tail(v2e)
    /\ heap' = heap \ {Head(v2e)}
    /\ UNCHANGED <<threadVars, stage, e2v, image, hardware, used, vflowLocals, vencLocals>>

DrainVse ==
    /\ stage = "drain" /\ OwnerFree
    /\ v2e = << >> /\ e2v # << >>
    /\ e2v' = Tail(e2v)
    /\ heap' = heap \ {Head(e2v)}
    /\ UNCHANGED <<threadVars, stage, v2e, image, hardware, used, vflowLocals, vencLocals>>

Drained ==
    /\ stage = "drain" /\ OwnerFree
    /\ v2e = << >> /\ e2v = << >>
    /\ stage' = "drained"
    /\ UNCHANGED <<threadVars, queues, store, hardware, used, vflowLocals, vencLocals>>

\* The stop of codec and vflow, or the deinit before a next start, take everything
\* back from the hardware (an assumption about its libraries: vp_vse_stop itself
\* is empty); the next vpp_camera_init_param clears the counter.
StopHardware ==
    /\ stage = "drained"
    /\ stage' = "off"
    /\ lent' = << >> /\ encoding' = Nil
    /\ used' = 0
    /\ UNCHANGED <<threadVars, queues, store, vflowLocals, vencLocals>>

\* The steps of mThreadStart and mThreadStop behind these calls.
OwnerInside(w) ==
    /\ OwnerStep(w) \/ StopSleep(w)
    /\ UNCHANGED <<shared, vflowLocals, vencLocals>>

Owner ==
    \/ CreateQueues \/ StartVflow \/ StartVenc
    \/ StopVflow \/ StopVenc
    \/ DrainEnc \/ DrainVse \/ Drained \/ StopHardware
    \/ \E w \in Workers : OwnerInside(w)

-----------------------------------------------------------------------------
\* vlfow_get_stream_proc.
AtV(p) == worker[vflow] = "loop" /\ vpc = p

\* Mutant: the loop does not look at eState.
VflowHeadForever ==
    /\ AtV("head")
    /\ vpc' = "dequeue"
    /\ UNCHANGED <<threadVars, shared, vdesc, vframe, got, saved, vencLocals>>

VflowHead ==
    /\ AtV("head")
    /\ IF Running(vflow)
       THEN vpc' = "dequeue" /\ UNCHANGED threadVars
       ELSE LeaveLoop(vflow) /\ vpc' = "release"
    /\ UNCHANGED <<shared, vdesc, vframe, got, saved, vencLocals>>

\* mQueueDequeueTimed: with a descriptor there it returns at once; else it
\* waits, and gives up at some time even if one has come meanwhile.
VflowDequeue ==
    /\ AtV("dequeue") \/ AtV("wait")
    /\ e2v # << >>
    /\ e2v' = Tail(e2v)
    /\ vdesc' = Head(e2v)
    /\ vframe' = Head(e2v)
    /\ got' = FALSE
    /\ vpc' = "getLoop"
    /\ UNCHANGED <<threadVars, stage, v2e, store, hardware, used, saved, vencLocals>>

VflowWait ==
    /\ AtV("dequeue")
    /\ e2v = << >>
    /\ vpc' = "wait"
    /\ UNCHANGED <<threadVars, shared, vdesc, vframe, got, saved, vencLocals>>

VflowTimeout ==
    /\ AtV("wait")
    /\ vpc' = "head"
    /\ UNCHANGED <<threadVars, shared, vdesc, vframe, got, saved, vencLocals>>

\* while (eState == E_THREAD_RUNNING) vp_vse_get_frame(...)
VflowGetLoop ==
    /\ AtV("getLoop")
    /\ IF Running(vflow)
       THEN vpc' = "get" /\ UNCHANGED saved
       ELSE vpc' = "putLoop" /\ saved' = FALSE
    /\ UNCHANGED <<threadVars, shared, vdesc, vframe, got, vencLocals>>

VflowGet ==
    /\ AtV("get")
    /\ \E b \in Buffers \ Range(lent) :
         /\ lent' = Append(lent, b)
         /\ image' = [image EXCEPT ![vframe] = b]
    /\ vpc' = "count"
    /\ UNCHANGED <<threadVars, stage, queues, heap, encoding, used,
                   vdesc, vframe, got, saved, vencLocals>>

VflowGetFails ==
    /\ AtV("get")
    /\ vpc' = "getLoop"
    /\ UNCHANGED <<threadVars, shared, vdesc, vframe, got, saved, vencLocals>>

VflowCount ==
    /\ AtV("count")
    /\ used' = used + 1
    /\ got' = TRUE
    /\ saved' = FALSE
    /\ vpc' = "putLoop"
    /\ UNCHANGED <<threadVars, stage, queues, store, hardware, vdesc, vframe, vencLocals>>

\* while (eState == E_THREAD_RUNNING) mQueueEnqueueEx(...); QueuesHaveRoom
\* shows that it never returns E_QUEUE_ERROR_FULL.
VflowPutLoop ==
    /\ AtV("putLoop")
    /\ vpc' = IF Running(vflow) THEN "put" ELSE "display"
    /\ UNCHANGED <<threadVars, shared, vdesc, vframe, got, saved, vencLocals>>

VflowPut ==
    /\ AtV("put")
    /\ Len(v2e) < Capacity
    /\ v2e' = Append(v2e, vdesc)
    /\ vdesc' = Nil
    /\ saved' = TRUE
    /\ vpc' = "display"
    /\ UNCHANGED <<threadVars, stage, e2v, store, hardware, used, vframe, got, vencLocals>>

\* vp_display_set_frame reads the frame, when there is one.
VflowDisplay ==
    /\ AtV("display")
    /\ vpc' = "head"
    /\ UNCHANGED <<threadVars, shared, vdesc, vframe, got, saved, vencLocals>>

\* Behind the loop: a frame that was not enqueued goes back to the VSE and a
\* descriptor still in hand is freed.
GiveBack(desc) == lent' = RemoveFirst(lent, image[desc])

\* Mutant: the frame is released although venc has it.
VflowReleaseSaved ==
    /\ worker[vflow] = "leaving" /\ vpc = "release"
    /\ IF got THEN GiveBack(vframe) ELSE UNCHANGED lent
    /\ vpc' = "free"
    /\ UNCHANGED <<threadVars, stage, queues, store, encoding, used,
                   vdesc, vframe, got, saved, vencLocals>>

VflowRelease ==
    /\ worker[vflow] = "leaving" /\ vpc = "release"
    /\ IF got /\ ~saved THEN GiveBack(vframe) ELSE UNCHANGED lent
    /\ vpc' = "free"
    /\ UNCHANGED <<threadVars, stage, queues, store, encoding, used,
                   vdesc, vframe, got, saved, vencLocals>>

VflowFree ==
    /\ worker[vflow] = "leaving" /\ vpc = "free"
    /\ heap' = heap \ {vdesc}
    /\ vdesc' = Nil
    /\ vpc' = "finish"
    /\ UNCHANGED <<threadVars, stage, queues, image, hardware, used,
                   vframe, got, saved, vencLocals>>

VflowFinish ==
    /\ vpc = "finish"
    /\ FinishMark(vflow) \/ FinishExit(vflow)
    /\ UNCHANGED <<shared, vflowLocals, vencLocals>>

Vflow ==
    \/ VflowHead \/ VflowDequeue \/ VflowWait \/ VflowTimeout
    \/ VflowGetLoop \/ VflowGet \/ VflowGetFails \/ VflowCount
    \/ VflowPutLoop \/ VflowPut \/ VflowDisplay
    \/ VflowRelease \/ VflowFree \/ VflowFinish

-----------------------------------------------------------------------------
\* venc_get_stream_proc.
AtE(p) == worker[venc] = "loop" /\ epc = p

VencHead ==
    /\ AtE("head")
    /\ IF Running(venc)
       THEN epc' = "dequeue" /\ UNCHANGED threadVars
       ELSE LeaveLoop(venc) /\ epc' = "free"
    /\ UNCHANGED <<shared, vflowLocals, edesc, eframe, stream>>

\* Mutant: the newest frame is taken first.
VencDequeueNewest ==
    /\ AtE("dequeue") \/ AtE("wait")
    /\ v2e # << >>
    /\ v2e' = Front(v2e)
    /\ edesc' = Last(v2e)
    /\ eframe' = Last(v2e)
    /\ epc' = "send"
    /\ UNCHANGED <<threadVars, stage, e2v, store, hardware, used, vflowLocals, stream>>

VencDequeue ==
    /\ AtE("dequeue") \/ AtE("wait")
    /\ v2e # << >>
    /\ v2e' = Tail(v2e)
    /\ edesc' = Head(v2e)
    /\ eframe' = Head(v2e)
    /\ epc' = "send"
    /\ UNCHANGED <<threadVars, stage, e2v, store, hardware, used, vflowLocals, stream>>

VencWait ==
    /\ AtE("dequeue")
    /\ v2e = << >>
    /\ epc' = "wait"
    /\ UNCHANGED <<threadVars, shared, vflowLocals, edesc, eframe, stream>>

VencTimeout ==
    /\ AtE("wait")
    /\ epc' = "head"
    /\ UNCHANGED <<threadVars, shared, vflowLocals, edesc, eframe, stream>>

\* A break out of the loop on an error of the codec or of the VSE.
VencBreak ==
    /\ AtE("send") \/ AtE("release") \/ (AtE("release_output") /\ stream)
    /\ BreakLoop(venc)
    /\ epc' = "free"
    /\ UNCHANGED <<shared, vflowLocals, edesc, eframe, stream>>

\* vp_codec_encoder_set_input: the encoder reads the frame where it lies.
VencSend ==
    /\ AtE("send")
    /\ encoding' = image[eframe]
    /\ stream' = FALSE
    /\ epc' = "outLoop"
    /\ UNCHANGED <<threadVars, stage, queues, store, lent, used, vflowLocals, edesc, eframe>>

\* while (eState == E_THREAD_RUNNING) vp_codec_get_output(...)
VencOutLoop ==
    /\ AtE("outLoop")
    /\ epc' = IF Running(venc) THEN "out" ELSE "release"
    /\ UNCHANGED <<threadVars, shared, vflowLocals, edesc, eframe, stream>>

\* The stream is there: the encoder is done with the frame.
VencOut ==
    /\ AtE("out")
    /\ encoding' = Nil
    /\ stream' = TRUE
    /\ epc' = "release"
    /\ UNCHANGED <<threadVars, stage, queues, store, lent, used, vflowLocals, edesc, eframe>>

\* Mutant: a late output is not waited for.
VencOutGivesUp ==
    /\ AtE("out")
    /\ epc' = "release"
    /\ UNCHANGED <<threadVars, shared, vflowLocals, edesc, eframe, stream>>

VencOutTimeout ==
    /\ AtE("out")
    /\ epc' = "outLoop"
    /\ UNCHANGED <<threadVars, shared, vflowLocals, edesc, eframe, stream>>

\* vp_vse_release_frame.
VencRelease ==
    /\ AtE("release")
    /\ GiveBack(eframe)
    /\ epc' = "uncount"
    /\ UNCHANGED <<threadVars, stage, queues, store, encoding, used, vflowLocals,
                   edesc, eframe, stream>>

\* Mutant: the counter is only ever raised.
VencUncountNot ==
    /\ AtE("uncount")
    /\ epc' = "putLoop"
    /\ UNCHANGED <<threadVars, shared, vflowLocals, edesc, eframe, stream>>

VencUncount ==
    /\ AtE("uncount")
    /\ used' = used - 1
    /\ epc' = "putLoop"
    /\ UNCHANGED <<threadVars, stage, queues, store, hardware, vflowLocals,
                   edesc, eframe, stream>>

\* Mutant: the descriptor is not given back.
VencPutNever ==
    /\ AtE("putLoop")
    /\ epc' = "release_output"
    /\ UNCHANGED <<threadVars, shared, vflowLocals, edesc, eframe, stream>>

VencPutLoop ==
    /\ AtE("putLoop")
    /\ epc' = IF Running(venc) THEN "put" ELSE "release_output"
    /\ UNCHANGED <<threadVars, shared, vflowLocals, edesc, eframe, stream>>

\* Mutant: hbn_vnode_image is not set to NULL behind the enqueue.
VencPutKept ==
    /\ AtE("put")
    /\ Len(e2v) < Capacity
    /\ e2v' = Append(e2v, edesc)
    /\ epc' = "release_output"
    /\ UNCHANGED <<threadVars, stage, v2e, store, hardware, used, vflowLocals,
                   edesc, eframe, stream>>

VencPut ==
    /\ AtE("put")
    /\ Len(e2v) < Capacity
    /\ e2v' = Append(e2v, edesc)
    /\ edesc' = Nil
    /\ epc' = "release_output"
    /\ UNCHANGED <<threadVars, stage, v2e, store, hardware, used, vflowLocals, eframe, stream>>

\* vpp_camera_push_stream and vp_codec_release_output.
VencReleaseOutput ==
    /\ AtE("release_output")
    /\ epc' = "head"
    /\ UNCHANGED <<threadVars, shared, vflowLocals, edesc, eframe, stream>>

VencFree ==
    /\ worker[venc] = "leaving" /\ epc = "free"
    /\ heap' = heap \ {edesc}
    /\ edesc' = Nil
    /\ epc' = "finish"
    /\ UNCHANGED <<threadVars, stage, queues, image, hardware, used, vflowLocals, eframe, stream>>

VencFinish ==
    /\ epc = "finish"
    /\ FinishMark(venc) \/ FinishExit(venc)
    /\ UNCHANGED <<shared, vflowLocals, vencLocals>>

Venc ==
    \/ VencHead \/ VencDequeue \/ VencWait \/ VencTimeout \/ VencBreak
    \/ VencSend \/ VencOutLoop \/ VencOut \/ VencOutTimeout
    \/ VencRelease \/ VencUncount \/ VencPutLoop \/ VencPut
    \/ VencReleaseOutput \/ VencFree \/ VencFinish

-----------------------------------------------------------------------------
PipelineNext == Owner \/ Vflow \/ Venc

PipelineSpec == PipelineInit /\ [][PipelineNext]_vars

(***************************************************************************)
(* Fairness.  The threads are scheduled.  The hardware delivers: a call    *)
(* that is tried again and again while the VSE has a free buffer, or while *)
(* the encoder has a frame, succeeds at some time.  Nothing obliges the    *)
(* owner to start or to stop, but once it stops it goes on.                *)
(***************************************************************************)
PipelineFairness ==
    /\ WF_vars(Vflow)
    /\ WF_vars(Venc)
    /\ SF_vars(VflowGet)
    /\ SF_vars(VencOut)
    /\ WF_vars(StopVenc \/ DrainEnc \/ DrainVse \/ Drained)
    /\ \A w \in Workers : WF_vars(OwnerInside(w))

PipelineFairSpec == PipelineSpec /\ PipelineFairness

-----------------------------------------------------------------------------
PipelineTypeOK ==
    /\ ThreadTypeOK
    /\ stage \in {"off", "startVflow", "startVenc", "running", "stopVenc", "drain", "drained"}
    /\ e2v \in Seq(Descs) /\ v2e \in Seq(Descs)
    /\ image \in [Descs -> Buffers \cup {Nil}]
    /\ heap \subseteq Descs
    /\ lent \in Seq(Buffers) /\ encoding \in Buffers \cup {Nil}
    /\ {vdesc, vframe, edesc, eframe} \subseteq Descs \cup {Nil}
    /\ {got, saved, stream} \subseteq BOOLEAN

\* The holders of descriptor d: a slot of a queue or a local of a thread.
Holders(d) ==
    Cardinality({i \in DOMAIN e2v : e2v[i] = d})
    + Cardinality({i \in DOMAIN v2e : v2e[i] = d})
    + Cardinality({x \in {<<"vflow", vdesc>>, <<"venc", edesc>>} : x[2] = d})

\* Every descriptor that is malloced has one holder and no other has any:
\* none is lost, freed twice or used after its free, whatever the codec does
\* and whenever the stream is stopped; the drain loops free the last ones.
\* (The log lines "dequeue enc %d = enqueue vse %d + free_dissociate_count".)
DescriptorsConserved ==
    /\ \A d \in Descs : Holders(d) = (IF d \in heap THEN 1 ELSE 0)
    /\ stage = "drained" => heap = {}

\* As long as venc is in its loop, the buffers the VSE has lent are exactly
\* the frames in venc's hands, in m_vflow_to_enc_queue and in vflow's hands,
\* in the order they were captured: none is forgotten, none is overtaken.
VencFrames == IF epc \in {"send", "outLoop", "out", "release"} THEN <<image[eframe]>> ELSE << >>

VflowFrames ==
    IF vpc = "count" \/ (got /\ ~saved /\ vpc \notin {"free", "finish"})
    THEN <<image[vframe]>> ELSE << >>

FramesInOrder ==
    worker[venc] = "loop" =>
        lent = VencFrames \o [i \in DOMAIN v2e |-> image[v2e[i]]] \o VflowFrames

\* vflow_buffer_used_count, changed by both threads, never leaves the range
\* whose ends the code logs as "should not run here".
UsedCountInRange == used \in 0 .. Cardinality(Buffers)

\* A thread that enqueues a descriptor finds room: the queues have a slot for
\* each of them (the "+ 1" of vpp_camera_start is for the slot a ring wastes).
QueuesHaveRoom ==
    /\ AtV("put") => Len(v2e) < Capacity
    /\ AtE("put") => Len(e2v) < Capacity

\* While the stream is not being stopped, the encoder reads only a frame that
\* is not back in the hands of the VSE, and it is venc's.
EncoderReadsLent ==
    encoding # Nil /\ worker[venc] = "loop" /\ Running(venc) =>
        encoding \in Range(lent) /\ encoding = image[eframe]

\* "Enqueued: the venc thread frees hbn_vnode_image": from then on it is not
\* vflow's, so a frame on its way to the display is still lent and allocated.
DisplayedIsOwned ==
    AtV("display") /\ got => vframe \in heap /\ image[vframe] \in Range(lent)

\* vpp_camera_stop gets to the end, whatever the threads are doing.
StopCompletes == stage = "stopVenc" ~> stage = "drained"

\* The two threads never wait for each other: as long as the stream runs,
\* another frame is captured, and what was queued for the encoder reaches it.
KeepsCapturing == (stage = "running" /\ vpc # "count") ~> (vpc = "count" \/ stage # "running")

QueuedIsEncoded ==
    \A d \in Descs :
        (stage = "running" /\ d \in Range(v2e)) ~>
        ((encoding # Nil /\ encoding = image[d]) \/ stage # "running")
=============================================================================
