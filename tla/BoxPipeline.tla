---------------------------- MODULE BoxPipeline ----------------------------
(***************************************************************************)
(* One channel of the box solution: vpp_box_impl.c with the decode thread  *)
(* of vp_codec.c.  A file or network stream is decoded, scaled and encoded:*)
(*                                                                         *)
(*   vdec --> decoder --> vflow --src_img--> VSE --> venc --> pushed       *)
(*                          ^                 |                            *)
(*                          +--- for the BPU -+                            *)
(*                                                                         *)
(* There is one src_img and no queue of the program's own: vflow knows that*)
(* the VSE is done with it by taking the frame meant for the BPU.  The     *)
(* threads are those of MThread.  Decoder, VSE and encoders are hardware   *)
(* behind libraries, modelled by what the code expects of them.            *)
(***************************************************************************)
EXTENDS MThread, Naturals, Sequences

CONSTANTS
    vdec, vflow,    \* m_vdec_thread, m_vflow_thread
    Vencs,          \* the m_venc_thread of each stream
    DecoderSlots,   \* packets the decoder holds
    ChannelSlots,   \* frames an output channel of the VSE holds
    Retries,        \* AV_open_stream's retry
    MaxFrames       \* bound: packets read; then the stream is at its end

ASSUME BoxAssumption ==
    /\ Workers = {vdec, vflow} \cup Vencs
    /\ vdec # vflow /\ {vdec, vflow} \cap Vencs = {}
    /\ {DecoderSlots, ChannelSlots, Retries} \subseteq Nat \ {0}
    /\ MaxFrames \in Nat

VARIABLES
    stage,          \* the owner: "off", "starting", "running", "stopping", "stopped"
    called,         \* the threads it has started, or stopped, in this stage
    frames,         \* history: packets read so far
    dpc, retry, packet, firstPacket,    \* vp_decode_work_func
    decoder,        \* frames in the decoder, oldest first
    vpc, image,     \* vflow: its position and decode_frame
    source,         \* the content of src_img
    vseFrame,       \* vflow's vse_frame, for the BPU
    vseBusy,        \* the VSE reads src_img
    bpuReady,       \* the VSE's channel for the BPU
    encReady,       \* and those for the encoders
    epc, eframe,    \* venc: its position and vse_frame
    encoder,        \* the frame each encoder works on
    bitstream,      \* venc's encode_stream; it keeps its last content
    is_geted_codec_stream,
    pushed,         \* the frame vpp_box_push_stream sends
    broke,          \* history: a thread has left its loop on an error, not told to
    exited          \* exit(-1)

decoding == <<frames, dpc, retry, packet, firstPacket>>
flowing == <<vpc, image, source, vseFrame>>
vse == <<vseBusy, bpuReady, encReady>>
encoding == <<epc, eframe, encoder, bitstream, is_geted_codec_stream, pushed>>
vars == <<threadVars, stage, called, decoding, decoder, flowing, vse, encoding, broke, exited>>

Frames == 1 .. MaxFrames
NoFrame == 0

Running(w) == eState[w] = "RUNNING"

\* A thread leaves its loop on an error, told to stop or not.
GivesUp(w) == BreakLoop(w) /\ broke' = (broke \/ Running(w))

\* The hardware and the thread's locals are new after vpp_box_init.
Fresh ==
    /\ decoder' = << >> /\ vseBusy' = FALSE /\ bpuReady' = << >>
    /\ encReady' = [v \in Vencs |-> << >>]
    /\ encoder' = [v \in Vencs |-> NoFrame]

BoxInit ==
    /\ ThreadInit
    /\ stage = "off" /\ called = {} /\ frames = 0
    /\ dpc = "open" /\ retry = Retries /\ packet = NoFrame /\ firstPacket = TRUE
    /\ decoder = << >>
    /\ vpc = "head" /\ image = NoFrame /\ source = NoFrame /\ vseFrame = NoFrame
    /\ vseBusy = FALSE /\ bpuReady = << >> /\ encReady = [v \in Vencs |-> << >>]
    /\ epc = [v \in Vencs |-> "head"] /\ eframe = [v \in Vencs |-> NoFrame]
    /\ encoder = [v \in Vencs |-> NoFrame]
    /\ bitstream = [v \in Vencs |-> NoFrame]
    /\ is_geted_codec_stream = [v \in Vencs |-> FALSE]
    /\ pushed = [v \in Vencs |-> NoFrame]
    /\ broke = FALSE /\ exited = FALSE

-----------------------------------------------------------------------------
\* vpp_box_init and vpp_box_start.
BoxStart ==
    /\ stage = "off"
    /\ stage' = "starting" /\ called' = {} /\ broke' = FALSE
    /\ Fresh
    /\ UNCHANGED <<threadVars, decoding, flowing, epc, eframe, bitstream,
                   is_geted_codec_stream, pushed, exited>>

\* A new thread has new locals.
StartVdec ==
    /\ stage = "starting" /\ called = {}
    /\ StartCall(vdec)
    /\ called' = {vdec}
    /\ dpc' = "open" /\ retry' = Retries /\ packet' = NoFrame /\ firstPacket' = TRUE
    /\ UNCHANGED <<stage, frames, decoder, flowing, vse, encoding, broke, exited>>

StartVflow ==
    /\ stage = "starting" /\ called = {vdec}
    /\ StartCall(vflow)
    /\ called' = {vdec, vflow}
    /\ vpc' = "head" /\ image' = NoFrame /\ source' = NoFrame /\ vseFrame' = NoFrame
    /\ UNCHANGED <<stage, decoding, decoder, vse, encoding, broke, exited>>

StartVenc(v) ==
    /\ stage = "starting" /\ vflow \in called /\ v \notin called
    /\ StartCall(v)
    /\ called' = called \cup {v}
    /\ epc' = [epc EXCEPT ![v] = "head"]
    /\ eframe' = [eframe EXCEPT ![v] = NoFrame]
    /\ bitstream' = [bitstream EXCEPT ![v] = NoFrame]
    /\ is_geted_codec_stream' = [is_geted_codec_stream EXCEPT ![v] = FALSE]
    /\ UNCHANGED <<stage, decoding, decoder, flowing, vse, encoder, pushed, broke, exited>>

Started ==
    /\ stage = "starting" /\ called = Workers /\ OwnerFree
    /\ stage' = "running"
    /\ UNCHANGED <<threadVars, called, decoding, decoder, flowing, vse, encoding, broke, exited>>

\* vpp_box_stop: the encoders' threads, then vflow, then vdec.
BoxStop ==
    /\ stage = "running"
    /\ stage' = "stopping" /\ called' = {}
    /\ UNCHANGED <<threadVars, decoding, decoder, flowing, vse, encoding, broke, exited>>

StopThread(w) ==
    /\ stage = "stopping" /\ w \notin called
    /\ w \in {vdec, vflow} => Vencs \subseteq called
    /\ w = vdec => vflow \in called
    /\ StopCall(w)
    /\ called' = called \cup {w}
    /\ UNCHANGED <<stage, decoding, decoder, flowing, vse, encoding, broke, exited>>

Stopped ==
    /\ stage = "stopping" /\ called = Workers /\ OwnerFree
    /\ stage' = "stopped"
    /\ UNCHANGED <<threadVars, called, decoding, decoder, flowing, vse, encoding, broke, exited>>

\* vpp_box_uninit.
BoxUninit ==
    /\ stage = "stopped"
    /\ stage' = "off"
    /\ Fresh
    /\ packet' = NoFrame /\ image' = NoFrame
    /\ UNCHANGED <<threadVars, called, frames, dpc, retry, firstPacket, vpc, source, vseFrame,
                   epc, eframe, bitstream, is_geted_codec_stream, pushed, broke, exited>>

\* The steps of mThreadStart and mThreadStop behind these calls.
OwnerInside(w) ==
    /\ OwnerStep(w) \/ StopSleep(w)
    /\ UNCHANGED <<stage, called, decoding, decoder, flowing, vse, encoding, broke, exited>>

StopGoesOn == (\E w \in Workers : StopThread(w)) \/ Stopped

Owner ==
    \/ BoxStart \/ StartVdec \/ StartVflow \/ (\E v \in Vencs : StartVenc(v)) \/ Started
    \/ BoxStop \/ StopGoesOn \/ BoxUninit
    \/ \E w \in Workers : OwnerInside(w)

-----------------------------------------------------------------------------
\* vp_decode_work_func.
AtD(p) == worker[vdec] = "loop" /\ dpc = p

\* AV_open_stream; nothing in its loop looks at eState, and what the last
\* attempt brings is not looked at either.
OpenOk ==
    /\ AtD("open") /\ retry > 1
    /\ dpc' = "head"
    /\ UNCHANGED <<threadVars, stage, called, frames, retry, packet, firstPacket,
                   decoder, flowing, vse, encoding, broke, exited>>

OpenRetry ==
    /\ AtD("open") /\ retry > 1
    /\ retry' = retry - 1
    /\ UNCHANGED <<threadVars, stage, called, frames, dpc, packet, firstPacket,
                   decoder, flowing, vse, encoding, broke, exited>>

OpenGivesUp ==
    /\ AtD("open")
    /\ GivesUp(vdec)
    /\ dpc' = "finish"
    /\ UNCHANGED <<stage, called, frames, retry, packet, firstPacket,
                   decoder, flowing, vse, encoding, exited>>

VdecHead ==
    /\ AtD("head")
    /\ IF Running(vdec) THEN dpc' = "read" /\ UNCHANGED threadVars
                        ELSE LeaveLoop(vdec) /\ dpc' = "finish"
    /\ UNCHANGED <<stage, called, frames, retry, packet, firstPacket,
                   decoder, flowing, vse, encoding, broke, exited>>

\* av_read_frame, unless the packet read last is still to be sent.
VdecRead ==
    /\ AtD("read")
    /\ IF packet # NoFrame THEN UNCHANGED <<packet, frames>>
       ELSE /\ frames < MaxFrames
            /\ frames' = frames + 1
            /\ packet' = frames + 1
    /\ dpc' = IF firstPacket THEN "header" ELSE "input"
    /\ UNCHANGED <<threadVars, stage, called, retry, firstPacket,
                   decoder, flowing, vse, encoding, broke, exited>>

\* The end of the stream, or an error: it is opened again.
VdecReadFails ==
    /\ AtD("read") /\ packet = NoFrame
    /\ dpc' = "open" /\ retry' = Retries
    /\ UNCHANGED <<threadVars, stage, called, frames, packet, firstPacket,
                   decoder, flowing, vse, encoding, broke, exited>>

\* The sequence header goes first, and this turn sends nothing else.
VdecHeader ==
    /\ AtD("header")
    /\ firstPacket' = FALSE
    /\ dpc' = "head"
    /\ UNCHANGED <<threadVars, stage, called, frames, retry, packet,
                   decoder, flowing, vse, encoding, broke, exited>>

\* vp_codec_set_input; when it fails the packet is lost.
VdecInput ==
    /\ AtD("input")
    /\ \/ Len(decoder) < DecoderSlots /\ decoder' = Append(decoder, packet)
       \/ UNCHANGED decoder
    /\ packet' = NoFrame
    /\ dpc' = "head"
    /\ UNCHANGED <<threadVars, stage, called, frames, retry, firstPacket,
                   flowing, vse, encoding, broke, exited>>

\* No memory, a header that cannot be built, a packet that is too large.
VdecGivesUp ==
    /\ AtD("header") \/ AtD("input")
    /\ GivesUp(vdec)
    /\ dpc' = "finish"
    /\ UNCHANGED <<stage, called, frames, retry, packet, firstPacket,
                   decoder, flowing, vse, encoding, exited>>

VdecFinish ==
    /\ dpc = "finish"
    /\ FinishMark(vdec) \/ FinishExit(vdec)
    /\ UNCHANGED <<stage, called, decoding, decoder, flowing, vse, encoding, broke, exited>>

Vdec ==
    \/ OpenOk \/ OpenRetry \/ OpenGivesUp
    \/ VdecHead \/ VdecRead \/ VdecReadFails \/ VdecHeader \/ VdecInput \/ VdecGivesUp
    \/ VdecFinish

-----------------------------------------------------------------------------
\* get_decode_and_vse_process_thread_func.
AtV(p) == worker[vflow] = "loop" /\ vpc = p

VflowHead ==
    /\ AtV("head")
    /\ IF Running(vflow) THEN vpc' = "decode" /\ UNCHANGED threadVars
                         ELSE LeaveLoop(vflow) /\ vpc' = "finish"
    /\ UNCHANGED <<stage, called, decoding, decoder, image, source, vseFrame,
                   vse, encoding, broke, exited>>

\* vp_codec_get_output: a frame of the decoder.
VflowDecode ==
    /\ AtV("decode") /\ decoder # << >>
    /\ image' = Head(decoder)
    /\ decoder' = Tail(decoder)
    /\ vpc' = "copy"
    /\ UNCHANGED <<threadVars, stage, called, decoding, source, vseFrame,
                   vse, encoding, broke, exited>>

\* A time out, or a frame that could not be decoded and is given back.
VflowDecodeFails ==
    /\ AtV("decode")
    /\ decoder' \in {decoder, IF decoder # << >> THEN Tail(decoder) ELSE decoder}
    /\ vpc' = "head"
    /\ UNCHANGED <<threadVars, stage, called, decoding, image, source, vseFrame,
                   vse, encoding, broke, exited>>

\* memcpy, and the time stamp.
VflowCopy ==
    /\ AtV("copy")
    /\ source' = image
    /\ vpc' = "send"
    /\ UNCHANGED <<threadVars, stage, called, decoding, decoder, image, vseFrame,
                   vse, encoding, broke, exited>>

\* vp_vse_send_frame.
VflowSend ==
    /\ AtV("send")
    /\ vseBusy' = TRUE
    /\ vpc' = "get"
    /\ UNCHANGED <<threadVars, stage, called, decoding, decoder, image, source, vseFrame,
                   bpuReady, encReady, encoding, broke, exited>>

\* The VSE has scaled the frame for every channel; one that is full loses it.
VseDone ==
    /\ vseBusy
    /\ vseBusy' = FALSE
    /\ bpuReady' = Append(bpuReady, source)
    /\ encReady' = [v \in Vencs |-> IF Len(encReady[v]) < ChannelSlots
                                    THEN Append(encReady[v], source) ELSE encReady[v]]
    /\ UNCHANGED <<threadVars, stage, called, decoding, decoder, flowing, encoding, broke, exited>>

\* vp_vse_get_frame of the channel for the BPU.
VflowGet ==
    /\ AtV("get") /\ bpuReady # << >>
    /\ vseFrame' = Head(bpuReady)
    /\ bpuReady' = Tail(bpuReady)
    /\ vpc' = "bpu"
    /\ UNCHANGED <<threadVars, stage, called, decoding, decoder, image, source,
                   vseBusy, encReady, encoding, broke, exited>>

\* Mutant: as in venc, the next turn is tried when there is no frame.
VflowGetFailsGoesOn ==
    /\ AtV("get")
    /\ vpc' = "head"
    /\ UNCHANGED <<threadVars, stage, called, decoding, decoder, image, source, vseFrame,
                   vse, encoding, broke, exited>>

\* A time out, or the signal of mThreadStop.
VflowGetFails ==
    /\ AtV("get")
    /\ \/ GivesUp(vflow)
       \/ LeaveLoop(vflow) /\ UNCHANGED broke
    /\ vpc' = "finish"
    /\ UNCHANGED <<stage, called, decoding, decoder, image, source, vseFrame,
                   vse, encoding, exited>>

\* bpu_wrap_send_frame with the time stamp of src_img, vp_vse_release_frame,
\* vp_codec_release_output.
VflowRelease ==
    /\ AtV("bpu")
    /\ vseFrame' = NoFrame /\ image' = NoFrame
    /\ vpc' = "head"
    /\ UNCHANGED <<threadVars, stage, called, decoding, decoder, source,
                   vse, encoding, broke, exited>>

\* One of the calls to the VSE or the decoder fails; decode_frame is kept.
VflowGivesUp ==
    /\ AtV("send") \/ AtV("bpu")
    /\ GivesUp(vflow)
    /\ vpc' = "finish"
    /\ UNCHANGED <<stage, called, decoding, decoder, image, source, vseFrame,
                   vse, encoding, exited>>

VflowFinish ==
    /\ vpc = "finish"
    /\ FinishMark(vflow) \/ FinishExit(vflow)
    /\ UNCHANGED <<stage, called, decoding, decoder, flowing, vse, encoding, broke, exited>>

Vflow ==
    \/ VflowHead \/ VflowDecode \/ VflowDecodeFails \/ VflowCopy \/ VflowSend
    \/ VflowGet \/ VflowGetFails \/ VflowRelease \/ VflowGivesUp \/ VflowFinish

-----------------------------------------------------------------------------
\* get_vse_and_codec_process_thread_func.
AtE(v, p) == worker[v] = "loop" /\ epc[v] = p
GotoE(v, p) == epc' = [epc EXCEPT ![v] = p]

VencHead(v) ==
    /\ AtE(v, "head")
    /\ IF Running(v) THEN GotoE(v, "get") /\ UNCHANGED threadVars
                     ELSE LeaveLoop(v) /\ GotoE(v, "finish")
    /\ UNCHANGED <<stage, called, decoding, decoder, flowing, vse, eframe, encoder, bitstream,
                   is_geted_codec_stream, pushed, broke, exited>>

VencGet(v) ==
    /\ AtE(v, "get") /\ encReady[v] # << >>
    /\ eframe' = [eframe EXCEPT ![v] = Head(encReady[v])]
    /\ encReady' = [encReady EXCEPT ![v] = Tail(@)]
    /\ GotoE(v, "input")
    /\ UNCHANGED <<threadVars, stage, called, decoding, decoder, flowing, vseBusy, bpuReady,
                   encoder, bitstream, is_geted_codec_stream, pushed, broke, exited>>

\* A time out, or the signal: continue or break, by eState.
VencGetFails(v) ==
    /\ AtE(v, "get")
    /\ GotoE(v, "head")
    /\ UNCHANGED <<threadVars, stage, called, decoding, decoder, flowing, vse, eframe, encoder,
                   bitstream, is_geted_codec_stream, pushed, broke, exited>>

\* vp_codec_encoder_set_input.
VencInput(v) ==
    /\ AtE(v, "input")
    /\ encoder' = [encoder EXCEPT ![v] = eframe[v]]
    /\ is_geted_codec_stream' = [is_geted_codec_stream EXCEPT ![v] = FALSE]
    /\ GotoE(v, "output")
    /\ UNCHANGED <<threadVars, stage, called, decoding, decoder, flowing, vse, eframe, bitstream,
                   pushed, broke, exited>>

\* vp_codec_get_output has the frame encoded.
VencOutput(v) ==
    /\ AtE(v, "output") /\ Running(v)
    /\ bitstream' = [bitstream EXCEPT ![v] = encoder[v]]
    /\ encoder' = [encoder EXCEPT ![v] = NoFrame]
    /\ is_geted_codec_stream' = [is_geted_codec_stream EXCEPT ![v] = TRUE]
    /\ GotoE(v, "push")
    /\ UNCHANGED <<threadVars, stage, called, decoding, decoder, flowing, vse, eframe,
                   pushed, broke, exited>>

\* After 2 s, or the signal, it looks at eState again.
VencOutputTimeout(v) ==
    /\ AtE(v, "output") /\ Running(v)
    /\ UNCHANGED vars

\* Mutant: the frame is put in again, and the stop is not noticed.
VencOutputRetries(v) ==
    /\ AtE(v, "output") /\ ~Running(v)
    /\ GotoE(v, "input")
    /\ UNCHANGED <<threadVars, stage, called, decoding, decoder, flowing, vse, eframe, encoder,
                   bitstream, is_geted_codec_stream, pushed, broke, exited>>

VencOutputStopped(v) ==
    /\ AtE(v, "output") /\ ~Running(v)
    /\ GotoE(v, "push")
    /\ UNCHANGED <<threadVars, stage, called, decoding, decoder, flowing, vse, eframe, encoder,
                   bitstream, is_geted_codec_stream, pushed, broke, exited>>

\* Mutant: what encode_stream holds is sent, new or not.
VencPushAlways(v) ==
    /\ AtE(v, "push")
    /\ pushed' = [pushed EXCEPT ![v] = bitstream[v]]
    /\ GotoE(v, "release")
    /\ UNCHANGED <<threadVars, stage, called, decoding, decoder, flowing, vse, eframe, encoder,
                   bitstream, is_geted_codec_stream, broke, exited>>

\* vpp_box_push_stream.
VencPush(v) ==
    /\ AtE(v, "push")
    /\ IF is_geted_codec_stream[v] THEN pushed' = [pushed EXCEPT ![v] = bitstream[v]]
                                   ELSE UNCHANGED pushed
    /\ GotoE(v, "release")
    /\ UNCHANGED <<threadVars, stage, called, decoding, decoder, flowing, vse, eframe, encoder,
                   bitstream, is_geted_codec_stream, broke, exited>>

\* vp_vse_release_frame, and vp_codec_release_output of encode_stream, which
\* was given back before when no new stream came: the library may refuse it.
VencRelease(v) ==
    /\ AtE(v, "release")
    /\ \/ UNCHANGED exited
       \/ ~is_geted_codec_stream[v] /\ exited' = TRUE
    /\ eframe' = [eframe EXCEPT ![v] = NoFrame]
    /\ pushed' = [pushed EXCEPT ![v] = NoFrame]
    /\ GotoE(v, "head")
    /\ UNCHANGED <<threadVars, stage, called, decoding, decoder, flowing, vse, encoder,
                   bitstream, is_geted_codec_stream, broke>>

\* An error of the VSE or the encoder ends the program.
VencExit(v) ==
    /\ MayBreak
    /\ AtE(v, "input") \/ AtE(v, "output") \/ AtE(v, "release")
    /\ exited' = TRUE
    /\ UNCHANGED <<threadVars, stage, called, decoding, decoder, flowing, vse, encoding, broke>>

VencFinish(v) ==
    /\ epc[v] = "finish"
    /\ FinishMark(v) \/ FinishExit(v)
    /\ UNCHANGED <<stage, called, decoding, decoder, flowing, vse, encoding, broke, exited>>

Venc(v) ==
    \/ VencHead(v) \/ VencGet(v) \/ VencGetFails(v) \/ VencInput(v)
    \/ VencOutput(v) \/ VencOutputTimeout(v) \/ VencOutputStopped(v)
    \/ VencPush(v) \/ VencRelease(v) \/ VencExit(v) \/ VencFinish(v)

-----------------------------------------------------------------------------
BoxNext ==
    \/ ~exited /\ (Owner \/ Vdec \/ Vflow \/ VseDone \/ \E v \in Vencs : Venc(v))
    \/ exited /\ UNCHANGED vars

BoxSpec == BoxInit /\ [][BoxNext]_vars

\* The threads are scheduled, and the owner goes on with a stop it has begun.
BoxFairness ==
    /\ WF_vars(~exited /\ Vdec)
    /\ WF_vars(~exited /\ Vflow)
    /\ \A v \in Vencs : WF_vars(~exited /\ Venc(v))
    /\ WF_vars(~exited /\ StopGoesOn)
    /\ \A w \in Workers : WF_vars(~exited /\ OwnerInside(w))

BoxFairSpec == BoxSpec /\ BoxFairness

-----------------------------------------------------------------------------
\* There is one src_img, and the VSE reads it by itself: vflow writes the next
\* frame only when the VSE is done with the one before, and the frame it gives
\* to the BPU is the one whose time stamp goes with it.  Taking the BPU's frame
\* back is all that orders the two.
SourceMatches ==
    /\ AtV("copy") => ~vseBusy
    /\ AtV("bpu") => vseFrame = source

\* What a stream sends to its clients is what the file or network delivered:
\* frames are lost in many places and never repeated or reordered, also when
\* a stop leaves a frame in the encoder and an old bitstream in encode_stream.
One(frame) == IF frame = NoFrame THEN << >> ELSE <<frame>>

InFlight(v) ==
    (IF AtE(v, "push") /\ is_geted_codec_stream[v] THEN <<bitstream[v]>> ELSE << >>)
    \o One(encoder[v])
    \o (IF AtE(v, "input") THEN <<eframe[v]>> ELSE << >>)
    \o encReady[v]
    \o (IF vseBusy THEN <<source>> ELSE << >>)
    \o (IF AtV("copy") \/ AtV("send") THEN <<image>> ELSE << >>)
    \o decoder
    \o One(packet)

\* The streams are alike: one stands for all.
main == CHOOSE v \in Vencs : TRUE

Stream == INSTANCE LossyFifo WITH
    Values <- Frames, NoValue <- NoFrame, pending <- InFlight(main), received <- pushed[main]

StreamIsLossyFifo == Stream!LossySpec

\* A stop comes to its end although vdec may be opening its stream again and
\* again and venc waits for an encoder, unless a thread has left by itself.
BoxStopReturns == (stage = "stopping" /\ ~broke) ~> (stage = "stopped" \/ broke \/ exited)
=============================================================================
