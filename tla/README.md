# TLA+ models of the x5 multimedia samples

This directory holds a formal model of the concurrent core of the repository:
the blocking queue and the thread life cycle every pipeline is built on, the
camera, inference and box pipelines of `sunrise_camera`, its websocket server
with the switch of the running solution, and the queue with several users of
`sample_pipeline`. TLC checks the models on small instances; TLAPS proves the
safety properties and the refinements for every size.

Paths below are relative to `src/`; `common/` and `Platform/` without a prefix
are those of `sunrise_camera/`.

## The system

The repository is a set of samples for the X5 board and one application,
`sunrise_camera`. A camera frame goes through hardware nodes (sensor, ISP, VSE
scaler), is lent to a program thread, is given to an encoder, a display, a 2D
unit or an inference engine, and must be given back. Hardware calls are blocking
library calls; all control is in the threads and the queues between them.

| Component | State | Operations | Interacts with | Hard part |
|---|---|---|---|---|
| `common/utils/src/mqueue.c` (same in `sample_pipeline/common`) | ring, `u32Front`, `u32Rear`, mutex, two condition variables | create, destroy, enqueue (blocking), enqueueEx, dequeue, dequeueTimed, isEmpty, isFull | every pipeline | lost wake-ups, time-outs, the two tests made without the mutex |
| `common/utils/src/mthread.c` (same in `sample_pipeline/common`) | `eState` (volatile, no lock), `pThread_Id` | start, startHighPriority, stop, finish | every pipeline | the stop races with a thread that ends by itself; a failed creation |
| `Platform/x5/vpp_impl/src/vpp_camera_impl.c` | per stream two queues of frame descriptors, counters, two threads | start, stop, `vlfow_get_stream_proc`, `venc_get_stream_proc` | mqueue, mthread, VSE, encoder, display | ownership of descriptors and frames over errors and stops |
| `sample_pipeline/common/synchronous_queue.c`, `multi_pipe_crop_and_stitch.c` | items with two reference counts and a set of users, two queues with callbacks under the mutex, `is_running` flags | create, add user, get unused, save in use, obtain, repay, destroy | mqueue, the sample's threads | several users in lockstep, time-outs, the order of the stop |
| `Platform/x5/bpu_wrap/src/bpu_wrap.c` | two queues (1 and 2 slots), two rings of five tensors, their indices, two threads | start, send a frame, infer, post-process, stop | mqueue, mthread, vpp_camera, websocket | nothing but indices protects the tensors; results are skipped under load, yet the index goes on |
| `Platform/x5/vpp_impl/src/vpp_box_impl.c`, `vp_wrap/src/vp_codec.c` | one `src_img`, decoder, VSE channels and encoders, a decode thread, vflow and one thread per stream | start, stop | mthread, VSE, decoder, encoder, RTSP | no queue of its own: the VSE's feedback frame is the only signal that `src_img` is free; retries of the decode thread against the stop |
| `Platform/x5/main/src/solution_handle.c`, `main/src/main.c` | `g_solution_handle`, `g_solution_config`, what the hardware runs | init, uninit, start, stop, check, set, save, recovery | websocket threads, signal handler, pipelines | called from several threads without a lock; results that nobody looks at |
| `Transport/websocket/handle` | list of clients with one lock, one thread per client | accept, remove, answer, multicast, commands | browsers, solution_handle, the solution's threads | a blocking `send()` under the lock of the list, in threads that the switch joins |
| `common/utils/src/stream_manager.c` | ring of packets, one write and up to nine read cursors | create, put, get, front, post, destroy | nobody: it has no caller | overrun of slow readers |
| `sample_pipeline/mp4_decode_and_display` | ring with time stamps | enqueue, get by time stamp | its two threads | overwrite against lookup |
| `sample_pipeline/single_pipe_vin_isp_vse_multi_process` | frames lent over a socket | send, return | second process | a peer that dies with frames |

The other parts (hardware wrappers, configuration files, sensor tables, UVC
demos, crypto, board tests, vendored code) are listed in `PROJECT.json` with the
reason why they have no model.

## The modules

| Module | What it is | Code |
|---|---|---|
| `BoundedFifo` | abstract: a list of at most N pointers | what `mqueue.h` promises |
| `MQueue` | the ring queue and the threads inside its calls | `mqueue.c` |
| `MQueueProofs` | theorems about `MQueue` | |
| `MThread` | start, stop, finish of the threads of one owner | `mthread.c` |
| `MThreadProofs` | theorems about `MThread` | |
| `CameraPipeline` | EXTENDS `MThread`; vflow and venc of one stream, start and stop | `vpp_camera_impl.c`, `vp_vse.c` |
| `CameraPipelineProofs` | theorems about `CameraPipeline` | |
| `ListLemmas` | lemmas about lists that several proofs use | |
| `LossyFifo` | abstract: a channel that may forget but never confuses | what a pipeline that skips frames owes its end |
| `BpuWrap` | EXTENDS `MThread`; sender, inference and post-process of one channel | `bpu_wrap.c`, `vpp_camera_impl.c` |
| `BpuWrapProofs` | theorems about `BpuWrap` | |
| `BoxPipeline` | EXTENDS `MThread`; decode, vflow and encode threads of one channel | `vpp_box_impl.c`, `vp_codec.c` |
| `BoxPipelineProofs` | theorems about `BoxPipeline` | |
| `WebControl` | client threads, their list, the commands, the solution they control | `Transport/websocket/handle`, `solution_handle.c`, `solution_config.c`, `main.c`, start and stop of `vpp_camera_impl.c` and `vpp_box_impl.c` |
| `WebControlProofs` | theorems about `WebControl` | |
| `Broadcast` | abstract: a pool of items published to several users | what `sync_queue_t` promises |
| `SyncQueue` | producer, users and `pipeline_stop` around `vse_to_n2d` | `synchronous_queue.c`, `multi_pipe_crop_and_stitch.c` |
| `SyncQueueProofs` | theorems about `SyncQueue` | |
| `MC*` | instances for TLC | |

### MQueue

The mutex makes the part of a call between lock and unlock, or between two
waits, one step: `EnqueueWait`/`EnqueuePut`, `EnqueueExFull`/`EnqueueExPut`,
`DequeueWait`/`DequeueTake`, `TimedWait`/`TimedExpire`/`TimedReturn`. A thread in
`pthread_cond_wait` has `pc` "space_wait" or "data_wait"; the broadcasts of
`WakeSpace` and `WakeData` move all of them on, `SpuriousWake` moves one.
`mQueueIsEmpty` reads under the mutex and `mQueueIsFull` without: `IsFullReadRear`
and `IsFullReadFront` are two steps. What a call returned stays in `ret` until
the thread calls again, so that a property can compare the answer with the
present. The deadline of a timed wait is computed as the code does it, with
`TicksPerSec` nanoseconds to the second: `DeadlineValid` is what
`pthread_cond_timedwait` asks of `tv_nsec`. The carry at `mqueue.c:151` is made
for `>` and not for `>=`: a deadline that falls exactly on a second is refused
and the call fails at once. The model has this path and the properties hold
with it.

`Supply` and `Discard` stand for the producers and consumers around the queue:
a pointer comes from the world and goes back to it.

### MThread

`call[w]` is the owner's position inside `mThreadStart` or `mThreadStop` of thread
`w`. Each read and write of `eState` is a step, because no lock protects it.
`CreateFails` leaves `pThread_Id` as it was or undefined; to join an undefined id
may fail (`StopJoinStray`) or hang. Detached threads, which no caller has, and
names are left out.

### CameraPipeline

Steps are calls and tests of `eState`; the queues are sequences, which
`ImplementsFifo` justifies. A descriptor (`hbn_vnode_image_t`) is an element of
`Descs`; `image[d]` is the frame in it and `heap` the set of those allocated.
`lent` is the sequence of frames the VSE has handed out, `encoding` the frame
the encoder reads. `vpc` and `epc` are the positions in the two loops, `got`,
`saved` and `stream` the local flags that steer their exits. An encoder input or
release error makes venc break out (`MayBreak`); an output error other than a
time-out ends the program and is left out. The branch in which an enqueue
finds the queue full and tries again is not written out: `QueuesHaveRoom` shows
that it is never taken. A release (`GiveBack`) takes the first entry of the frame
out of `lent`; `OrderInv` of the proofs shows that there is only one. The return value of `mThreadStart`, which
`vpp_camera_start` ignores, is not branched on either.

### SyncQueue

`mqueue.c` of `sample_pipeline` calls back into `synchronous_queue.c` with the
queue's mutex held: the critical section with its callback is one step.
`sync_queue_save_inused_object` sets both counts before it enqueues, outside the
mutex, and that is a step of its own (`ProducerInit`). `status` is the pointer to
the `is_running` flag that the waiting loop of the queue looks at: each user
stores its own there. A user that gets `E_QUEUE_STOPPED` goes on with the item of
its last turn if it is one of `get_stitch_data` and `get_data_from_feedback_vse`;
the codec threads leave. `Joined` are the main users `pipeline_stop` joins; what
another does with a queue that has been freed is `UserAfterFree`. `UserGivesUp` is
`get_stitch_data` on the breaks of its loop between the obtain and the repay (lines
939 to 1045): its item is not repaid, and its position is "left". A thread that
returns before its loop (the GPU does not open, the codec's file does not) and a
sixth user, whom `sync_queue_add_user` refuses, are left out. Frame indices, time stamps and `is_init_added`, which
decide nothing here, are left out. `n2d_to_output` with its single user is not
modelled yet; that `sync_queue_get_unused_object` may return success without an
item there, which `get_stitch_data` would dereference, is left to that model.

### BpuWrap

A frame of the camera is copied into the next tensor of the input ring, inferred
into the next tensor of the output ring, post-processed and sent to the
browsers. Tensors are indices; `inTensor` and `outTensor` say which frame each
holds, `NoFrame` before the first and `Freed` once its memory is released. The
queues are sequences of at most `InputSlots` and `OutputSlots` entries: one less
than the length given to `mQueueCreate`, as `MQueue` shows (the comment at
`bpu_wrap.c:739` says that the input queue stores two; it stores one). A test of
`mQueueIsFull` and the enqueue behind it are separate steps. `skips` counts the
results skipped since the post-process last was idle. yolov5s and fcos run the
same code; mobilenetv2, one thread without an output queue, is left out.
`sender` is the thread of `vpp_camera_impl.c` which asks the VSE for a frame,
sends it and releases it; it is stopped before post and infer. That the stop of
the camera may end before `bpu_wrap_stop` is left to `WebControl`.

### WebControl

`first`, `last`, `next` and `len` are the list of `Datastructures.c` as it stands
in memory; `lock` is its one mutex. `list_add`, `list_remove` and the start of a
multicast happen under the lock in one step; the sends of a multicast are a step
each, with the lock held, because `send()` blocks while a browser does not read
(`Deaf`). A client that leaves takes the lock (`LeaveTake`), and keeps it while
`list_remove` sends the close frame (`Leave`). The signal with which `mThreadStop` wakes its thread interrupts such a
`send()`, whose result nobody looks at, and the multicast goes on with the next
client. `pc` is where a client thread (or main) is between accept and removal, or
in a switch of the solution: stop, uninit, check, set, init, start, answer.
`hardware` abstracts the pipelines to down, ready, partly started and running, and
to "lame" and "limping", a ready or running solution less a channel whose init
failed: `vpp_camera_init` goes on with the next one and returns 0
(`InitSwallows`). The senders are the threads of a running solution that
multicast; those in `Inferring` are the threads of `bpu_wrap`, which are stopped
after the others and after the codecs and the vflow of their channel. stop,
uninit, init and start may each fail as the code lets them: a stop may end before
`bpu_wrap_stop` (`StopFails`), and a start that then meets a thread that runs writes
over its state and mutex. What such a program does is not modelled: `StartDoubles`
sets `doubled` and the model ends there, as it does with `exited`.
`solution_cfg_load` reads the file once, so a later init takes what
`g_solution_config` holds. `solution_cfg_update_display_config` changes it behind
every command that reads it: `NoDisplay[k]` is configuration `k` with its displays
reset, `UpdatesDisplay` the change, `Same` equality up to it. The check of a camera
configuration reads it into `g_vpp_camera`, over the states of the threads
(`CheckRewrites`).

History variables say what a property needs of the past: `before`, what ran when
the switch began, if `g_solution_config` then said the same; `faulty`, that its
uninit failed; `cutShort`, that a stop ended early and no start was whole since.

**Assumption.** `Alone`: nobody switches, saves or stops the program while another
does. The code does not enforce it, and two users who switch at once do get two
solutions at once or none; what a single switch promises can only be checked
without that. Commands that only read, the other browsers, and the threads of
the solution interleave freely.

### BoxPipeline

There is no queue of the program's own. vflow copies a decoded frame into the
only `src_img`, sends it to the VSE and then takes the frame the VSE made for
the BPU: that is how it knows that `src_img` may be written. `VseDone` is the
VSE's step: it copies `source` to every channel; a full channel drops the new
frame. A decoder that is given a packet holds up to `DecoderSlots` of them and
gives the frames back in the order of the packets: the code asks the decoder to
reorder (`vp_codec.c:461`, `:467`), so what is said of order is said of the order it
chooses. A sequence header that comes out empty, after which the packet is sent
in the same turn, and the input that marks the end of the stream
(`vp_codec.c:1124`) are left out. The
retries of `AV_open_stream` are counted. `encode_stream` keeps what it held from
turn to turn (`bitstream`), so that a turn without output could be seen to push
it again. An `exit(-1)` of the code sets `exited`.

## The runs

| Run | Instance | Question and answer |
|---|---|---|
| `queue_many` | 2 producers, 2 consumers, 3 pointers, ring of 3 | no lost wake-up, no pointer in two places, implements `BoundedFifo`: holds |
| `queue_pair` | 1 + 1, liveness | for a single producer "not full" stays true, for a single consumer "not empty" does; blocked calls return: holds |
| `thread_lifecycle` | 2 threads, errors, failed creations | a stopped thread is quiet, only real threads are signalled, no thread leaves because it started too early: holds |
| `camera_safety` | 3 buffers, encoder errors, stop at any time, restart | descriptors and frames are conserved and ordered, counters in range, queues never full: holds |
| `camera_live` | 2 buffers, no errors | stop ends, capture goes on, queued frames are encoded: holds |
| `camera_display` | 2 buffers | does vflow own what it displays? no |
| `sync_share` | 3 items, 1 main user, 2 codecs | the reference counts implement `Broadcast`, everybody is served: holds |
| `sync_stop` | 2 items, 2 main users, 1 codec, stops, users that leave | joins end, and no item is in two places unless a user left with one: holds |
| `sync_repaid` | stops | is a free item unused? no |
| `bpu_flow` | rings of 2 and 4 tensors, 1 slot per queue, 5 frames, errors, restart | input tensors are owned, results live and true unless skipped, frames in order, stop ends: holds |
| `web_switch` | 2 browsers, one of which switches, 2 senders, 3 configurations, sockets of 1 message | the list is whole, sends go to connected clients, no thread is started twice unless a stop ended early, answers are true up to the displays, a switch ends: holds |
| `box_flow` | 1 stream, 3 packets, 2 retries, errors, restart | `src_img` is not overwritten under the VSE, the stream keeps its order, stop ends: holds |

**Bounds.** A ring of 3 slots holds 2 pointers: it is empty, partly filled and
full, and its indices wrap around in every order. Two threads on each side are
the least with which a `signal` in place of a `broadcast`, or a wake-up taken by
the wrong thread, would show; the theorems cover any number. Three VSE buffers
is the number of the code (`VPP_VSE_OUTBUFFER_COUNT`); two are enough for the
liveness runs, where a thread holds one and the other waits. Three items and
three users let one user be two items behind another. Five
frames take the two rings of `bpu_flow` around at least once with every tensor,
queue slot and thread occupied; the code's rings of five and queue of two slots
only add tensors that are free, and the two safety theorems hold for all sizes.
`web_switch` has two clients, so that either end of the list is cut while the other
stays; longer lists, with a middle, are the theorem's (`ListIsWellFormed`, any number).
Only one of them switches, which under `Alone` is what happens at any time. Its two
senders are one of `bpu_wrap` and one that is not, its three configurations two that
differ in their displays and one that is another solution, and a socket takes one
message, so that a browser is deaf soon. Three
packets keep decoder, VSE and encoder busy at once, and two retries make the
reopening meet the stop at its first and at its last try. No other counter is
unbounded (`MaxFrames` is a bound of the input, frames end there as a file
does); nothing is cut off by a state constraint. `queue_many` uses the
symmetry of threads in the same role and of pointers; its only PROPERTY is a
safety property. `camera_safety` uses the symmetry of VSE buffers. No liveness
run uses symmetry. `sync_stop` and `sync_repaid` do not check for
deadlock where the program may have ended.

**Fairness.** Every thread that can go on does (weak fairness per thread): the
threads are preemptively scheduled and nothing busy-waits with a lock held. In
`queue_pair` the consumer is taken to keep dequeuing and the producer to go on
after a call, as the loops of the pipelines do. In `camera_live` the VSE delivers
and the encoder finishes frames. In `bpu_flow` and
`box_flow` the calls into the hardware libraries, which have time-outs, return.
In `web_switch` threads step on, and one that waits for the lock of the list gets
it in the end although others take it again and again (strong fairness: see
`WebFairness`): the lock is free most of the time, between two results of a
solution that produces tens a second. A browser reads what it is sent, or
goes: one that stays connected and never reads blocks a `send()` under the lock
of the list, and with it every answer, for as long as TCP keeps it. No run assumes that somebody
stops or starts anything, or that an error occurs.

## What the violated runs show

- **camera_display** (`vpp_camera_impl.c:454`). A frame is displayed after it was
  handed to venc, which may have released and freed it. In the same way, a stop
  in the middle of the wait for the encoder's output releases the frame at
  line 305 while the encoder may still read it.
- **sync_repaid** (`multi_pipe_crop_and_stitch.c:904`). `E_QUEUE_STOPPED` counts as
  success; a main user repays its last item twice, and the item is free while a
  codec reads it.

## Met while modelling, without a run

Each of these is in the models, which take the path as the code does, but no run
is kept for it.

- `mthread.c:176`: `mThreadStop` tests `eState`, then stores STOPPING. A thread
  that calls `mThreadFinish` in between has its STOPPED overwritten, and the loop
  at line 203 waits for ever (`StopReturns` of `MThread` does not hold). The same
  loop is never left when `pthread_create` had failed. `BpuStopReturns` and
  `BoxStopReturns` therefore speak of threads that did not leave by themselves.
- `mqueue.c:151`: the carry of the deadline, described under MQueue.
- `synchronous_queue.c:128`: when no item comes back in time,
  `sync_queue_get_unused_object` returns success with the old item, which the
  users read; `sync_share` leaves time-outs out for that reason.
- `multi_pipe_crop_and_stitch.c:939` to `:1045`: `get_stitch_data` breaks out of its
  loop with an item in hand, on the lack of an output buffer, an error of the GPU
  or a full `n2d_to_output`. A producer that is then waiting for an item gets none
  for five seconds, is told success by line 128 above, and as `inused_queue` lacks
  the item that was taken away there is room to queue the old one a second time;
  `sync_queue_destory` frees it twice. `NoDoubleItem` without its hypothesis is
  violated in `sync_stop` in 28 steps.
- `multi_pipe_crop_and_stitch.c:1804`: `pipeline_stop` frees `vse_to_n2d` without
  having joined `get_data_from_feedback_vse_thread` (`DestroyedIsUnused`).
- `vpp_camera_impl.c:1295`: descriptors the stop finds in `m_vflow_to_enc_queue` are
  freed without a release of their frames, and `vp_vse_stop` (`vp_vse.c:81`) does
  nothing. `StopHardware` assumes that `hbn_vflow_stop`, or the deinit before a next
  start, takes them back in the closed library.
- `vpp_camera_impl.c:1343`, `vpp_box_impl.c:724`, `:732` and `:744`: a stop that fails
  for one channel returns before `bpu_wrap_stop` of that and later channels. The
  result is ignored (`handle_user_message.c:269`), inference and post-process go on
  over what uninit frees, and the next start creates them a second time over
  their state (`StartDoubles`).
- `vpp_camera_impl.c:1048` to `:1093`: `vpp_camera_init` passes over a channel that
  fails and returns 0: a switch is answered 200 although the solution runs without
  it ("limping").
- `solution_handle.c:180`: to read the configuration changes it: displays that were
  plugged in or out, or fit their camera no more, are reset in `g_solution_config`.
  What is sent with a refused switch may therefore differ in its displays from
  what runs; `AnswerIsTrue` is claimed up to `Same`.
- `bpu_wrap.c:294`: with two or more results skipped in a row the post-process can
  read a tensor that was written again, under the old time stamp.
  `MatchesUnlessSkipped` says how many skips the rings bear.
- `handle_user_message.c:335`: after a refused configuration the old one is started
  again, as it was last set or saved; if somebody saved another one meanwhile,
  that one runs and is sent, not the one that ran before.
- `vp_codec.c:71`: the result of the last retry of `AV_open_stream` is thrown away,
  the stream is given up even if it opened.
- `vpp_box_impl.c:295`: a release of a stale `encode_stream` fails and ends the
  program; `vpp_box_impl.c:212`: `src_img` is freed while the VSE may read it;
  `vpp_box_impl.c:169` stamps nanoseconds where `vp_codec.c:727` takes microseconds.

## What is proved

`MQueueProofs` proves, for every ring length of at least 2, all sets of
producers and consumers and all pointers, with the assumptions named in `MQueue`:

- `TypeCorrect`: the type invariant.
- `NoWakeupIsLost`: a thread asleep for room sees a full ring, one asleep for
  data an empty one, unless its wake-up is on the way. The invariant is inductive
  together with the types: every step that changes an index also wakes the side
  it concerns.
- `PointersOwned`: a pointer is in one slot or in one thread's hands. The live
  part of the ring is an interval modulo `u32Length`; the lemmas before it say how
  `Succ` moves the ends of that interval. Symbolic `%` is reduced by a lemma to a
  case distinction the SMT solver can do.
- `MQueueIsFifo`: the refinement to `BoundedFifo`: `Contents` of the initial ring
  is the empty list, a push appends, a pop takes the head, everything else
  stutters.
- `SoleProducerMayTrustNotFull`: with one producer the unlocked `mQueueIsFull` may
  be relied on when it says "not full", which is what the pipelines do.
- `SoleConsumerMayTrustNotEmpty`: with one consumer "not empty" stays true until it
  dequeues; `FrontIsMine` says that only a consumer can be inside a dequeue.

`MThreadProofs` proves, for any set of threads, with or without errors and failed
creations, `ThreadTypeCorrect`, `StoppedIsQuiet` (after `mThreadStop` the thread
is past its cleanup), `SignalledIsReal` and the action property `NoEarlyExit`.
None of the properties is inductive: that a thread seen STOPPED is quiet depends
on who may have stored STOPPED, and that on where the owner is. `ThreadInv` says,
for each thread, which positions of the owner go with which `eState`, that
STOPPING is only ever stored by a stop that has yet to return, and that a thread
that was started has an id and exists until it is joined.

`CameraPipelineProofs` proves, for any number of descriptors and buffers, with
errors, stops and restarts, every invariant of the run `camera_safety`. First
`DescriptorsAreConserved` and `QueuesAlwaysHaveRoom`: the inductive invariant
`PipelineInv` is `ThreadInv` of `MThread` with three more parts. `StageInv` ties the
stage of the owner to the threads that may run (the queues are drained only when
both are past their cleanup, which is what `StoppedIsQuiet` is for), `HandsInv` says
at which positions a thread has a descriptor in hand, and `PlaceInv` that every
allocated descriptor is in exactly one place. A queue that held as many
descriptors as there are would leave none in the hand that enqueues, which is
`QueuesHaveRoom`.

`FramesStayInOrder`, `EncoderReadsItsFrame` and `UsedCountStaysInRange` rest on
`FlowInv`, which adds to it what the descriptors carry. `LoopInv` and `FrameInv` say
where in its loop a thread has a frame, and in which descriptor. `OrderInv` says
that `lent` is what venc holds, what is queued and what vflow holds, without a
repetition: a release by venc therefore takes the oldest, a release by vflow that
gives up the newest. It is claimed only from the stop of the VSE until venc
leaves its loop, since a venc that breaks out with a frame in hand never gives it
back and order comes back only with `StopHardware`. `EncodingInv` says that the
encoder has a frame only while venc waits for its output, or was stopped there.
`CountInv` bounds `vflow_buffer_used_count` from both sides, by the descriptors that
are full and by those that are still empty: neither bound alone survives the
increments and decrements of the two threads.

`BpuWrapProofs` proves, for rings and queues of any size with more tensors than
slots, `BpuTypeCorrect`, `InputIsOwned` (the queued tensors and the one being read
are an interval of the ring behind `m_cur_input_tensor`) and `ResultsAreLive` (from
the order of the stop: `post` is quiet before `infer` is told to end).
`TimeStampsMatch` needs how far apart the output ring and its queue are
(`MatchInv`): a queued tensor is at most as many steps behind the index of the
inference as there are results queued behind it, skipped, and in the making, so
that it is not written again before that sum reaches the size of the ring.
`FlowIsLossyFifo` is the refinement of `LossyFifo`. What is pending there is the
concatenation of the output queue, the model, the input queue and the sender, and
each step of the code appends to it, takes its head, passes a frame on from one
part to the next (a stutter), or loses one: `PassOn` and its like in `ListLemmas`.

`WebControlProofs` proves, for any number of clients and senders,
`ListIsWellFormed` (the connected clients are a walk from `first` to `last` along
`next`, which every `list_add` extends and every `list_remove` shortens) and
`MulticastIsSafe` (while a sender's cursor is in the list its lock is taken, so
nobody leaves). The same module proves `NoThreadIsStartedTwice` and `AnswersAreTrue`,
from an invariant of their own, `ControlInv`: `OneChanges` (the assumption about the
users, one actor changes the solution at a time, is kept by every step), `ThreadsEnd`
(a thread told to stop has ended or is being joined, and none runs while the
hardware does not) and, for each actor, what holds at its position in the switch.
All of it speaks of the threads that are `Accounted` for: those outside `bpu_wrap`
without a condition, and those of `bpu_wrap` as long as no stop ended early since the
last whole start. An actor disturbs nobody if it is alone, or if all it changes of
the solution is what `g_config` says of the displays (`OneMoves`); that is why
`AnswersAreTrue` goes up to `Same`. It says what the solution was started with, not
that each of its channels came up.

`SyncQueueProofs` proves, for any numbers of items and users, `CountsAreExact`,
`ProducerIsAlone`, `FreeIsUnusedWhileSteady` and `SharingIsBroadcast` of a pipeline that is
`Steady`: the constants `MayStop` and `MayTimeOut` are FALSE, as in the run
`sync_share`. `SyncInv` needs all its parts at once. `PlaceInv` says where an item
may be (unused, with the producer, or published and with users); that every item
is somewhere gives the lock-free part: a producer that finds no unused item is
owed one (`SomeItemIsDue`), so it never goes on with its old item, and a queue
that lacks an item has room (`RoomForItem`), so no enqueue fails. `CountInv` ties
`ref_repay` to the users that hold an item, which is why the last user that
repays is the last reader. `SharingIsBroadcast` is the refinement: what is still due
to a user is `inused_queue`, without its front item if the user has had that; that
no other item may be partly obtained, and that the front item leaves with its last
user, are parts of `CountInv`.

`NoItemTwice` also covers a pipeline that stops, as long as nobody has left it with
an item in hand (`NoDoubleItem` has that as its hypothesis, and without it TLC finds
an item queued twice). A main user that sees the stop
repays the item of its last turn again, so that item may be unused and in hand
at once: this is what `sync_repaid` finds, and why `PlaceInv` and `CountInv` have the
parameter `loose`, the one item excepted from some of their parts. `OrderInv` says
why there is at most one: a user sees the stop only with `inused_queue` empty, all
users have then had the same last item, and it stands at the end of
`ununsed_queue`, where the producer takes it only when there is no other. Hence the
hypothesis `Cardinality(Items) > 1`; the code has three
(`PILELINE_OUT_BUFFER_COUNT` less `PILELINE_OUT_BUFFER_RELEASE_COUNT`, `vp_pipeline.h:10`), and
with a single item and a stop TLC does find it in both queues. `StopInv` adds the two
ends of such a pipeline: `Stuck`, in which the producer goes on without an item
because those who were to obtain the front one have left (it then resets the counts of
an item that is queued, so `CountsExact` and `ProducerExclusive` are not claimed
there), and `Dead`, after the queues are freed. `SyncTypeCorrect` needs no hypothesis: in
particular nobody fills, reads or repays what is no item.

`BoxPipelineProofs` proves, over any number of frames, errors and restarts,
`SourceIsMatched` and `FreedIsQuiet`. `BoxInv` is `ThreadInv` with `StageInv` (which
calls the owner has made in this stage, hence which threads may run) and
`FlowInv`: while vflow waits for the BPU's frame, `src_img` is with the VSE or
that frame is ready and holds it, at every other position of its loop neither.
vflow leaves its loop while the VSE still reads; that the next run starts clear
follows from `StageInv`, since nobody runs when `vpp_box_init` renews the VSE.
`StreamLosesOnly` is the refinement of `LossyFifo` by the way of the frames to one of
the streams, for any number of them; its hypothesis `Vencs # {}` only says that
there is a stream to speak of. `StreamInv` says which hands hold a frame where, and
that `encode_stream` is pushed only after a `get_output` that filled it.

`BpuKeepsThreadRules`, `BoxKeepsThreadRules` and `PipelineKeepsThreadRules` state that the
three pipelines implement `MThread`: each of their steps is one of its steps for one
thread, or leaves the threads alone.

Every invariant and every refinement that a passing run checks is stated by a
theorem. Only model-checked: all liveness (fairness and ENABLED are beyond the
prover). Of `SyncQueue` with time-outs only `SyncTypeCorrect` is known: every run has
`MayTimeOut` FALSE.

## Not modelled

- `stream_manager.c` has no caller left in the repository: its threads and their
  order could only be invented.
- `multi_pipe_crop_and_stitch`: `n2d_to_output`, a queue with a single user, and the
  feedback of frames to the VSE between it and `vse_to_n2d`.
- `bpu_wrap.c`: mobilenetv2; loading and unloading of models.
- WebSocket framing and handshake strings, which are conversions; the protocols
  chat and echo, with which a client's thread multicasts its own messages
  (`WebsocketWrap.c:319` to `:326`, `list_multicast` and `list_multicast_one`); the
  commands that only log, set the time or tune the ISP; threads of the solution
  that end by themselves. A failed `accept` frees the whole
  list (`WebsocketWrap.c:466`) and ends the server; it is left out.
- The second process of `single_pipe_vin_isp_vse_multi_process` and the decoder
  threads of `mp4_decode_and_display`.
- Code around closed hardware libraries without control of its own, constant
  tables, vendored parsers, digests, players and test programs: `PROJECT.json`
  gives the reason for each.

## Plan

Done in this order: `MQueue` with its proofs, `MThread` with its proofs,
`CameraPipeline`, `SyncQueue`, `BpuWrap`, `WebControl`, `BoxPipeline`, and the proofs
about `CameraPipeline`, `BpuWrap`, `WebControl`, `SyncQueue` and `BoxPipeline`. Next:

1. `n2d_to_output`, composed with `SyncQueue`.
2. The ring with time stamps of `mp4_decode_and_display`; the lending of frames to
   a second process, and its death.
3. A version of `WebControl` without `Alone`, once the code has a lock to model.
