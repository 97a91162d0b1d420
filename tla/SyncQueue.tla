----------------------------- MODULE SyncQueue -----------------------------
(***************************************************************************)
(* sample_pipeline/common/synchronous_queue.c with the threads of          *)
(* multi_pipe_crop_and_stitch.c that share vse_to_n2d: one producer that   *)
(* fills items with camera frames, users that read each of them.  Items    *)
(* circulate between two mqueues, ununsed_queue and inused_queue.  The     *)
(* queues call back into this module under their mutex, so a critical      *)
(* section of either queue, callback included, is one step; the writes of  *)
(* sync_queue_save_inused_object before the enqueue are another.           *)
(*                                                                         *)
(* is_init_added, the frame indices and the time stamps are left out.      *)
(***************************************************************************)
EXTENDS Integers, Sequences, FiniteSets, SequencesExt

CONSTANTS
    Items,      \* data_item_t objects, queue_len of them
    Main,       \* users that loop on multi_pipe_stitch_info->is_running
    Joined,     \* those of them that pipeline_stop joins: get_stitch_data
    Codecs,     \* users that loop on the is_running of their own outfile
    NoItem,     \* NULL
    MayTimeOut, \* five seconds may pass although an item is on its way
    MayStop     \* the camera or the GPU may fail, the program be told to stop

Users == Main \cup Codecs

ASSUME SyncQueueAssumption ==
    /\ IsFiniteSet(Items) /\ Items # {}
    /\ IsFiniteSet(Users) /\ Users # {}
    /\ Main \cap Codecs = {} /\ Joined \subseteq Main
    /\ NoItem \notin Items
    /\ "main" \notin Codecs
    /\ MayTimeOut \in BOOLEAN /\ MayStop \in BOOLEAN

VARIABLES
    unused, inused,     \* ununsed_queue, inused_queue
    ref_repay, ref_obtain, user_recoder,    \* fields of each data_item_t
    status,             \* whose is_running *(inused_queue.status) is
    is_running,         \* the flags
    ppc, pitem,         \* get_data_from_pipeline and its data_item
    upc, uitem,         \* each user's thread and its data_item
    stopped             \* how far pipeline_stop is

fields == <<ref_repay, ref_obtain, user_recoder>>
svars == <<unused, inused, fields, status, is_running, ppc, pitem, upc, uitem, stopped>>

user_count == Cardinality(Users)
Flags == {"main"} \cup Codecs
FlagOf(u) == IF u \in Codecs THEN u ELSE "main"

\* sync_queue_create: one data_item_t after the other goes to ununsed_queue.
SyncInit ==
    /\ unused = SetToSeq(Items)
    /\ inused = << >>
    /\ ref_repay = [i \in Items |-> 0]
    /\ ref_obtain = [i \in Items |-> 0]
    /\ user_recoder = [i \in Items |-> {}]
    /\ status = "main"
    /\ is_running = [f \in Flags |-> TRUE]
    /\ ppc = "loop" /\ pitem = NoItem
    /\ upc = [u \in Users |-> "loop"]
    /\ uitem = [u \in Users |-> NoItem]
    /\ stopped = "no"

-----------------------------------------------------------------------------
\* get_data_from_pipeline.
ProducerLoop ==
    /\ ppc = "loop"
    /\ ppc' = IF is_running["main"] THEN "get" ELSE "exit"
    /\ pitem' = IF is_running["main"] THEN pitem ELSE NoItem
    /\ UNCHANGED <<unused, inused, fields, status, is_running, upc, uitem, stopped>>

\* sync_queue_get_unused_object.
ProducerGet ==
    /\ ppc = "get"
    /\ unused # << >>
    /\ pitem' = Head(unused)
    /\ unused' = Tail(unused)
    /\ ppc' = "fill"
    /\ UNCHANGED <<inused, fields, status, is_running, upc, uitem, stopped>>

\* Some user has an item to repay, or the front item to obtain first; that
\* takes it less than the five seconds of the others.
ItemIsDue ==
    \E u \in Users :
        \/ upc[u] = "use"
        \/ /\ inused # << >> /\ u \in user_recoder[Head(inused)]
           /\ upc[u] = "obtain" \/ (upc[u] = "loop" /\ is_running[FlagOf(u)])

\* Out of tries, it returns 0 all the same and leaves data_item as it was.
ProducerGetTimesOut ==
    /\ MayTimeOut \/ ~ItemIsDue
    /\ ppc = "get"
    /\ unused = << >> /\ pitem # NoItem
    /\ ppc' = "fill"
    /\ UNCHANGED <<unused, inused, fields, status, is_running, pitem, upc, uitem, stopped>>

\* hbn_vnode_getframe writes the frame into the item; without one the thread
\* gives up and stops the others.
ProducerFill ==
    /\ ppc = "fill"
    /\ \/ ppc' = "init" /\ UNCHANGED is_running
       \/ /\ MayStop
          /\ ppc' = "exit"
          /\ is_running' = [is_running EXCEPT !["main"] = FALSE]
    /\ UNCHANGED <<unused, inused, fields, status, pitem, upc, uitem, stopped>>

\* Mutant: ref_repay is not set again.
ProducerInitHalf ==
    /\ ppc = "init"
    /\ ref_obtain' = [ref_obtain EXCEPT ![pitem] = user_count]
    /\ ppc' = "save"
    /\ UNCHANGED <<unused, inused, ref_repay, user_recoder, status, is_running,
                   pitem, upc, uitem, stopped>>

\* sync_queue_save_inused_object: without a lock, and then under it; a full
\* queue, tried for five seconds, ends the thread.
ProducerInit ==
    /\ ppc = "init"
    /\ ref_repay' = [ref_repay EXCEPT ![pitem] = user_count]
    /\ ref_obtain' = [ref_obtain EXCEPT ![pitem] = user_count]
    /\ ppc' = "save"
    /\ UNCHANGED <<unused, inused, user_recoder, status, is_running, pitem, upc, uitem, stopped>>

ProducerSave ==
    /\ ppc = "save"
    /\ Len(inused) < Cardinality(Items)
    /\ user_recoder' = [user_recoder EXCEPT ![pitem] = Users]
    /\ inused' = Append(inused, pitem)
    /\ ppc' = "loop"
    /\ UNCHANGED <<unused, ref_repay, ref_obtain, status, is_running, pitem, upc, uitem, stopped>>

ProducerSaveFails ==
    /\ ppc = "save"
    /\ Len(inused) = Cardinality(Items)
    /\ ppc' = "exit"
    /\ is_running' = [is_running EXCEPT !["main"] = FALSE]
    /\ UNCHANGED <<unused, inused, fields, status, pitem, upc, uitem, stopped>>

Producer ==
    \/ ProducerLoop \/ ProducerGet \/ ProducerGetTimesOut
    \/ ProducerFill \/ ProducerInit \/ ProducerSave \/ ProducerSaveFails

-----------------------------------------------------------------------------
\* get_stitch_data, get_data_from_feedback_vse (Main), pipeline_codec_thread
\* (Codecs).  A main user that leaves stops the others.
UserExit(u) ==
    /\ upc' = [upc EXCEPT ![u] = "exit"]
    /\ is_running' = IF u \in Main THEN [is_running EXCEPT !["main"] = FALSE] ELSE is_running

UserLoop(u) ==
    /\ upc[u] = "loop"
    /\ IF is_running[FlagOf(u)]
       THEN /\ upc' = [upc EXCEPT ![u] = "obtain"]
            /\ status' = FlagOf(u)
            /\ UNCHANGED is_running
       ELSE UserExit(u) /\ UNCHANGED status
    /\ UNCHANGED <<unused, inused, fields, ppc, pitem, uitem, stopped>>

\* Mutant: user_recoder is not cleared.
UserObtainAgain(u) ==
    /\ upc[u] = "obtain"
    /\ inused # << >>
    /\ LET i == Head(inused)
       IN  /\ ref_obtain[i] > 0
           /\ ref_obtain' = [ref_obtain EXCEPT ![i] = @ - 1]
           /\ inused' = IF ref_obtain[i] = 1 THEN Tail(inused) ELSE inused
           /\ uitem' = [uitem EXCEPT ![u] = i]
    /\ upc' = [upc EXCEPT ![u] = "use"]
    /\ UNCHANGED <<unused, ref_repay, user_recoder, status, is_running, ppc, pitem, stopped>>

\* Mutant: the first user takes the item out.
UserObtainAlone(u) ==
    /\ upc[u] = "obtain"
    /\ inused # << >>
    /\ u \in user_recoder[Head(inused)]
    /\ user_recoder' = [user_recoder EXCEPT ![Head(inused)] = @ \ {u}]
    /\ ref_obtain' = [ref_obtain EXCEPT ![Head(inused)] = @ - 1]
    /\ inused' = Tail(inused)
    /\ uitem' = [uitem EXCEPT ![u] = Head(inused)]
    /\ upc' = [upc EXCEPT ![u] = "use"]
    /\ UNCHANGED <<unused, ref_repay, status, is_running, ppc, pitem, stopped>>

\* Mutant: ref_obtain is not lowered, so that the item stays at the front.
UserObtainUncounted(u) ==
    /\ upc[u] = "obtain"
    /\ inused # << >>
    /\ LET i == Head(inused)
       IN  /\ u \in user_recoder[i]
           /\ ref_obtain[i] > 0
           /\ user_recoder' = [user_recoder EXCEPT ![i] = @ \ {u}]
           /\ inused' = IF ref_obtain[i] = 1 THEN Tail(inused) ELSE inused
           /\ uitem' = [uitem EXCEPT ![u] = i]
    /\ upc' = [upc EXCEPT ![u] = "use"]
    /\ UNCHANGED <<unused, ref_repay, ref_obtain, status, is_running, ppc, pitem, stopped>>

\* sync_queue_obtain_inused_object_width_user with an item at the front:
\* dequeue_process_func_with_user decides whether it is still due to u, and
\* the last user takes it out.
UserObtain(u) ==
    /\ upc[u] = "obtain"
    /\ inused # << >>
    /\ LET i == Head(inused)
       IN  /\ u \in user_recoder[i]
           /\ ref_obtain[i] > 0
           /\ user_recoder' = [user_recoder EXCEPT ![i] = @ \ {u}]
           /\ ref_obtain' = [ref_obtain EXCEPT ![i] = @ - 1]
           /\ inused' = IF ref_obtain[i] = 1 THEN Tail(inused) ELSE inused
           /\ uitem' = [uitem EXCEPT ![u] = i]
    /\ upc' = [upc EXCEPT ![u] = "use"]
    /\ UNCHANGED <<unused, ref_repay, status, is_running, ppc, pitem, stopped>>

\* E_QUEUE_ERROR_REPEAT: u has had the front item; it comes again later.
UserRepeat(u) ==
    /\ upc[u] = "obtain"
    /\ inused # << >>
    /\ u \notin user_recoder[Head(inused)]
    /\ ref_obtain[Head(inused)] > 0
    /\ uitem' = [uitem EXCEPT ![u] = Head(inused)]
    /\ upc' = [upc EXCEPT ![u] = "loop"]
    /\ UNCHANGED <<unused, inused, fields, status, is_running, ppc, pitem, stopped>>

\* Nothing came for five seconds, and the flag it looked at after each was set.
UserTimesOut(u) ==
    /\ MayTimeOut \/ ppc = "exit"
    /\ upc[u] = "obtain"
    /\ inused = << >> /\ is_running[status]
    /\ UserExit(u)
    /\ UNCHANGED <<unused, inused, fields, status, ppc, pitem, uitem, stopped>>

\* E_QUEUE_STOPPED, seen by a waiting user.  A codec leaves; a main user goes
\* on as if it had obtained an item, with the data_item of its last turn (with
\* none yet, it dereferences NULL and the program is gone).
UserStopped(u) ==
    /\ upc[u] = "obtain"
    /\ inused = << >>
    /\ ~is_running[status]
    /\ upc' = [upc EXCEPT ![u] =
                IF u \in Codecs THEN "exit" ELSE IF uitem[u] = NoItem THEN "crash" ELSE "use"]
    /\ UNCHANGED <<unused, inused, fields, status, is_running, ppc, pitem, uitem, stopped>>

\* Mutant: the first user puts the item back.
UserRepayAlways(u) ==
    /\ upc[u] = "use"
    /\ Len(unused) < Cardinality(Items)
    /\ ref_repay' = [ref_repay EXCEPT ![uitem[u]] = @ - 1]
    /\ unused' = Append(unused, uitem[u])
    /\ upc' = [upc EXCEPT ![u] = "loop"]
    /\ UNCHANGED <<inused, ref_obtain, user_recoder, status, is_running, ppc, pitem, uitem, stopped>>

\* sync_queue_repay_unused_object: the last user puts the item back; a full
\* queue ends the thread before its callback is called.
UserRepay(u) ==
    /\ upc[u] = "use"
    /\ Len(unused) < Cardinality(Items)
    /\ ref_repay' = [ref_repay EXCEPT ![uitem[u]] = @ - 1]
    /\ unused' = IF ref_repay[uitem[u]] = 1 THEN Append(unused, uitem[u]) ELSE unused
    /\ upc' = [upc EXCEPT ![u] = "loop"]
    /\ UNCHANGED <<inused, ref_obtain, user_recoder, status, is_running, ppc, pitem, uitem, stopped>>

UserRepayFails(u) ==
    /\ upc[u] = "use"
    /\ Len(unused) = Cardinality(Items)
    /\ UserExit(u)
    /\ UNCHANGED <<unused, inused, fields, status, ppc, pitem, uitem, stopped>>

\* get_stitch_data breaks out of its loop with the item in hand: there is no
\* output buffer for it, the GPU refuses the work, or the result cannot be
\* queued.  The item is not repaid.
UserGivesUp(u) ==
    /\ MayStop
    /\ u \in Joined
    /\ upc[u] = "use"
    /\ upc' = [upc EXCEPT ![u] = "left"]
    /\ is_running' = [is_running EXCEPT !["main"] = FALSE]
    /\ UNCHANGED <<unused, inused, fields, status, ppc, pitem, uitem, stopped>>

\* A thread that is still there when the queue and its items have been freed:
\* its next call may do anything.
UserAfterFree(u) ==
    /\ upc[u] \in {"obtain", "use"}
    /\ upc' = [upc EXCEPT ![u] = "crash"]
    /\ UNCHANGED <<unused, inused, fields, status, is_running, ppc, pitem, uitem, stopped>>

User(u) ==
    \/ UserLoop(u)
    \/ /\ stopped # "destroyed"
       /\ \/ UserObtain(u) \/ UserRepeat(u)
          \/ UserTimesOut(u) \/ UserStopped(u)
          \/ UserRepay(u) \/ UserRepayFails(u) \/ UserGivesUp(u)
    \/ stopped = "destroyed" /\ UserAfterFree(u)

-----------------------------------------------------------------------------
\* pipeline_stop: joins the producer and get_stitch_data, but not
\* get_data_from_feedback_vse, then lets the codecs go, joins them and drains
\* and frees the queues.
Gone(u) == upc[u] \in {"exit", "left"}

Stop ==
    /\ MayStop
    /\ stopped = "no"
    /\ stopped' = "joinMain"
    /\ is_running' = [is_running EXCEPT !["main"] = FALSE]
    /\ UNCHANGED <<unused, inused, fields, status, ppc, pitem, upc, uitem>>

\* Mutant: the codecs are joined with their flags up.
StopCodecsUntold ==
    /\ stopped = "joinMain"
    /\ ppc = "exit" /\ \A u \in Joined : Gone(u)
    /\ stopped' = "joinCodecs"
    /\ UNCHANGED <<unused, inused, fields, status, is_running, ppc, pitem, upc, uitem>>

StopCodecs ==
    /\ stopped = "joinMain"
    /\ ppc = "exit" /\ \A u \in Joined : Gone(u)
    /\ stopped' = "joinCodecs"
    /\ is_running' = [f \in Flags |-> FALSE]
    /\ UNCHANGED <<unused, inused, fields, status, ppc, pitem, upc, uitem>>

Destroy ==
    /\ stopped = "joinCodecs"
    /\ \A u \in Codecs : Gone(u)
    /\ stopped' = "destroyed"
    /\ unused' = << >> /\ inused' = << >>
    /\ UNCHANGED <<fields, status, is_running, ppc, pitem, upc, uitem>>

Stopping == StopCodecs \/ Destroy

SyncNext == Producer \/ (\E u \in Users : User(u)) \/ Stop \/ Stopping

SyncSpec == SyncInit /\ [][SyncNext]_svars

(***************************************************************************)
(* Fairness.  Every thread is scheduled and every wait inside the queues   *)
(* is timed, so each of them goes on; nothing obliges anyone to stop, but  *)
(* pipeline_stop, once it has begun, goes on as well.                      *)
(***************************************************************************)
SyncFairSpec ==
    /\ SyncSpec
    /\ WF_svars(Producer)
    /\ \A u \in Users : WF_svars(User(u))
    /\ WF_svars(Stopping)

-----------------------------------------------------------------------------
SyncTypeOK ==
    /\ unused \in Seq(Items) /\ inused \in Seq(Items)
    /\ ref_repay \in [Items -> Int] /\ ref_obtain \in [Items -> 0 .. user_count]
    /\ user_recoder \in [Items -> SUBSET Users]
    /\ status \in Flags /\ is_running \in [Flags -> BOOLEAN]
    /\ ppc \in {"loop", "get", "fill", "init", "save", "exit"}
    /\ upc \in [Users -> {"loop", "obtain", "use", "left", "exit", "crash"}]
    /\ pitem \in Items \cup {NoItem}
    /\ uitem \in [Users -> Items \cup {NoItem}]
    /\ stopped \in {"no", "joinMain", "joinCodecs", "destroyed"}

UsersOf(i) == {u \in Users : upc[u] = "use" /\ uitem[u] = i}

\* While the producer writes an item, nobody reads it and it is in no queue.
ProducerExclusive ==
    ppc \in {"fill", "init", "save"} =>
        UsersOf(pitem) = {} /\ pitem \notin Range(unused) \cup Range(inused)

\* "return 0; // users are not done with it yet": an item of ununsed_queue is
\* in nobody's hands.
FreeIsUnused == \A i \in Range(unused) : UsersOf(i) = {}

\* The counts are exact: of a published item, ref_obtain counts the users
\* that have yet to obtain it and ref_repay those that have yet to repay it;
\* only the front item is partly obtained.  So the counts never pass zero,
\* which is where the callbacks leave the program with exit(-1).
CountsExact ==
    \A n \in DOMAIN inused :
        LET i == inused[n]
        IN  /\ ref_obtain[i] = Cardinality(user_recoder[i])
            /\ ref_repay[i] = ref_obtain[i] + Cardinality(UsersOf(i))
            /\ ref_obtain[i] > 0
            /\ n > 1 => user_recoder[i] = Users

\* An item is in one place of one queue at most, so sync_queue_destory frees
\* each item once, unless get_stitch_data has left with an item in hand: with
\* one item fewer the producer, told "success" when its wait has timed out,
\* finds room to queue the item of its last turn a second time.
NoDoubleItem ==
    (\A u \in Users : upc[u] # "left")
    => LET both == unused \o inused
       IN  \A m, n \in DOMAIN both : both[m] = both[n] => m = n

\* "1. wait thread stop": when pipeline_stop frees the queues, no thread is in
\* a call of them or has an item.  This does not hold of the thread that is
\* not joined.
DestroyedIsUnused == stopped = "destroyed" => \A u \in Users : upc[u] \notin {"obtain", "use"}

\* The queue is a broadcast: every user receives every item once and in
\* order, and an item is reused only after the last has returned it.
BeingFilled == IF ppc \in {"loop", "get"} THEN NoItem ELSE pitem

\* Only the front item may have been obtained by some of the users.
Due(u) ==
    IF inused # << >> /\ u \notin user_recoder[Head(inused)] THEN Tail(inused) ELSE inused

Held(u) == IF upc[u] = "use" THEN uitem[u] ELSE NoItem

Abstract == INSTANCE Broadcast WITH
    free <- unused,
    filling <- BeingFilled,
    todo <- [u \in Users |-> Due(u)],
    holds <- [u \in Users |-> Held(u)]

ImplementsBroadcast == Abstract!BroadcastSpec

\* A published item reaches each user, although the users can only advance
\* together.
EveryUserObtains ==
    \A i \in Items, u \in Users :
        (i \in Range(inused) /\ u \in user_recoder[i]) ~> (upc[u] = "use" /\ uitem[u] = i)

\* The pool never runs dry for good: the producer keeps publishing.
KeepsPublishing == []<>(ppc = "save")

\* pipeline_stop does not hang in its joins, whoever stopped first, unless
\* the program is gone.
StopJoins == stopped = "joinMain" ~> (stopped = "destroyed" \/ \E u \in Users : upc[u] = "crash")
=============================================================================
