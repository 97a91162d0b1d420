------------------------------ MODULE MThread ------------------------------
(***************************************************************************)
(* The worker threads of common/utils/src/mthread.c: mThreadStart,         *)
(* mThreadStop and mThreadFinish on a set of tsThread objects.             *)
(*                                                                         *)
(* One thread, the owner, makes the calls and is in one of them at a time; *)
(* call[w] is where it is.  eState is volatile and unprotected, so every   *)
(* read and every write of it is a step.  All threads of the program are   *)
(* E_THREAD_JOINABLE, and so are these.                                    *)
(***************************************************************************)
CONSTANTS
    Workers,        \* the tsThread objects
    MayBreak,       \* a worker may leave its loop by itself, on an error
    CreateMayFail   \* pthread_create may fail

ASSUME MThreadAssumption ==
    /\ MayBreak \in BOOLEAN
    /\ CreateMayFail \in BOOLEAN

VARIABLES
    eState,     \* psThreadInfo->eState
    tid,        \* psThreadInfo->pThread_Id: 0, a thread, or -1 and the like
    worker,     \* the POSIX thread
    call,       \* the owner's position in mThreadStart or mThreadStop
    result      \* what the owner's last call returned

threadVars == <<eState, tid, worker, call, result>>

EStates == {"STOPPED", "RUNNING", "STOPPING"}
Tids == {"zero", "valid", "invalid"}
\* "loop": the body runs; "leaving": out of the loop, cleaning up;
\* "exiting": past mThreadFinish's write; "exited": pthread_exit done.
WorkerStates == {"absent", "loop", "leaving", "exiting", "exited", "joined"}
Calls == {"none", "start", "create", "mark", "kill", "join", "poll", "end"}
Results == {"none", "started", "failed", "stopped"}

ThreadInit ==
    /\ eState = [w \in Workers |-> "STOPPED"]
    /\ tid = [w \in Workers |-> "zero"]
    /\ worker = [w \in Workers |-> "absent"]
    /\ call = [w \in Workers |-> "none"]
    /\ result = [w \in Workers |-> "none"]

OwnerFree == \A w \in Workers : call[w] = "none"

-----------------------------------------------------------------------------
\* Mutant: RUNNING is not stored before the thread is created.
StartCallUnmarked(w) ==
    /\ OwnerFree
    /\ result[w] \in {"none", "stopped"}
    /\ eState' = [eState EXCEPT ![w] = "STOPPED"]
    /\ call' = [call EXCEPT ![w] = "create"]
    /\ UNCHANGED <<tid, worker, result>>

\* mThreadStart: the state is set to STOPPED, then to RUNNING, then the
\* thread is created.
StartCall(w) ==
    /\ OwnerFree
    /\ result[w] \in {"none", "stopped"}
    /\ eState' = [eState EXCEPT ![w] = "STOPPED"]
    /\ call' = [call EXCEPT ![w] = "start"]
    /\ UNCHANGED <<tid, worker, result>>

StartMark(w) ==
    /\ call[w] = "start"
    /\ eState' = [eState EXCEPT ![w] = "RUNNING"]
    /\ call' = [call EXCEPT ![w] = "create"]
    /\ UNCHANGED <<tid, worker, result>>

\* mThreadStartHighPriority gives up when the scheduling attribute is refused.
StartRefused(w) ==
    /\ call[w] = "start"
    /\ call' = [call EXCEPT ![w] = "none"]
    /\ result' = [result EXCEPT ![w] = "failed"]
    /\ UNCHANGED <<eState, tid, worker>>

CreateOk(w) ==
    /\ call[w] = "create"
    /\ tid' = [tid EXCEPT ![w] = "valid"]
    /\ worker' = [worker EXCEPT ![w] = "loop"]
    /\ call' = [call EXCEPT ![w] = "none"]
    /\ result' = [result EXCEPT ![w] = "started"]
    /\ UNCHANGED eState

\* POSIX leaves pThread_Id undefined; the state stays RUNNING.
CreateFails(w) ==
    /\ CreateMayFail
    /\ call[w] = "create"
    /\ \E id \in {tid[w], "invalid"} : tid' = [tid EXCEPT ![w] = id]
    /\ call' = [call EXCEPT ![w] = "none"]
    /\ result' = [result EXCEPT ![w] = "failed"]
    /\ UNCHANGED <<eState, worker>>

\* Mutant: the early return for a STOPPED thread is missing.
StopCallAlways(w) ==
    /\ OwnerFree
    /\ call' = [call EXCEPT ![w] = "mark"]
    /\ UNCHANGED <<eState, tid, worker, result>>

\* mThreadStop: nothing to do for a thread seen STOPPED.
StopCall(w) ==
    /\ OwnerFree
    /\ IF eState[w] = "STOPPED"
       THEN /\ result' = [result EXCEPT ![w] = "stopped"]
            /\ UNCHANGED call
       ELSE /\ call' = [call EXCEPT ![w] = "mark"]
            /\ UNCHANGED result
    /\ UNCHANGED <<eState, tid, worker>>

StopMark(w) ==
    /\ call[w] = "mark"
    /\ eState' = [eState EXCEPT ![w] = "STOPPING"]
    /\ call' = [call EXCEPT ![w] = IF tid[w] = "zero" THEN "poll" ELSE "kill"]
    /\ UNCHANGED <<tid, worker, result>>

\* Mutant: the thread is not joined.
StopKillOnly(w) ==
    /\ call[w] = "kill"
    /\ call' = [call EXCEPT ![w] = "end"]
    /\ UNCHANGED <<eState, tid, worker, result>>

\* pthread_kill interrupts the system call the worker may be in.
StopKill(w) ==
    /\ call[w] = "kill"
    /\ call' = [call EXCEPT ![w] = "join"]
    /\ UNCHANGED <<eState, tid, worker, result>>

StopJoin(w) ==
    /\ call[w] = "join"
    /\ worker[w] = "exited"
    /\ worker' = [worker EXCEPT ![w] = "joined"]
    /\ call' = [call EXCEPT ![w] = "poll"]
    /\ UNCHANGED <<eState, tid, result>>

\* The id a failed pthread_create left behind is no thread's: what the join
\* does is undefined; it may return an error, and mThreadStop gives up.
StopJoinStray(w) ==
    /\ call[w] = "join"
    /\ worker[w] \in {"absent", "joined"}
    /\ call' = [call EXCEPT ![w] = "none"]
    /\ result' = [result EXCEPT ![w] = "failed"]
    /\ UNCHANGED <<eState, tid, worker>>

\* The loop that sleeps 10 ms and looks again while the state is STOPPING.
StopSleep(w) ==
    /\ call[w] = "poll"
    /\ eState[w] = "STOPPING"
    /\ UNCHANGED threadVars

StopPoll(w) ==
    /\ call[w] = "poll"
    /\ eState[w] # "STOPPING"
    /\ call' = [call EXCEPT ![w] = "end"]
    /\ UNCHANGED <<eState, tid, worker, result>>

StopEnd(w) ==
    /\ call[w] = "end"
    /\ eState' = [eState EXCEPT ![w] = "STOPPED"]
    /\ tid' = [tid EXCEPT ![w] = "invalid"]
    /\ call' = [call EXCEPT ![w] = "none"]
    /\ result' = [result EXCEPT ![w] = "stopped"]
    /\ UNCHANGED worker

-----------------------------------------------------------------------------
\* The worker: while (eState == E_THREAD_RUNNING) { ... }, with a break on
\* an error, then its cleanup and mThreadFinish.
LeaveLoop(w) ==
    /\ worker[w] = "loop"
    /\ eState[w] # "RUNNING"
    /\ worker' = [worker EXCEPT ![w] = "leaving"]
    /\ UNCHANGED <<eState, tid, call, result>>

BreakLoop(w) ==
    /\ MayBreak
    /\ worker[w] = "loop"
    /\ worker' = [worker EXCEPT ![w] = "leaving"]
    /\ UNCHANGED <<eState, tid, call, result>>

\* Mutant: the worker ends without storing STOPPED.
FinishUnmarked(w) ==
    /\ worker[w] = "leaving"
    /\ worker' = [worker EXCEPT ![w] = "exiting"]
    /\ UNCHANGED <<eState, tid, call, result>>

FinishMark(w) ==
    /\ worker[w] = "leaving"
    /\ eState' = [eState EXCEPT ![w] = "STOPPED"]
    /\ worker' = [worker EXCEPT ![w] = "exiting"]
    /\ UNCHANGED <<tid, call, result>>

FinishExit(w) ==
    /\ worker[w] = "exiting"
    /\ worker' = [worker EXCEPT ![w] = "exited"]
    /\ UNCHANGED <<eState, tid, call, result>>

-----------------------------------------------------------------------------
\* What the owner does inside a call.
OwnerStep(w) ==
    \/ StartMark(w)
    \/ CreateOk(w)
    \/ CreateFails(w)
    \/ StopMark(w)
    \/ StopKill(w)
    \/ StopJoin(w)
    \/ StopPoll(w)
    \/ StopEnd(w)

WorkerStep(w) == LeaveLoop(w) \/ FinishMark(w) \/ FinishExit(w)

ThreadNext ==
    \E w \in Workers :
        \/ StartCall(w)
        \/ StopCall(w)
        \/ OwnerStep(w)
        \/ StartRefused(w)
        \/ StopJoinStray(w)
        \/ StopSleep(w)
        \/ WorkerStep(w)
        \/ BreakLoop(w)

ThreadSpec == ThreadInit /\ [][ThreadNext]_threadVars

\* Preemptive scheduling: the owner goes on with its call and a worker whose
\* loop has ended leaves; every blocking call inside the loops has a timeout.
ThreadFairSpec ==
    /\ ThreadSpec
    /\ \A w \in Workers : WF_threadVars(OwnerStep(w)) /\ WF_threadVars(WorkerStep(w))

-----------------------------------------------------------------------------
\* The types of the variables.
ThreadTypeOK ==
    /\ eState \in [Workers -> EStates]
    /\ tid \in [Workers -> Tids]
    /\ worker \in [Workers -> WorkerStates]
    /\ call \in [Workers -> Calls]
    /\ result \in [Workers -> Results]

\* When mThreadStop has returned, the worker is done with its data: it is at
\* most printing its last line.  The callers free queues and codecs next.
StopMeansQuiet ==
    \A w \in Workers :
        call[w] = "none" /\ result[w] = "stopped" => worker[w] \notin {"loop", "leaving"}

\* mThreadStop signals and joins only a thread that exists and has not been
\* joined yet: pThread_Id is neither the 0 nor the -1 the code stores in it.
\* (After a pthread_create that failed the id is undefined.)
SignalsRealThread ==
    \A w \in Workers :
        call[w] \in {"kill", "join"} /\ result[w] # "failed" =>
            tid[w] = "valid" /\ worker[w] \notin {"absent", "joined"}

\* A worker is out of its loop only because it was told to stop or broke out
\* on an error, never because it started before RUNNING was stored (the bug
\* the comment in mThreadStart describes).
LoopEndsForAReason ==
    [][\A w \in Workers : LeaveLoop(w) => call[w] \notin {"start", "create", "none"}]_threadVars

\* mThreadStop, once it has stored STOPPING before mThreadFinish stored
\* STOPPED, returns.
StopOfLiveReturns ==
    \A w \in Workers :
        (call[w] = "kill" /\ worker[w] \in {"loop", "leaving"}) ~> result[w] = "stopped"

\* mthread.c: mThreadStop is called in the main thread to end a thread, may
\* be called twice or for a thread that was never started; it returns.  This
\* does not hold when the thread finishes by itself between two of its steps.
StopReturns ==
    \A w \in Workers : call[w] = "mark" ~> call[w] = "none"
=============================================================================
