---------------------------- MODULE MThreadProofs ----------------------------
(***************************************************************************)
(* Theorems about MThread, for any set of threads, with or without errors  *)
(* and failed creations.                                                   *)
(***************************************************************************)
EXTENDS MThread, TLAPS

Quiet(w) == worker[w] \notin {"loop", "leaving"}
Stopping(w) == call[w] \in {"mark", "kill", "join", "poll", "end"}

\* Only a thread whose start succeeded and whose stop has not returned may be
\* running, and a STOPPED state says that it is not.
RunningIsStarted(w) ==
    /\ result[w] # "started" => Quiet(w)
    /\ eState[w] = "STOPPED" => Quiet(w)
    /\ call[w] = "end" => Quiet(w)

\* Where the owner is, and what it has stored on the way there.
CallAgrees(w) ==
    /\ call[w] \in {"start", "create"} => result[w] \in {"none", "stopped"}
    /\ call[w] = "create" => eState[w] = "RUNNING"
    /\ Stopping(w) => result[w] \in {"started", "failed"}
    /\ call[w] = "none" /\ result[w] \in {"none", "stopped"} => eState[w] = "STOPPED"
    /\ call[w] \in {"kill", "join", "poll"} => eState[w] # "RUNNING"

\* STOPPING is stored only by a stop that has yet to return.
StoppingIsCalled(w) ==
    eState[w] = "STOPPING" => call[w] \in {"kill", "join", "poll"} \/ result[w] = "failed"

\* A thread that was started has an id, and is there until it is joined.
StartedIsReal(w) ==
    result[w] = "started" =>
        /\ tid[w] = "valid"
        /\ call[w] \notin {"poll", "end"} => worker[w] \notin {"absent", "joined"}

Lifecycle(w) ==
    /\ RunningIsStarted(w)
    /\ CallAgrees(w)
    /\ StoppingIsCalled(w)
    /\ StartedIsReal(w)

ThreadInv == ThreadTypeOK /\ \A w \in Workers : Lifecycle(w)

-----------------------------------------------------------------------------
\* The invariant is inductive.
LEMMA ThreadInvInit == ThreadInit => ThreadInv
  BY DEF ThreadInit, ThreadInv, ThreadTypeOK, EStates, Tids, WorkerStates, Calls, Results,
         Lifecycle, RunningIsStarted, CallAgrees, StoppingIsCalled, StartedIsReal, Quiet, Stopping

LEMMA ThreadInvNext == ThreadInv /\ [ThreadNext]_threadVars => ThreadInv'
  <1> SUFFICES ASSUME ThreadInv, [ThreadNext]_threadVars  PROVE ThreadInv'
    OBVIOUS
  <1>1. CASE UNCHANGED threadVars
    BY <1>1 DEF threadVars, ThreadInv, ThreadTypeOK, Lifecycle, RunningIsStarted, CallAgrees,
                StoppingIsCalled, StartedIsReal, Quiet, Stopping
  <1>2. ASSUME NEW w \in Workers,
               \/ StartCall(w) \/ StopCall(w) \/ OwnerStep(w) \/ StartRefused(w)
               \/ StopJoinStray(w) \/ StopSleep(w) \/ WorkerStep(w) \/ BreakLoop(w)
        PROVE  ThreadInv'
    <2> USE DEF ThreadInv, ThreadTypeOK, EStates, Tids, WorkerStates, Calls, Results,
                Lifecycle, RunningIsStarted, CallAgrees, StoppingIsCalled, StartedIsReal,
                Quiet, Stopping
    <2>1. CASE StartCall(w)
      BY <2>1 DEF StartCall, OwnerFree
    <2>2. CASE StartMark(w)
      BY <2>2 DEF StartMark
    <2>3. CASE StartRefused(w)
      BY <2>3 DEF StartRefused
    <2>4. CASE CreateOk(w)
      BY <2>4 DEF CreateOk
    <2>5. CASE CreateFails(w)
      BY <2>5 DEF CreateFails
    <2>6. CASE StopCall(w)
      BY <2>6 DEF StopCall, OwnerFree
    <2>7. CASE StopMark(w)
      BY <2>7 DEF StopMark
    <2>8. CASE StopKill(w)
      BY <2>8 DEF StopKill
    <2>9. CASE StopJoin(w)
      BY <2>9 DEF StopJoin
    <2>10. CASE StopJoinStray(w)
      BY <2>10 DEF StopJoinStray
    <2>11. CASE StopPoll(w)
      BY <2>11 DEF StopPoll
    <2>12. CASE StopEnd(w)
      BY <2>12 DEF StopEnd
    <2>13. CASE LeaveLoop(w)
      BY <2>13 DEF LeaveLoop
    <2>14. CASE BreakLoop(w)
      BY <2>14 DEF BreakLoop
    <2>15. CASE FinishMark(w)
      BY <2>15 DEF FinishMark
    <2>16. CASE FinishExit(w)
      BY <2>16 DEF FinishExit
    <2>17. CASE StopSleep(w)
      BY <2>17, <1>1 DEF StopSleep
    <2> QED
      BY <1>2, <2>1, <2>2, <2>3, <2>4, <2>5, <2>6, <2>7, <2>8, <2>9, <2>10, <2>11, <2>12, <2>13, <2>14, <2>15, <2>16, <2>17 DEF OwnerStep, WorkerStep
  <1> QED  BY <1>1, <1>2 DEF ThreadNext

LEMMA ThreadInvHolds == ThreadSpec => []ThreadInv
  BY ThreadInvInit, ThreadInvNext, PTL DEF ThreadSpec

-----------------------------------------------------------------------------
\* The variables have their types.
THEOREM ThreadTypeCorrect == ThreadSpec => []ThreadTypeOK
  <1>1. ThreadInv => ThreadTypeOK
    BY DEF ThreadInv
  <1> QED  BY <1>1, ThreadInvHolds, PTL

\* When mThreadStop has returned, the thread is done with its data.
THEOREM StoppedIsQuiet == ThreadSpec => []StopMeansQuiet
  <1>1. ThreadInv => StopMeansQuiet
    BY DEF ThreadInv, Lifecycle, RunningIsStarted, Quiet, StopMeansQuiet
  <1> QED  BY <1>1, ThreadInvHolds, PTL

\* After a start that succeeded, mThreadStop signals and joins a thread that
\* exists and has not been joined.
THEOREM SignalledIsReal == ThreadSpec => []SignalsRealThread
  <1>1. ThreadInv => SignalsRealThread
    BY DEF ThreadInv, Lifecycle, CallAgrees, Stopping, StartedIsReal, SignalsRealThread
  <1> QED  BY <1>1, ThreadInvHolds, PTL

\* A thread leaves its loop on an error or because a stop told it to, never
\* because it started before RUNNING was stored.
THEOREM NoEarlyExit == ThreadSpec => LoopEndsForAReason
  <1>1. ASSUME ThreadInv, [ThreadNext]_threadVars, NEW w \in Workers, LeaveLoop(w)
        PROVE  call[w] \notin {"start", "create", "none"}
    BY <1>1 DEF ThreadInv, ThreadTypeOK, EStates, Lifecycle, RunningIsStarted, CallAgrees,
                StoppingIsCalled, Quiet, LeaveLoop
  <1>2. ThreadInv /\ [ThreadNext]_threadVars =>
            [\A w \in Workers : LeaveLoop(w) => call[w] \notin {"start", "create", "none"}]_threadVars
    BY <1>1
  <1> QED  BY <1>2, ThreadInvHolds, PTL DEF ThreadSpec, LoopEndsForAReason
=============================================================================
