---------------------------- MODULE WebControl ----------------------------
(***************************************************************************)
(* The websocket server and the solution it controls: the client threads   *)
(* of WebsocketWrap.c, their list of Datastructures.c, the commands of     *)
(* handle_user_message.c and the calls of solution_handle.c they and main  *)
(* make.  The threads of the running solution (post-process, encoders) send*)
(* their results to every client of the list.                              *)
(*                                                                         *)
(*   browser --command--> client thread --stop, uninit, init, start-->     *)
(*      ^                                            solution              *)
(*      |                                               | joins            *)
(*      +---- socket <---- list (one lock) <------- senders                *)
(*                                                                         *)
(* A blocking send() is made with the lock of the list held, and the stop  *)
(* of the solution joins the threads that make it.  Nothing protects the   *)
(* solution itself; see Alone.                                             *)
(***************************************************************************)
EXTENDS Naturals, FiniteSets

CONSTANTS
    Clients,        \* ws_client objects, each with the browser behind it
    Controllers,    \* those whose users change solution or configuration
    main,           \* the main thread
    Senders,        \* threads of the solution that call ws_send_message
    Inferring,      \* those of bpu_wrap, which are stopped last
    Configs,        \* solution configurations
    NoDisplay,      \* a configuration with its displays switched off
    DefaultConfig,  \* solution_cfg_load_default_config
    Room,           \* messages a socket takes before send() blocks
    NULL

Actors == Clients \cup {main}

ASSUME WebAssumption ==
    /\ Controllers \subseteq Clients
    /\ main \notin Clients
    /\ Senders \cap Actors = {}
    /\ Inferring \subseteq Senders
    /\ NULL \notin Actors \cup Senders \cup Configs
    /\ DefaultConfig \in Configs
    /\ NoDisplay \in [Configs -> Configs]
    /\ \A k \in Configs : NoDisplay[NoDisplay[k]] = NoDisplay[k]
    /\ Room \in Nat \ {0}

VARIABLES
    first, last, next, len,     \* the ws_list and the next of its clients
    lock,           \* the thread that holds l->lock
    spc, cursor,    \* list_multicast_all of a sender: its position and its p
    run,            \* eState of a sender is RUNNING
    peer, unread,   \* the browser, and what its socket holds
    pc,             \* where a client thread or main is
    joining,        \* the sender its mThreadStop waits for
    request, reply, \* the configuration asked for, and the response
    handle,         \* g_solution_handle is set
    hardware,       \* impl: "down", "ready" (init), "partly" started, "running";
                    \* "lame", "limping": these two less a channel that failed
    g_config,       \* g_solution_config
    active,         \* the configuration init_param has read
    before,         \* history: what ran when the switch began, and g_config said
    faulty,         \* history: the uninit of this switch failed
    cutShort,       \* history: a stop ended early, and no start was whole since
    doubled,        \* history: a thread was created over one that runs
    exited          \* exit() was called

list == <<first, last, next, len>>
sending == <<spc, cursor>>
browser == <<peer, unread>>
solution == <<handle, hardware, active>>
history == <<before, faulty, cutShort, doubled>>
vars == <<list, lock, sending, run, browser, pc, joining, request, reply,
          solution, g_config, history, exited>>

ClientAt == {"none", "handshake", "recv", "closing", "check", "set",
             "answer", "sending"}
SolutionAt == {"stop", "join", "uninit", "init", "initHw", "start"}
Replies == {"none", "200", "old", "fatal", "config"}

WebInit ==
    /\ first = NULL /\ last = NULL /\ len = 0 /\ lock = NULL
    /\ next = [c \in Clients |-> NULL]
    /\ spc = [s \in Senders |-> "exited"]
    /\ cursor = [s \in Senders |-> NULL]
    /\ run = [s \in Senders |-> FALSE]
    /\ peer = [c \in Clients |-> "away"]
    /\ unread = [c \in Clients |-> 0]
    /\ pc = [a \in Actors |-> IF a = main THEN "init" ELSE "none"]
    /\ joining = [a \in Actors |-> NULL]
    /\ request = [c \in Clients |-> NULL]
    /\ reply = [c \in Clients |-> "none"]
    /\ handle = FALSE /\ hardware = "down"
    /\ g_config \in Configs     \* the configuration file, or the default
    /\ active = NULL /\ before = NULL
    /\ faulty = FALSE /\ exited = FALSE
    /\ cutShort = FALSE /\ doubled = FALSE

Goto(a, p) == pc' = [pc EXCEPT ![a] = p]

\* The assumption on the users: nobody switches, saves or stops the program
\* while another does, or while main still starts the solution.  The code does
\* not enforce it.
Changing(a) ==
    \/ pc[a] \in SolutionAt \cup {"check", "set"}
    \/ pc[a] \in {"answer", "sending"} /\ reply[a] # "config"
Alone(a) == \A b \in Actors \ {a} : ~Changing(b)

\* Two configurations that differ at most in what they say of the displays.
Same(j, k) == NoDisplay[j] = NoDisplay[k]

\* solution_cfg_update_display_config: what g_config says of a display that was
\* plugged in or out, or does not fit its camera, is reset.
UpdatesDisplay == g_config' \in {g_config, NoDisplay[g_config]}

-----------------------------------------------------------------------------
\* The list.  Its nodes are freed when they leave, and the memory is reused.
Member(c) == pc[c] \notin {"none", "handshake"}

ListAdd(c) ==
    /\ IF first # NULL
       THEN next' = [next EXCEPT ![last] = c] /\ UNCHANGED first
       ELSE first' = c /\ UNCHANGED next
    /\ last' = c
    /\ len' = len + 1

Previous(c) == IF c = first THEN NULL ELSE CHOOSE p \in Clients : next[p] = c

\* Mutant: the pointer to the last node is not moved back.
ListRemoveKeepsLast(c) ==
    /\ first' = IF c = first THEN next[c] ELSE first
    /\ next' = [p \in Clients |->
                   IF p = c THEN NULL
                   ELSE IF c # first /\ p = Previous(c) THEN next[c] ELSE next[p]]
    /\ last' = IF len = 1 THEN NULL ELSE last
    /\ len' = len - 1

\* list_remove: unlink, send the close frame, free.
ListRemove(c) ==
    /\ first' = IF c = first THEN next[c] ELSE first
    /\ next' = [p \in Clients |->
                   IF p = c THEN NULL
                   ELSE IF c # first /\ p = Previous(c) THEN next[c] ELSE next[p]]
    /\ last' = CASE len = 1 -> NULL
                 [] len = 2 -> IF c = first THEN next[c] ELSE first
                 [] OTHER -> IF c = last THEN Previous(c) ELSE last
    /\ len' = len - 1

\* send() to a browser: it blocks while the socket is full, and returns an
\* error, which nobody looks at, when the browser is gone.
Deaf(c) == peer[c] = "open" /\ unread[c] = Room
Deliver(c) ==
    /\ ~Deaf(c)
    /\ unread' = IF peer[c] = "open" THEN [unread EXCEPT ![c] = @ + 1] ELSE unread
    /\ UNCHANGED peer

-----------------------------------------------------------------------------
\* Browsers and accept.
Connect(c) ==
    /\ pc[c] = "none"
    /\ peer' = [peer EXCEPT ![c] = "open"]
    /\ Goto(c, "handshake")
    /\ UNCHANGED <<list, lock, sending, run, unread, joining, request, reply,
                   solution, g_config, history, exited>>

BrowserReads(c) ==
    /\ peer[c] = "open" /\ unread[c] > 0
    /\ unread' = [unread EXCEPT ![c] = @ - 1]
    /\ UNCHANGED <<list, lock, sending, run, peer, pc, joining, request, reply,
                   solution, g_config, history, exited>>

BrowserGoes(c) ==
    /\ peer[c] = "open"
    /\ peer' = [peer EXCEPT ![c] = "gone"]
    /\ unread' = [unread EXCEPT ![c] = 0]
    /\ UNCHANGED <<list, lock, sending, run, pc, joining, request, reply,
                   solution, g_config, history, exited>>

\* handleClient: parseHeaders, sendHandshake, list_add.
HandshakeOk(c) ==
    /\ pc[c] = "handshake" /\ lock = NULL
    /\ ListAdd(c)
    /\ Goto(c, "recv")
    /\ UNCHANGED <<lock, sending, run, browser, joining, request, reply,
                   solution, g_config, history, exited>>

HandshakeFails(c) ==
    /\ pc[c] = "handshake"
    /\ Goto(c, "none")
    /\ peer' = [peer EXCEPT ![c] = "away"]
    /\ unread' = [unread EXCEPT ![c] = 0]
    /\ UNCHANGED <<list, lock, sending, run, joining, request, reply,
                   solution, g_config, history, exited>>

\* Mutant: the list is changed without its lock.
LeaveUnlocked(c) ==
    /\ pc[c] = "recv"
    /\ Goto(c, "closing")
    /\ UNCHANGED <<list, lock, sending, run, browser, joining, request, reply,
                   solution, g_config, history, exited>>

\* communicate has no message for us: the browser is gone, or talks nonsense.
\* The thread waits for the lock; until it has it, nothing tells it from one that
\* waits for a message.  list_remove sends the close frame with the lock held.
LeaveTake(c) ==
    /\ pc[c] = "recv" /\ lock = NULL
    /\ lock' = c
    /\ Goto(c, "closing")
    /\ UNCHANGED <<list, sending, run, browser, joining, request, reply,
                   solution, g_config, history, exited>>

Leave(c) ==
    /\ pc[c] = "closing" /\ ~Deaf(c)
    /\ ListRemove(c)
    /\ lock' = NULL
    /\ Goto(c, "none")
    /\ peer' = [peer EXCEPT ![c] = "away"]
    /\ unread' = [unread EXCEPT ![c] = 0]
    /\ UNCHANGED <<sending, run, joining, request, reply,
                   solution, g_config, history, exited>>

-----------------------------------------------------------------------------
Running == hardware \in {"running", "limping"}

\* handle_user_msg.  The commands that leave solution and configuration alone
\* differ from CmdGet only in what they answer, if they do.
Receives(c) == pc[c] = "recv" /\ peer[c] = "open"

CmdGet(c) ==
    /\ Receives(c)
    /\ UpdatesDisplay
    /\ reply' = [reply EXCEPT ![c] = "config"]
    /\ Goto(c, "answer")
    /\ UNCHANGED <<list, lock, sending, run, browser, joining, request,
                   solution, history, exited>>

\* solution_handle_save_config: what was never checked becomes g_config.
CmdSave(c, cfg) ==
    /\ Receives(c) /\ Alone(c)
    /\ g_config' = cfg
    /\ UNCHANGED <<list, lock, sending, run, browser, pc, joining, request, reply,
                   solution, history, exited>>

CmdRecovery(c) ==
    /\ Receives(c) /\ Alone(c)
    /\ g_config' = DefaultConfig
    /\ reply' = [reply EXCEPT ![c] = "config"]
    /\ Goto(c, "answer")
    /\ UNCHANGED <<list, lock, sending, run, browser, joining, request,
                   solution, history, exited>>

CmdSwitch(c, cfg) ==
    /\ Receives(c) /\ Alone(c)
    /\ request' = [request EXCEPT ![c] = cfg]
    /\ before' = IF Running /\ Same(g_config, active) THEN active ELSE NULL
    /\ Goto(c, "stop")
    /\ UNCHANGED <<list, lock, sending, run, browser, joining, reply,
                   solution, g_config, faulty, cutShort, doubled, exited>>

\* main waits for ever; signal_handler stops the solution and exits.
Sigint ==
    /\ pc[main] = "loop" /\ Alone(main)
    /\ Goto(main, "stop")
    /\ UNCHANGED <<list, lock, sending, run, browser, joining, request, reply,
                   solution, g_config, history, exited>>

-----------------------------------------------------------------------------
\* solution_handle_stop: mThreadStop of one thread after the other, and those
\* of bpu_wrap when the others are stopped and the channels' hardware is too.
Started == handle /\ (hardware = "partly" \/ Running)
OthersStopped == \A s \in Senders \ Inferring : ~run[s]

\* The signal interrupts a send() that blocks; the multicast goes on.
StopSender(a) ==
    /\ pc[a] = "stop" /\ Started
    /\ \E s \in Senders :
        /\ run[s] /\ (s \in Inferring => OthersStopped)
        /\ run' = [run EXCEPT ![s] = FALSE]
        /\ joining' = [joining EXCEPT ![a] = s]
        /\ cursor' = IF cursor[s] # NULL /\ Deaf(cursor[s])
                     THEN [cursor EXCEPT ![s] = next[cursor[s]]] ELSE cursor
    /\ Goto(a, "join")
    /\ UNCHANGED <<list, lock, spc, browser, request, reply,
                   solution, g_config, history, exited>>

\* Mutant: the thread is told to stop and not waited for.
StopNotJoined(a) ==
    /\ pc[a] = "join"
    /\ joining' = [joining EXCEPT ![a] = NULL]
    /\ Goto(a, "stop")
    /\ UNCHANGED <<list, lock, sending, run, browser, request, reply,
                   solution, g_config, history, exited>>

StopJoined(a) ==
    /\ pc[a] = "join"
    /\ spc[joining[a]] = "exited"
    /\ joining' = [joining EXCEPT ![a] = NULL]
    /\ Goto(a, "stop")
    /\ UNCHANGED <<list, lock, sending, run, browser, request, reply,
                   solution, g_config, history, exited>>

\* The result of the stop is ignored.
StopDone(a) ==
    /\ pc[a] = "stop"
    /\ Started => \A s \in Senders : ~run[s]
    /\ hardware' = IF ~Started THEN hardware
                   ELSE IF hardware = "limping" THEN "lame" ELSE "ready"
    /\ Goto(a, "uninit")
    /\ UNCHANGED <<list, lock, sending, run, browser, joining, request, reply,
                   handle, active, g_config, history, exited>>

\* A channel's codec or vflow does not stop: the call ends before bpu_wrap_stop
\* of this channel and those after it.
StopFails(a) ==
    /\ pc[a] = "stop" /\ Started /\ OthersStopped
    /\ hardware' = "partly"
    /\ cutShort' = TRUE
    /\ Goto(a, "uninit")
    /\ UNCHANGED <<list, lock, sending, run, browser, joining, request, reply,
                   handle, active, g_config, before, faulty, doubled, exited>>

\* solution_handle_uninit; when a deinit fails the handle is kept.  Its result
\* is ignored too.
Uninit(a) ==
    /\ pc[a] = "uninit"
    /\ \/ /\ handle
          /\ handle' = FALSE /\ active' = NULL
          /\ hardware' = "down" /\ faulty' = FALSE
       \/ handle /\ faulty' = TRUE /\ UNCHANGED solution
       \/ ~handle /\ UNCHANGED <<solution, faulty>>
    /\ before' = IF faulty' THEN NULL ELSE before
    /\ IF a = main THEN exited' = TRUE /\ UNCHANGED pc
                   ELSE Goto(a, "check") /\ UNCHANGED exited
    /\ UNCHANGED <<list, lock, sending, run, browser, joining, request, reply,
                   g_config, cutShort, doubled>>

\* vpp_camera_init_param_full clears g_vpp_camera, with the states of the
\* threads in it, and reads a configuration into it.  A check of a camera
\* configuration does so with the one that is asked for.
ThreadsCleared == run' = [s \in Senders |-> FALSE]
CheckRewrites(c) ==
    \/ UNCHANGED <<run, active>>
    \/ ThreadsCleared /\ active' = IF handle THEN request[c] ELSE active

\* solution_handle_check_config: memory, codecs, display and model.
CheckOk(c) ==
    /\ pc[c] = "check"
    /\ CheckRewrites(c)
    /\ Goto(c, "set")
    /\ UNCHANGED <<list, lock, sending, browser, joining, request, reply,
                   handle, hardware, g_config, history, exited>>

\* Mutant: the configuration is stored before it is checked.
CheckRejectsLate(c) ==
    /\ pc[c] = "check"
    /\ CheckRewrites(c)
    /\ request' = [request EXCEPT ![c] = NULL]
    /\ reply' = [reply EXCEPT ![c] = "old"]
    /\ g_config' = request[c]
    /\ Goto(c, "init")
    /\ UNCHANGED <<list, lock, sending, browser, joining,
                   handle, hardware, history, exited>>

CheckRejects(c) ==
    /\ pc[c] = "check"
    /\ CheckRewrites(c)
    /\ request' = [request EXCEPT ![c] = NULL]
    /\ reply' = [reply EXCEPT ![c] = "old"]
    /\ Goto(c, "init")
    /\ UNCHANGED <<list, lock, sending, browser, joining,
                   handle, hardware, g_config, history, exited>>

SetConfig(c) ==
    /\ pc[c] = "set"
    /\ g_config' = request[c]
    /\ reply' = [reply EXCEPT ![c] = "200"]
    /\ before' = NULL
    /\ Goto(c, "init")
    /\ UNCHANGED <<list, lock, sending, run, browser, joining, request,
                   solution, faulty, cutShort, doubled, exited>>

\* solution_handle_init: nothing to do while there is a handle.  init_param
\* clears the threads' states of the solution g_config names.
InitCall(a) ==
    /\ pc[a] = "init"
    /\ IF handle
       THEN Goto(a, "start") /\ UNCHANGED <<handle, active, run>>
       ELSE /\ handle' = TRUE /\ active' = g_config
            /\ UNCHANGED run \/ ThreadsCleared
            /\ Goto(a, "initHw")
    /\ UNCHANGED <<list, lock, sending, browser, joining, request, reply,
                   hardware, g_config, history, exited>>

InitOk(a) ==
    /\ pc[a] = "initHw"
    /\ hardware' = "ready"
    /\ Goto(a, "start")
    /\ UNCHANGED <<list, lock, sending, run, browser, joining, request, reply,
                   handle, active, g_config, history, exited>>

\* vpp_camera_init goes on with the next channel when one fails, and returns 0.
InitSwallows(a) ==
    /\ pc[a] = "initHw"
    /\ hardware' = "lame"
    /\ Goto(a, "start")
    /\ UNCHANGED <<list, lock, sending, run, browser, joining, request, reply,
                   handle, active, g_config, history, exited>>

\* main goes on without a solution, so that the browser can be told; a client
\* thread tells it and ends the program.
GiveUp(a) ==
    /\ before' = NULL
    /\ IF a = main
       THEN Goto(a, "loop") /\ UNCHANGED <<request, reply>>
       ELSE /\ Goto(a, "answer")
            /\ request' = [request EXCEPT ![a] = NULL]
            /\ reply' = [reply EXCEPT ![a] = "fatal"]

InitFails(a) ==
    /\ pc[a] = "initHw"
    /\ handle' = FALSE /\ active' = NULL
    /\ GiveUp(a)
    /\ UNCHANGED <<list, lock, sending, run, browser, joining,
                   hardware, g_config, faulty, cutShort, doubled, exited>>

\* solution_handle_start.
StartOk(a) ==
    /\ pc[a] = "start" /\ handle
    /\ \A s \in Senders : spc[s] = "exited"
    /\ hardware' = IF hardware = "ready" THEN "running" ELSE "limping"
    /\ run' = [s \in Senders |-> TRUE]
    /\ spc' = [s \in Senders |-> "idle"]
    /\ cutShort' = FALSE
    /\ Goto(a, IF a = main THEN "loop" ELSE "answer")
    /\ UNCHANGED <<list, lock, cursor, browser, joining, request, reply,
                   handle, active, g_config, before, faulty, doubled, exited>>

\* mThreadStart of a thread that an early end of a stop has left: it writes over
\* the thread's state and mutex while both use them.  The model ends here.
StartDoubles(a) ==
    /\ pc[a] = "start" /\ handle
    /\ \E s \in Senders : spc[s] # "exited"
    /\ doubled' = TRUE
    /\ UNCHANGED <<list, lock, sending, run, browser, pc, joining, request, reply,
                   solution, g_config, before, faulty, cutShort, exited>>

\* Some threads may have been started when a call fails.
StartFails(a) ==
    /\ pc[a] = "start"
    /\ IF handle
       THEN \E S \in SUBSET {s \in Senders : spc[s] = "exited"} :
            /\ hardware' = "partly"
            /\ run' = [s \in Senders |-> s \in S \/ run[s]]
            /\ spc' = [s \in Senders |-> IF s \in S THEN "idle" ELSE spc[s]]
       ELSE UNCHANGED <<hardware, run, spc>>
    /\ GiveUp(a)
    /\ UNCHANGED <<list, lock, cursor, browser, joining,
                   handle, active, g_config, faulty, cutShort, doubled, exited>>

\* ws_send_respose to the client itself, of what solution_handle_get_config
\* says when the configuration asked for was rejected.
AnswerTake(c) ==
    /\ pc[c] = "answer" /\ lock = NULL
    /\ IF reply[c] = "old" THEN UpdatesDisplay ELSE UNCHANGED g_config
    /\ lock' = c
    /\ Goto(c, "sending")
    /\ UNCHANGED <<list, sending, run, browser, joining, request, reply,
                   solution, history, exited>>

AnswerSend(c) ==
    /\ pc[c] = "sending"
    /\ Deliver(c)
    /\ lock' = NULL
    /\ IF reply[c] = "fatal" THEN exited' = TRUE /\ UNCHANGED pc
                             ELSE Goto(c, "recv") /\ UNCHANGED exited
    /\ request' = [request EXCEPT ![c] = NULL]
    /\ reply' = [reply EXCEPT ![c] = "none"]
    /\ IF reply[c] = "config" THEN UNCHANGED <<before, faulty>>
                              ELSE before' = NULL /\ faulty' = FALSE
    /\ UNCHANGED <<list, sending, run, joining, solution, g_config, cutShort, doubled>>

-----------------------------------------------------------------------------
\* A thread of the solution: it has a result, and list_multicast_all.
SenderHead(s) ==
    /\ spc[s] = "idle"
    /\ spc' = [spc EXCEPT ![s] = IF run[s] THEN "multicast" ELSE "exited"]
    /\ UNCHANGED <<list, lock, cursor, run, browser, pc, joining, request, reply,
                   solution, g_config, history, exited>>

MulticastNobody(s) ==
    /\ spc[s] = "multicast" /\ lock = NULL /\ first = NULL
    /\ spc' = [spc EXCEPT ![s] = "idle"]
    /\ UNCHANGED <<list, lock, cursor, run, browser, pc, joining, request, reply,
                   solution, g_config, history, exited>>

MulticastTake(s) ==
    /\ spc[s] = "multicast" /\ lock = NULL /\ first # NULL
    /\ lock' = s
    /\ cursor' = [cursor EXCEPT ![s] = first]
    /\ spc' = [spc EXCEPT ![s] = "sending"]
    /\ UNCHANGED <<list, run, browser, pc, joining, request, reply,
                   solution, g_config, history, exited>>

MulticastSend(s) ==
    /\ spc[s] = "sending" /\ cursor[s] # NULL
    /\ Deliver(cursor[s])
    /\ cursor' = [cursor EXCEPT ![s] = next[cursor[s]]]
    /\ UNCHANGED <<list, lock, spc, run, pc, joining, request, reply,
                   solution, g_config, history, exited>>

\* Mutant: a thread that was told to stop leaves without the unlock.
MulticastDoneLeaves(s) ==
    /\ spc[s] = "sending" /\ cursor[s] = NULL
    /\ lock' = IF run[s] THEN NULL ELSE lock
    /\ spc' = [spc EXCEPT ![s] = "idle"]
    /\ UNCHANGED <<list, cursor, run, browser, pc, joining, request, reply,
                   solution, g_config, history, exited>>

MulticastDone(s) ==
    /\ spc[s] = "sending" /\ cursor[s] = NULL
    /\ lock' = NULL
    /\ spc' = [spc EXCEPT ![s] = "idle"]
    /\ UNCHANGED <<list, cursor, run, browser, pc, joining, request, reply,
                   solution, g_config, history, exited>>

-----------------------------------------------------------------------------
\* What a thread does once it has begun something.
SolutionStep(a) ==
    \/ StopSender(a) \/ StopJoined(a) \/ StopDone(a) \/ StopFails(a) \/ Uninit(a)
    \/ InitCall(a) \/ InitOk(a) \/ InitSwallows(a) \/ InitFails(a)
    \/ StartOk(a) \/ StartDoubles(a) \/ StartFails(a)

SwitchStep(c) ==
    \/ SolutionStep(c)
    \/ CheckOk(c) \/ CheckRejects(c) \/ SetConfig(c)
    \/ AnswerSend(c)

ClientStep(c) ==
    \/ Connect(c) \/ BrowserReads(c) \/ BrowserGoes(c)
    \/ HandshakeOk(c) \/ HandshakeFails(c) \/ LeaveTake(c) \/ Leave(c)
    \/ CmdGet(c) \/ AnswerTake(c) \/ SwitchStep(c)
    \/ /\ c \in Controllers
       /\ \/ CmdRecovery(c)
          \/ \E cfg \in Configs : CmdSave(c, cfg) \/ CmdSwitch(c, cfg)

SenderStep(s) ==
    \/ SenderHead(s) \/ MulticastSend(s) \/ MulticastDone(s)

SenderLocks(s) == MulticastNobody(s) \/ MulticastTake(s)

\* What is modelled ends with exit(), and with a thread that runs twice.
Alive == ~exited /\ ~doubled
Exit == ~Alive /\ UNCHANGED vars

WebNext ==
    \/ /\ Alive
       /\ \/ \E c \in Clients : ClientStep(c)
          \/ SolutionStep(main)
          \/ Sigint
          \/ \E s \in Senders : SenderStep(s) \/ SenderLocks(s)
    \/ Exit

WebSpec == WebInit /\ [][WebNext]_vars

\* Threads are scheduled, the lock starves nobody a switch waits for, browsers
\* read what they are sent until they go.  No user has to do anything.
WebFairness ==
    /\ \A c \in Clients :
        /\ WF_vars(Alive /\ (SwitchStep(c) \/ Leave(c)))
        /\ WF_vars(Alive /\ BrowserReads(c))
    /\ \A c \in Controllers : SF_vars(Alive /\ AnswerTake(c))
    /\ \A s \in Senders :
        /\ WF_vars(Alive /\ SenderStep(s))
        /\ SF_vars(Alive /\ SenderLocks(s))

WebFairSpec == WebSpec /\ WebFairness

-----------------------------------------------------------------------------
ListTypeOK ==
    /\ first \in Clients \cup {NULL} /\ last \in Clients \cup {NULL}
    /\ next \in [Clients -> Clients \cup {NULL}]
    /\ len \in Nat
    /\ lock \in Clients \cup Senders \cup {NULL}
    /\ spc \in [Senders -> {"idle", "multicast", "sending", "exited"}]
    /\ cursor \in [Senders -> Clients \cup {NULL}]
    /\ pc \in [Actors -> ClientAt \cup SolutionAt \cup {"loop"}]

WebTypeOK ==
    /\ ListTypeOK
    /\ run \in [Senders -> BOOLEAN]
    /\ peer \in [Clients -> {"away", "open", "gone"}]
    /\ unread \in [Clients -> 0 .. Room]
    /\ joining \in [Actors -> Senders \cup {NULL}]
    /\ request \in [Clients -> Configs \cup {NULL}]
    /\ reply \in [Clients -> Replies]
    /\ handle \in BOOLEAN
    /\ hardware \in {"down", "lame", "ready", "partly", "limping", "running"}
    /\ g_config \in Configs
    /\ {active, before} \subseteq Configs \cup {NULL}
    /\ {faulty, cutShort, doubled, exited} \subseteq BOOLEAN

\* The links of Datastructures.c: whatever clients came and went, following
\* next from first visits each client that is connected once, and no memory
\* that was freed; last and len agree with it.
Connected == {c \in Clients : Member(c)}

IsWalk(walk) ==
    /\ walk \in [1 .. len -> Connected]
    /\ \A c \in Connected : \E i \in 1 .. len : walk[i] = c
    /\ \A i, j \in 1 .. len : walk[i] = walk[j] => i = j
    /\ \A i \in 1 .. len : next[walk[i]] = IF i = len THEN NULL ELSE walk[i + 1]
    /\ first = IF len = 0 THEN NULL ELSE walk[1]
    /\ last = IF len = 0 THEN NULL ELSE walk[len]

ListWellFormed == \E walk \in [1 .. len -> Connected] : IsWalk(walk)

\* list_multicast_all never sends to a client that was freed under it, and the
\* list does not change while it is in it.
SendsToConnected ==
    \A s \in Senders :
        spc[s] = "sending" => lock = s /\ (cursor[s] # NULL => Member(cursor[s]))

\* mThreadStart is not called for a thread that still runs, whatever stop, uninit,
\* init or start before has failed in.  The threads of bpu_wrap are the exception:
\* a stop that fails before bpu_wrap_stop (vpp_camera_impl.c:1343,
\* vpp_box_impl.c:724-744) leaves them running for StartDoubles, until a start
\* has found them gone.
Accounted(s) == s \in Inferring => ~cutShort

NoThreadTwice ==
    \A a \in Actors, s \in Senders :
        pc[a] = "start" /\ Accounted(s) => ~run[s] /\ spc[s] = "exited"

\* When a switch is answered, the answer is true up to the displays: after 200
\* the solution was started with what was asked for; after an error with the
\* configuration sent along, which is the one that ran before, unless it was
\* edited meanwhile.  It runs whole, or less the channels vpp_camera_init passed
\* over ("limping"); what a failed uninit leaves is not promised anything.
AnswerIsTrue ==
    \A c \in Clients :
        pc[c] = "sending" /\ ~faulty =>
            /\ reply[c] = "200" => Running /\ Same(active, request[c])
            /\ reply[c] = "old" =>
                /\ Running /\ Same(active, g_config)
                /\ before # NULL => Same(active, before)

\* A switch comes to its end: although it joins threads that wait for the lock
\* of the list, or hold it in a send() that blocks, and needs it itself.
SwitchIsAnswered ==
    \A c \in Controllers : pc[c] = "stop" ~> (pc[c] = "recv" \/ ~Alive)
=============================================================================
