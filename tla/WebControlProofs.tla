------------------------- MODULE WebControlProofs -------------------------
(***************************************************************************)
(* Proofs about WebControl, for any number of clients, senders and         *)
(* configurations: the links of the client list, that a multicast never    *)
(* meets a client that was freed, that the threads of the solution are not *)
(* started twice, and that the answer to a switch is true.                 *)
(***************************************************************************)
EXTENDS WebControl, TLAPS

\* The nodes that are not in the list have no successor (client_new).
FreeIsUnlinked == \A c \in Clients : ~Member(c) => next[c] = NULL

\* A client thread that sends its answer or its close frame holds the lock, until
\* the program ends.
AnswerHoldsLock == ~exited => \A c \in Clients : pc[c] \in {"sending", "closing"} => lock = c

WebInv ==
    /\ ListTypeOK
    /\ ListWellFormed
    /\ FreeIsUnlinked
    /\ AnswerHoldsLock
    /\ SendsToConnected

-----------------------------------------------------------------------------
\* The two operations of the list, on the links alone.  W is the walk before,
\* M the connected clients; n is connected or not.
LEMMA AddLast ==
  ASSUME WebAssumption, ListTypeOK, FreeIsUnlinked, NEW n \in Clients, ~Member(n),
         NEW W \in [1 .. len -> Connected], IsWalk(W), ListAdd(n), 
         Connected' = Connected \cup {n}
  PROVE  ListWellFormed'
  <1> DEFINE V == [i \in 1 .. len + 1 |-> IF i = len + 1 THEN n ELSE W[i]]
  <1>1. len \in Nat /\ len' = len + 1 /\ n \notin Connected /\ Connected \subseteq Clients
    BY DEF ListTypeOK, ListAdd, Connected
  <1>2. first = NULL <=> len = 0
    BY <1>1 DEF IsWalk, WebAssumption, Connected, Actors
  <1>3. V \in [1 .. len' -> Connected']
    BY <1>1
  <1>4. ASSUME NEW c \in Connected'  PROVE \E i \in 1 .. len' : V[i] = c
    <2>1. CASE c = n
      <3>1. len + 1 \in 1 .. len' /\ V[len + 1] = n
        BY <1>1
      <3> QED  BY <2>1, <3>1
    <2>2. CASE c \in Connected
      <3>1. PICK i \in 1 .. len : W[i] = c
        BY <2>2 DEF IsWalk
      <3>2. i \in 1 .. len' /\ V[i] = W[i]
        BY <1>1
      <3> QED  BY <3>1, <3>2
    <2> QED  BY <2>1, <2>2
  <1>5. \A i, j \in 1 .. len' : V[i] = V[j] => i = j
    BY <1>1 DEF IsWalk
  <1>6. \A i \in 1 .. len' : next'[V[i]] = IF i = len' THEN NULL ELSE V[i + 1]
    <2>1. CASE len = 0
      BY <1>1, <1>2, <2>1 DEF ListAdd, FreeIsUnlinked
    <2>2. CASE len # 0
      <3>1. last = W[len] /\ next' = [next EXCEPT ![last] = n] /\ last \in Clients
        BY <1>1, <1>2, <2>2 DEF ListAdd, IsWalk
      <3>2. next[n] = NULL /\ n # last
        BY <1>1, <2>2, <3>1 DEF FreeIsUnlinked
      <3>3. \A i \in 1 .. len : W[i] = W[len] => i = len
        BY <1>1, <2>2 DEF IsWalk
      <3>4. \A i \in 1 .. len : W[i] \in Clients
        BY <1>1
      <3> QED
        BY <1>1, <2>2, <3>1, <3>2, <3>3, <3>4 DEF IsWalk, ListTypeOK
    <2> QED
      BY <2>1, <2>2
  <1>7. first' = IF len' = 0 THEN NULL ELSE V[1]
    BY <1>1, <1>2 DEF ListAdd, IsWalk
  <1>8. last' = IF len' = 0 THEN NULL ELSE V[len']
    BY <1>1 DEF ListAdd
  <1> QED
    BY <1>1, <1>3, <1>4, <1>5, <1>6, <1>7, <1>8 DEF ListWellFormed, IsWalk

LEMMA RemoveAny ==
  ASSUME WebAssumption, ListTypeOK, FreeIsUnlinked, NEW n \in Clients, Member(n),
         NEW W \in [1 .. len -> Connected], IsWalk(W), ListRemove(n),
         Connected' = Connected \ {n}
  PROVE  ListWellFormed'
  <1>1. len \in Nat /\ Connected \subseteq Clients /\ n \in Connected /\ NULL \notin Clients
    BY DEF ListTypeOK, Connected, WebAssumption, Actors
  <1>2. PICK k \in 1 .. len : W[k] = n
    BY <1>1 DEF IsWalk
  <1>3. len \in Nat \ {0} /\ len' = len - 1 /\ len' \in Nat
    BY <1>1, <1>2 DEF ListRemove
  <1>4. \A i, j \in 1 .. len : W[i] = W[j] => i = j
    BY DEF IsWalk
  <1>5. n = first <=> k = 1
    BY <1>1, <1>2, <1>3, <1>4 DEF IsWalk
  <1>6. ASSUME k # 1 PROVE Previous(n) = W[k - 1]
    <2>1. k - 1 \in 1 .. len /\ W[k - 1] \in Clients /\ next[W[k - 1]] = n
      BY <1>1, <1>2, <1>3, <1>6 DEF IsWalk
    <2>2. ASSUME NEW p \in Clients, next[p] = n PROVE p = W[k - 1]
      <3>1. p \in Connected
        BY <1>1, <2>2 DEF FreeIsUnlinked, Connected
      <3>2. PICK j \in 1 .. len : W[j] = p
        BY <3>1 DEF IsWalk
      <3>3. j # len /\ W[j + 1] = n /\ j + 1 \in 1 .. len
        BY <1>1, <1>3, <2>2, <3>2 DEF IsWalk
      <3> QED
        BY <1>2, <1>3, <1>4, <3>2, <3>3
    <2> QED
      BY <1>5, <1>6, <2>1, <2>2 DEF Previous
  <1> DEFINE V == [i \in 1 .. len - 1 |-> IF i < k THEN W[i] ELSE W[i + 1]]
  <1>7. V \in [1 .. len' -> Connected']
    BY <1>1, <1>2, <1>3, <1>4
  <1>8. \A c \in Connected' : \E i \in 1 .. len' : V[i] = c
    <2> SUFFICES ASSUME NEW c \in Connected, c # n PROVE \E i \in 1 .. len' : V[i] = c
      OBVIOUS
    <2>1. PICK j \in 1 .. len : W[j] = c
      BY DEF IsWalk
    <2>2. CASE j < k
      BY <1>2, <1>3, <2>1, <2>2
    <2>3. CASE j > k
      <3>1. j - 1 \in 1 .. len' /\ V[j - 1] = W[j]
        BY <1>2, <1>3, <2>1, <2>3
      <3> QED
        BY <3>1, <2>1
    <2> QED
      BY <1>2, <1>3, <2>1, <2>2, <2>3
  <1>9. \A i, j \in 1 .. len' : V[i] = V[j] => i = j
    BY <1>2, <1>3, <1>4
  <1>10. next' = [p \in Clients |-> IF p = n THEN NULL
                                    ELSE IF k # 1 /\ p = W[k - 1] THEN next[n] ELSE next[p]]
    BY <1>5, <1>6 DEF ListRemove
  <1>11. \A i \in 1 .. len' : next'[V[i]] = IF i = len' THEN NULL ELSE V[i + 1]
    <2> SUFFICES ASSUME NEW i \in 1 .. len'
                 PROVE  next'[V[i]] = IF i = len' THEN NULL ELSE V[i + 1]
      OBVIOUS
    <2>1. \A j \in 1 .. len : next[W[j]] = IF j = len THEN NULL ELSE W[j + 1]
      BY DEF IsWalk
    <2>2. \A j \in 1 .. len : W[j] \in Clients
      BY <1>1
    <2>3. CASE i + 1 < k
      BY <1>2, <1>3, <1>4, <1>10, <2>1, <2>2, <2>3
    <2>4. CASE i + 1 = k
      BY <1>2, <1>3, <1>4, <1>10, <2>1, <2>2, <2>4
    <2>5. CASE i >= k
      <3>1. V[i] = W[i + 1] /\ i + 1 \in 1 .. len
        BY <1>2, <1>3, <2>5
      <3>2. W[i + 1] # n /\ (k # 1 => W[i + 1] # W[k - 1])
        <4>1. i + 1 # k /\ (k # 1 => k - 1 \in 1 .. len /\ i + 1 # k - 1)
          BY <1>2, <1>3, <2>5
        <4> QED  BY <1>2, <1>4, <3>1, <4>1
      <3>3. next'[W[i + 1]] = next[W[i + 1]]
        BY <1>10, <2>2, <3>1, <3>2
      <3>4. next[W[i + 1]] = IF i + 1 = len THEN NULL ELSE W[i + 2]
        BY <2>1, <3>1
      <3>5. i # len' => V[i + 1] = W[i + 2]
        BY <1>3, <2>5
      <3> HIDE DEF V
      <3> QED  BY <1>3, <3>1, <3>3, <3>4, <3>5
    <2> QED
      BY <1>2, <1>3, <2>3, <2>4, <2>5
  <1>12. first' = IF len' = 0 THEN NULL ELSE V[1]
    BY <1>2, <1>3, <1>5 DEF ListRemove, IsWalk
  <1>13. last' = IF len' = 0 THEN NULL ELSE V[len']
    <2>1. CASE len = 1
      BY <1>3, <2>1 DEF ListRemove
    <2>2. CASE len = 2
      BY <1>2, <1>3, <1>5, <2>2 DEF ListRemove, IsWalk
    <2>3. CASE len > 2
      <3>1. n = last <=> k = len
        BY <1>2, <1>3, <1>4 DEF IsWalk
      <3> QED
        BY <1>2, <1>3, <1>5, <1>6, <2>3, <3>1 DEF ListRemove, IsWalk
    <2> QED
      BY <1>3, <2>1, <2>2, <2>3
  <1> QED
    BY <1>3, <1>7, <1>8, <1>9, <1>11, <1>12, <1>13 DEF ListWellFormed, IsWalk

-----------------------------------------------------------------------------
LEMMA WebInvInit == ASSUME WebAssumption, WebInit PROVE WebInv
  <1>1. Connected = {}
    BY DEF WebInit, Connected, Member, Actors, WebAssumption
  <1>2. ListTypeOK
    BY DEF WebInit, ListTypeOK, ClientAt, SolutionAt, Actors
  <1>3. ListWellFormed
    <2> DEFINE nobody == [i \in 1 .. 0 |-> NULL]
    <2>1. nobody \in [1 .. len -> Connected] /\ len = 0
      BY DEF WebInit
    <2>2. IsWalk(nobody)
      BY <1>1, <2>1 DEF WebInit, IsWalk
    <2> QED
      BY <2>1, <2>2 DEF ListWellFormed
  <1>4. FreeIsUnlinked /\ AnswerHoldsLock /\ SendsToConnected
    BY DEF WebInit, FreeIsUnlinked, AnswerHoldsLock, SendsToConnected, Actors, WebAssumption
  <1> QED
    BY <1>2, <1>3, <1>4 DEF WebInv

\* A walk through the list passes from a client to one that is connected.
LEMMA NextIsConnected ==
  ASSUME WebAssumption, ListTypeOK, ListWellFormed, NEW c \in Connected
  PROVE  next[c] = NULL \/ next[c] \in Connected
  <1>1. PICK W \in [1 .. len -> Connected] : IsWalk(W)
    BY DEF ListWellFormed
  <1>2. PICK i \in 1 .. len : W[i] = c
    BY <1>1 DEF IsWalk
  <1>3. len \in Nat /\ next[c] = IF i = len THEN NULL ELSE W[i + 1]
    BY <1>1, <1>2 DEF IsWalk, ListTypeOK
  <1> QED
    BY <1>2, <1>3

\* The steps that leave the list and who is connected alone.
LEMMA SameList ==
  ASSUME WebInv, UNCHANGED list, ListTypeOK',
         \A c \in Clients : Member(c)' = Member(c)
  PROVE  ListWellFormed' /\ FreeIsUnlinked'
  <1>1. Connected' = Connected
    BY DEF Connected
  <1>2. UNCHANGED <<first, last, next, len>>
    BY DEF list
  <1> QED
    BY <1>1, <1>2 DEF WebInv, ListWellFormed, FreeIsUnlinked, IsWalk

\* Those that leave the lock and the senders alone too.
LEMMA Elsewhere ==
  ASSUME WebInv, UNCHANGED <<list, lock, sending>>, ListTypeOK',
         exited => exited',
         \A c \in Clients : Member(c)' = Member(c),
         \A c \in Clients : pc'[c] \in {"sending", "closing"} => pc'[c] = pc[c]
  PROVE  WebInv'
  <1>1. ListWellFormed' /\ FreeIsUnlinked'
    BY SameList
  <1>2. AnswerHoldsLock'
    BY DEF WebInv, AnswerHoldsLock
  <1>3. SendsToConnected'
    BY DEF WebInv, SendsToConnected, sending, Member, ListTypeOK
  <1> QED
    BY <1>1, <1>2, <1>3 DEF WebInv

\* The list changes under the lock: a multicast is not in it.
LEMMA NobodySends ==
  ASSUME WebAssumption, WebInv, lock = NULL
  PROVE  /\ \A s \in Senders : spc[s] # "sending"
         /\ ~exited => \A c \in Clients : pc[c] \notin {"sending", "closing"}
  BY DEF WebAssumption, WebInv, SendsToConnected, AnswerHoldsLock, Actors

-----------------------------------------------------------------------------
\* One action at a time.  First the client threads and the list.
LEMMA HandshakeOkKeeps ==
  ASSUME WebAssumption, WebInv, NEW c \in Clients, HandshakeOk(c), ~exited
  PROVE  WebInv'
  <1>1. ListTypeOK /\ ListTypeOK' /\ c \in Actors
    BY DEF WebInv, ListTypeOK, HandshakeOk, ListAdd, sending, Goto, ClientAt, Actors
  <1>2. ~Member(c) /\ Member(c)' /\ \A d \in Clients \ {c} : Member(d)' = Member(d)
    BY <1>1 DEF HandshakeOk, Goto, Member, ListTypeOK, Actors
  <1>3. Connected' = Connected \cup {c}
    BY <1>2 DEF Connected
  <1>4. PICK W \in [1 .. len -> Connected] : IsWalk(W)
    BY DEF WebInv, ListWellFormed
  <1>5. ListWellFormed'
    BY <1>1, <1>2, <1>3, <1>4, AddLast DEF WebInv, HandshakeOk
  <1>6. FreeIsUnlinked'
    <2> SUFFICES ASSUME NEW d \in Clients, ~Member(d)' PROVE next'[d] = NULL
      BY DEF FreeIsUnlinked
    <2>1. d # c /\ ~Member(d) /\ next[d] = NULL
      BY <1>2 DEF WebInv, FreeIsUnlinked
    <2>2. first # NULL => last \in Connected
      BY <1>1, <1>4 DEF IsWalk, ListTypeOK
    <2>3. first # NULL => last # d
      BY <2>1, <2>2 DEF Connected
    <2> QED
      BY <1>1, <2>1, <2>3 DEF HandshakeOk, ListAdd, ListTypeOK
  <1>7. AnswerHoldsLock' /\ SendsToConnected'
    BY <1>1, NobodySends DEF AnswerHoldsLock, SendsToConnected, HandshakeOk, sending, Goto, ListTypeOK
  <1> QED
    BY <1>1, <1>5, <1>6, <1>7 DEF WebInv

LEMMA LeaveKeeps ==
  ASSUME WebAssumption, WebInv, NEW c \in Clients, Leave(c), ~exited
  PROVE  WebInv'
  <1>1. ListTypeOK /\ c \in Actors /\ Member(c)
    BY DEF WebInv, Leave, Actors, Member
  <1>2. ~Member(c)' /\ \A d \in Clients \ {c} : Member(d)' = Member(d)
    BY <1>1 DEF Leave, Goto, Member, ListTypeOK, Actors
  <1>3. Connected' = Connected \ {c}
    BY <1>2 DEF Connected
  <1>4. PICK W \in [1 .. len -> Connected] : IsWalk(W)
    BY DEF WebInv, ListWellFormed
  <1>5. ListWellFormed'
    BY <1>1, <1>3, <1>4, RemoveAny DEF WebInv, Leave
  <1>6. PICK k \in 1 .. len : W[k] = c
    BY <1>1, <1>4 DEF IsWalk, Connected
  <1>7. ListTypeOK'
    <2>1. len' \in Nat
      BY <1>1, <1>6 DEF ListTypeOK, Leave, ListRemove
    <2>2. PICK V \in [1 .. len' -> Connected'] : IsWalk(V)'
      BY <1>5 DEF ListWellFormed
    <2>3. Connected' \subseteq Clients
      BY <1>3 DEF Connected
    <2>4. first' \in Clients \cup {NULL} /\ last' \in Clients \cup {NULL}
      BY <2>1, <2>2, <2>3 DEF IsWalk
    <2> QED
      BY <1>1, <2>1, <2>4 DEF ListTypeOK, Leave, ListRemove, sending, Goto, ClientAt
  <1>8. c # first => next[Previous(c)] = c
    <2> SUFFICES ASSUME c # first PROVE \E p \in Clients : next[p] = c
      BY DEF Previous
    <2>1. k # 1 /\ len \in Nat
      BY <1>1, <1>4, <1>6 DEF IsWalk, ListTypeOK
    <2>2. k - 1 \in 1 .. len /\ W[k - 1] \in Clients
      BY <1>4, <1>6, <2>1 DEF Connected
    <2> QED
      BY <1>4, <1>6, <2>1, <2>2 DEF IsWalk
  <1>9. FreeIsUnlinked'
    <2> SUFFICES ASSUME NEW d \in Clients, d # c, ~Member(d)' PROVE next'[d] = NULL
      BY <1>1 DEF FreeIsUnlinked, Leave, ListRemove
    <2>1. ~Member(d) /\ next[d] = NULL /\ c # NULL
      BY <1>2 DEF WebInv, FreeIsUnlinked, WebAssumption, Actors
    <2>2. c # first => d # Previous(c)
      BY <1>8, <2>1
    <2> QED
      BY <2>1, <2>2 DEF Leave, ListRemove
  <1>10. AnswerHoldsLock' /\ SendsToConnected'
    <2>1. lock = c /\ c \notin Senders
      BY DEF WebInv, AnswerHoldsLock, Leave, WebAssumption, Actors
    <2>2. \A s \in Senders : spc[s] # "sending"
      BY <2>1 DEF WebInv, SendsToConnected
    <2> QED
      BY <1>1, <2>1, <2>2 DEF WebInv, AnswerHoldsLock, SendsToConnected, Leave, sending, Goto,
                              ListTypeOK
  <1> QED
    BY <1>5, <1>7, <1>9, <1>10 DEF WebInv

LEMMA ClientKeeps ==
  ASSUME WebAssumption, WebInv, NEW c \in Clients, ~exited,
         \/ Connect(c) \/ BrowserReads(c) \/ BrowserGoes(c)
         \/ HandshakeFails(c) \/ CmdGet(c) \/ CmdRecovery(c)
         \/ \E cfg \in Configs : CmdSave(c, cfg) \/ CmdSwitch(c, cfg)
         \/ CheckOk(c) \/ CheckRejects(c) \/ SetConfig(c)
  PROVE  WebInv'
  <1>1. UNCHANGED <<list, lock, sending>> /\ UNCHANGED exited
    BY DEF Connect, BrowserReads, BrowserGoes, HandshakeFails, CmdGet,
           CmdRecovery, CmdSave, CmdSwitch, CheckOk, CheckRejects, SetConfig
  <1>2. ListTypeOK /\ c \in Actors
    BY DEF WebInv, Actors
  <1>3. \/ UNCHANGED pc
        \/ \E q \in (ClientAt \cup SolutionAt) \ {"sending", "closing"} :
              /\ pc' = [pc EXCEPT ![c] = q]
              /\ pc[c] \in {"none", "handshake"} <=> q \in {"none", "handshake"}
    BY <1>2 DEF Connect, BrowserReads, BrowserGoes, HandshakeFails, CmdGet,
           CmdRecovery, CmdSave, CmdSwitch, CheckOk, CheckRejects, SetConfig,
           Receives, Goto, ClientAt, SolutionAt
  <1>4. ListTypeOK'
    BY <1>1, <1>2, <1>3 DEF ListTypeOK, list, sending
  <1>5. \A d \in Clients :
          Member(d)' = Member(d) /\ (pc'[d] \in {"sending", "closing"} => pc'[d] = pc[d])
    BY <1>2, <1>3 DEF Member, ListTypeOK, Actors
  <1> QED
    BY <1>1, <1>4, <1>5, Elsewhere

\* The lock is taken for the answer or the close frame, and given back.
LEMMA AnswerKeeps ==
  ASSUME WebAssumption, WebInv, NEW c \in Clients, ~exited,
         AnswerTake(c) \/ AnswerSend(c) \/ LeaveTake(c)
  PROVE  WebInv'
  <1>1. ListTypeOK /\ c \in Actors /\ c \notin Senders
    BY DEF WebInv, WebAssumption, Actors
  <1>2. \A d \in Clients : Member(d)' = Member(d)
    BY <1>1 DEF AnswerTake, AnswerSend, LeaveTake, Goto, Member, ListTypeOK, Actors
  <1>3. ListTypeOK'
    BY <1>1 DEF AnswerTake, AnswerSend, LeaveTake, Goto, ListTypeOK, list, sending, ClientAt
  <1>4. ListWellFormed' /\ FreeIsUnlinked'
    BY <1>2, <1>3, SameList DEF AnswerTake, AnswerSend, LeaveTake
  <1>5. \A s \in Senders : spc'[s] # "sending"
    BY <1>1, NobodySends DEF WebInv, AnswerTake, AnswerSend, LeaveTake, AnswerHoldsLock,
                             SendsToConnected, sending
  <1>6. AnswerHoldsLock'
    <2>1. CASE AnswerTake(c) \/ LeaveTake(c)
      BY <1>1, <2>1, NobodySends DEF AnswerTake, LeaveTake, AnswerHoldsLock, Goto, ListTypeOK, Actors
    <2>2. CASE AnswerSend(c)
      BY <1>1, <2>2 DEF WebInv, AnswerSend, AnswerHoldsLock, Goto, ListTypeOK, Actors
    <2> QED
      BY <2>1, <2>2
  <1> QED
    BY <1>3, <1>4, <1>5, <1>6 DEF WebInv, SendsToConnected

\* The solution: stop, uninit, init and start, of a client thread or main.
LEMMA SolutionKeeps ==
  ASSUME WebAssumption, WebInv, NEW a \in Actors, ~exited, SolutionStep(a) \/ Sigint
  PROVE  WebInv'
  <1> DEFINE b == IF SolutionStep(a) THEN a ELSE main
  <1>1. ListTypeOK /\ b \in Actors
    BY DEF WebInv, Actors
  <1>2. UNCHANGED <<list, lock>>
    BY DEF SolutionStep, StopSender, StopJoined, StopDone, StopFails, Uninit, InitCall, InitOk,
           InitSwallows, InitFails, StartOk, StartDoubles, StartFails, Sigint
  <1>3. \/ UNCHANGED pc
        \/ \E q \in {"stop", "join", "uninit", "check", "initHw", "start", "loop", "answer"} :
              /\ pc' = [pc EXCEPT ![b] = q]
              /\ pc[b] \in SolutionAt \cup {"loop"}
    BY DEF SolutionStep, StopSender, StopJoined, StopDone, StopFails, Uninit, InitCall, InitOk,
           InitSwallows, InitFails, StartOk, StartDoubles, StartFails, Sigint, GiveUp, Goto, SolutionAt
  <1>4. \A d \in Clients :
          Member(d)' = Member(d) /\ (pc'[d] \in {"sending", "closing"} => pc'[d] = pc[d])
    BY <1>1, <1>3 DEF Member, ListTypeOK, Actors, SolutionAt
  <1>5. pc' \in [Actors -> ClientAt \cup SolutionAt \cup {"loop"}]
    BY <1>1, <1>3 DEF ListTypeOK, ClientAt, SolutionAt
  <1>6. exited => exited'
    OBVIOUS
  <1>7. CASE UNCHANGED sending
    <2>1. ListTypeOK'
      BY <1>1, <1>2, <1>5, <1>7 DEF ListTypeOK, list, sending
    <2> QED
      BY <1>2, <1>4, <1>7, <2>1, Elsewhere
  <1>8. CASE StartOk(a) \/ StartFails(a)
    <2>1. /\ UNCHANGED cursor
          /\ spc' \in [Senders -> {"idle", "multicast", "sending", "exited"}]
          /\ \A s \in Senders : spc'[s] = "sending" => spc[s] = "sending"
      BY <1>1, <1>8 DEF StartOk, StartFails, ListTypeOK
    <2>2. ListTypeOK'
      BY <1>1, <1>2, <1>5, <2>1 DEF ListTypeOK, list
    <2>3. ListWellFormed' /\ FreeIsUnlinked'
      BY <1>2, <1>4, <2>2, SameList
    <2>4. AnswerHoldsLock'
      BY <1>2, <1>4 DEF WebInv, AnswerHoldsLock
    <2>5. SendsToConnected'
      BY <1>1, <1>2, <1>4, <2>1 DEF WebInv, SendsToConnected, Member, ListTypeOK
    <2> QED
      BY <2>2, <2>3, <2>4, <2>5 DEF WebInv
  <1>9. CASE StopSender(a)
    <2>1. spc' = spc
      BY <1>9 DEF StopSender
    <2>2. PICK s \in Senders : cursor' = IF cursor[s] # NULL /\ Deaf(cursor[s])
                                        THEN [cursor EXCEPT ![s] = next[cursor[s]]] ELSE cursor
      BY <1>9 DEF StopSender
    <2>3. ListTypeOK'
      BY <1>1, <1>2, <1>5, <2>1, <2>2 DEF ListTypeOK, list
    <2>4. ListWellFormed' /\ FreeIsUnlinked'
      BY <1>2, <1>4, <2>3, SameList
    <2>5. AnswerHoldsLock'
      BY <1>2, <1>4 DEF WebInv, AnswerHoldsLock
    <2>6. ASSUME NEW r \in Senders, spc[r] = "sending", cursor'[r] # NULL
          PROVE  cursor'[r] \in Connected
      <3>1. cursor[r] # NULL => cursor[r] \in Connected
        BY <1>1, <2>6 DEF WebInv, SendsToConnected, Connected, ListTypeOK
      <3>2. cursor'[r] = cursor[r] \/ (cursor[r] # NULL /\ cursor'[r] = next[cursor[r]])
        BY <1>1, <2>2 DEF ListTypeOK
      <3> QED
        BY <2>6, <3>1, <3>2, NextIsConnected DEF WebInv
    <2>7. SendsToConnected'
      BY <1>1, <1>2, <1>4, <2>1, <2>6 DEF WebInv, SendsToConnected, Member, Connected
    <2> QED
      BY <2>3, <2>4, <2>5, <2>7 DEF WebInv
  <1> QED
    BY <1>7, <1>8, <1>9 DEF SolutionStep, StopJoined, StopDone, StopFails, Uninit, InitCall,
                            InitOk, InitSwallows, InitFails, StartDoubles, Sigint

\* The threads of the solution.
LEMMA SenderKeeps ==
  ASSUME WebAssumption, WebInv, NEW s \in Senders, ~exited, SenderStep(s) \/ SenderLocks(s)
  PROVE  WebInv'
  <1>1. ListTypeOK /\ s \notin Clients /\ s # NULL
    BY DEF WebInv, WebAssumption, Actors
  <1>2. UNCHANGED <<list, pc, exited>>
    BY DEF SenderStep, SenderLocks, SenderHead, MulticastSend, MulticastDone,
           MulticastNobody, MulticastTake
  <1>3. \A d \in Clients : Member(d)' = Member(d)
    BY <1>2 DEF Member
  <1>4. spc[s] = "sending" => lock = s /\ (cursor[s] # NULL => cursor[s] \in Connected)
    BY <1>1 DEF WebInv, SendsToConnected, Connected, ListTypeOK
  <1>5. /\ spc' \in [Senders -> {"idle", "multicast", "sending", "exited"}]
        /\ lock' \in Clients \cup Senders \cup {NULL}
        /\ cursor' \in [Senders -> Clients \cup {NULL}]
    <2>1. CASE SenderHead(s) \/ MulticastDone(s) \/ MulticastNobody(s) \/ MulticastTake(s)
      BY <1>1, <2>1 DEF SenderHead, MulticastDone, MulticastNobody, MulticastTake, ListTypeOK
    <2>2. CASE MulticastSend(s)
      BY <1>1, <1>4, <2>2 DEF MulticastSend, ListTypeOK
    <2> QED
      BY <2>1, <2>2 DEF SenderStep, SenderLocks
  <1>6. ListTypeOK'
    BY <1>1, <1>2, <1>5 DEF ListTypeOK, list
  <1>7. ListWellFormed' /\ FreeIsUnlinked'
    BY <1>2, <1>3, <1>6, SameList
  <1>8. CASE SenderHead(s) \/ MulticastNobody(s)
    <2>1. AnswerHoldsLock'
      BY <1>2, <1>8 DEF WebInv, AnswerHoldsLock, SenderHead, MulticastNobody
    <2>2. SendsToConnected'
      BY <1>1, <1>2, <1>8 DEF WebInv, SendsToConnected, SenderHead, MulticastNobody,
                              Member, ListTypeOK
    <2> QED
      BY <1>6, <1>7, <2>1, <2>2 DEF WebInv
  <1>9. CASE MulticastTake(s)
    <2>1. first # NULL => first \in Connected
      <3>1. PICK W \in [1 .. len -> Connected] : IsWalk(W)
        BY DEF WebInv, ListWellFormed
      <3> QED
        BY <1>1, <3>1 DEF IsWalk, ListTypeOK
    <2>2. AnswerHoldsLock'
      BY <1>2, <1>9, NobodySends DEF AnswerHoldsLock, MulticastTake
    <2>3. SendsToConnected'
      BY <1>1, <1>2, <1>9, <2>1, NobodySends DEF SendsToConnected, MulticastTake, Member,
                                                 Connected, ListTypeOK
    <2> QED
      BY <1>6, <1>7, <2>2, <2>3 DEF WebInv
  <1>10. CASE MulticastSend(s)
    <2>1. cursor'[s] # NULL => cursor'[s] \in Connected
      BY <1>1, <1>4, <1>10, NextIsConnected DEF WebInv, MulticastSend, ListTypeOK
    <2>2. AnswerHoldsLock'
      BY <1>2, <1>10 DEF WebInv, AnswerHoldsLock, MulticastSend
    <2>3. SendsToConnected'
      BY <1>1, <1>2, <1>10, <2>1 DEF WebInv, SendsToConnected, MulticastSend, Member,
                                     Connected, ListTypeOK
    <2> QED
      BY <1>6, <1>7, <2>2, <2>3 DEF WebInv
  <1>11. CASE MulticastDone(s)
    <2>1. \A r \in Senders : spc'[r] # "sending"
      BY <1>1, <1>4, <1>11 DEF WebInv, SendsToConnected, MulticastDone, ListTypeOK
    <2>2. AnswerHoldsLock'
      BY <1>1, <1>2, <1>4, <1>11 DEF WebInv, AnswerHoldsLock, MulticastDone
    <2> QED
      BY <1>6, <1>7, <2>1, <2>2 DEF WebInv, SendsToConnected
  <1> QED
    BY <1>8, <1>9, <1>10, <1>11 DEF SenderStep, SenderLocks

LEMMA WebInvNext == ASSUME WebAssumption, WebInv, [WebNext]_vars PROVE WebInv'
  <1>1. CASE UNCHANGED vars
    <2>1. UNCHANGED <<list, lock, sending, pc, exited>>
      BY <1>1 DEF vars
    <2>2. ListTypeOK' /\ \A c \in Clients : Member(c)' = Member(c)
      BY <2>1 DEF WebInv, ListTypeOK, Member, list, sending
    <2> QED
      BY <2>1, <2>2, Elsewhere
  <1>2. ASSUME NEW c \in Clients, ~exited, ClientStep(c) PROVE WebInv'
    <2>1. c \in Actors
      BY DEF Actors
    <2>2. CASE HandshakeOk(c)
      BY <1>2, <2>2, HandshakeOkKeeps
    <2>3. CASE Leave(c)
      BY <1>2, <2>3, LeaveKeeps
    <2>4. CASE AnswerTake(c) \/ AnswerSend(c) \/ LeaveTake(c)
      BY <1>2, <2>4, AnswerKeeps
    <2>5. CASE SolutionStep(c)
      BY <1>2, <2>1, <2>5, SolutionKeeps
    <2> QED
      BY <1>2, <2>2, <2>3, <2>4, <2>5, ClientKeeps DEF ClientStep, SwitchStep
  <1>3. CASE ~exited /\ (SolutionStep(main) \/ Sigint)
    BY <1>3, SolutionKeeps DEF Actors
  <1>4. CASE ~exited /\ \E s \in Senders : SenderStep(s) \/ SenderLocks(s)
    BY <1>4, SenderKeeps
  <1> QED
    BY <1>1, <1>2, <1>3, <1>4 DEF WebNext, Exit, Alive

LEMMA WebInvHolds == WebSpec => []WebInv
  <1>1. WebInit => WebInv
    BY WebAssumption, WebInvInit
  <1>2. WebInv /\ [WebNext]_vars => WebInv'
    BY WebAssumption, WebInvNext
  <1> QED
    BY <1>1, <1>2, PTL DEF WebSpec

\* However many clients come and go in whatever order, the links that
\* list_add and list_remove leave behind visit each connected client once and
\* no freed one, and last and len agree with them.
THEOREM ListIsWellFormed == WebSpec => []ListWellFormed
  <1>1. WebInv => ListWellFormed
    BY DEF WebInv
  <1> QED
    BY <1>1, WebInvHolds, PTL

\* A multicast of the solution's threads holds the lock from its first client
\* to its last, and each client it sends to is one that has not been freed,
\* for any number of clients and threads, also when mThreadStop interrupts it.
THEOREM MulticastIsSafe == WebSpec => []SendsToConnected
  <1>1. WebInv => SendsToConnected
    BY DEF WebInv
  <1> QED
    BY <1>1, WebInvHolds, PTL

-----------------------------------------------------------------------------
\* The solution.  By the assumption about the users one actor changes it at a
\* time; g_config may lose a display at any time, and stays the same otherwise.
Hardware == {"down", "lame", "ready", "partly", "limping", "running"}

ControlTypeOK ==
    /\ pc \in [Actors -> ClientAt \cup SolutionAt \cup {"loop"}]
    /\ pc[main] \in SolutionAt \cup {"loop"}
    /\ spc \in [Senders -> {"idle", "multicast", "sending", "exited"}]
    /\ run \in [Senders -> BOOLEAN]
    /\ joining \in [Actors -> Senders \cup {NULL}]
    /\ request \in [Clients -> Configs \cup {NULL}]
    /\ reply \in [Clients -> Replies]
    /\ hardware \in Hardware
    /\ g_config \in Configs

OneChanges == \A a \in Actors : Changing(a) => Alone(a)

\* No thread runs, but those that a stop which ended early has left.
AllEnded == \A s \in Senders : Accounted(s) => ~run[s] /\ spc[s] = "exited"

\* A thread that was told to stop has ended, unless somebody waits for it; and
\* none runs while the hardware does not.
ThreadsEnd ==
    /\ ~handle => hardware = "down"
    /\ hardware \in {"down", "lame", "ready"} => AllEnded
    /\ \A s \in Senders :
         Accounted(s) /\ ~run[s] =>
             spc[s] = "exited" \/ \E a \in Actors : pc[a] = "join" /\ joining[a] = s

\* Past its stop, a switch finds the threads ended.
HardwareStopped(a) ==
    /\ pc[a] \in {"uninit", "check", "set", "init", "initHw", "start"} => AllEnded
    /\ pc[a] = "initHw" => handle /\ hardware = "down"

\* How a switch brings its answer about.
Asks(c) == pc[c] \in {"stop", "join", "uninit", "check", "set"}
AnswerComes(c) ==
    /\ Asks(c) => request[c] \in Configs
    /\ pc[c] \in {"check", "set", "init"} /\ ~faulty => ~handle
    /\ pc[c] \in {"initHw", "start"} /\ ~faulty => Same(active, g_config)
    /\ pc[c] \in {"init", "initHw", "start", "answer", "sending"} /\ reply[c] = "200" =>
         Same(g_config, request[c])
    /\ pc[c] \in {"answer", "sending"} /\ reply[c] \in {"200", "old"} =>
         Running /\ (~faulty => Same(active, g_config))
    /\ \/ Asks(c)
       \/ pc[c] \in {"init", "initHw", "start", "answer", "sending"} /\ reply[c] = "old"
       => (before # NULL => Same(g_config, before))

ControlInv ==
    /\ ControlTypeOK
    /\ OneChanges
    /\ ThreadsEnd
    /\ \A a \in Actors : HardwareStopped(a)
    /\ \A c \in Clients : AnswerComes(c)

\* What the others must leave alone: all of the solution, and of g_config what
\* it says beside the displays.
SolutionVars == <<run, handle, hardware, active, before, faulty, cutShort>>
StaysSame == g_config' \in Configs /\ Same(g_config', g_config)

LEMMA DisplayStaysSame ==
  ASSUME WebAssumption, ControlTypeOK, UpdatesDisplay \/ UNCHANGED g_config
  PROVE  StaysSame
  BY DEF WebAssumption, ControlTypeOK, UpdatesDisplay, StaysSame, Same

\* One actor moves: the others wait where they are, and either there is nobody
\* else to disturb or it disturbs nobody.
LEMMA OneMoves ==
  ASSUME WebAssumption, ControlInv, NEW a \in Actors, ControlTypeOK', ThreadsEnd',
         \A b \in Actors \ {a} : pc'[b] = pc[b] /\ joining'[b] = joining[b],
         \A c \in Clients \ {a} : reply'[c] = reply[c] /\ request'[c] = request[c],
         Changing(a)' => Alone(a),
         Alone(a) \/ (UNCHANGED <<SolutionVars, spc>> /\ StaysSame),
         HardwareStopped(a)', a \in Clients => AnswerComes(a)'
  PROVE  ControlInv'
  <1>1. main \in Actors /\ Clients \subseteq Actors /\ \A b \in Actors : b = main \/ b \in Clients
    BY DEF Actors
  <1>2. ASSUME NEW b \in Actors, b # a  PROVE Changing(b)' <=> Changing(b)
    <2>1. CASE b = main
      BY <1>2, <2>1 DEF Changing, ControlInv, ControlTypeOK, SolutionAt
    <2>2. CASE b \in Clients
      BY <1>2, <2>2 DEF Changing
    <2> QED  BY <1>1, <2>1, <2>2
  <1>3. ASSUME NEW b \in Actors, Changing(b)'  PROVE Alone(b)'
    <2>1. CASE b = a
      BY <1>2, <1>3, <2>1 DEF Alone
    <2>2. CASE b # a
      <3>1. Changing(b) /\ Alone(b)
        BY <1>2, <1>3, <2>2 DEF ControlInv, OneChanges
      <3>2. ~ Alone(a)
        BY <2>2, <3>1 DEF Alone
      <3>3. ~ Changing(a)'
        BY <3>2
      <3> QED  BY <1>2, <2>2, <3>1, <3>3 DEF Alone
    <2> QED  BY <2>1, <2>2
  <1>4. ASSUME NEW b \in Actors, b # a
        PROVE  HardwareStopped(b)' /\ (b \in Clients => AnswerComes(b)')
    <2>1. CASE Changing(b)
      <3>1. UNCHANGED <<SolutionVars, spc>> /\ StaysSame
        BY <1>4, <2>1 DEF Alone
      <3>2. HardwareStopped(b) /\ (b \in Clients => AnswerComes(b))
        BY DEF ControlInv
      <3>3. HardwareStopped(b)'
        BY <1>4, <3>1, <3>2 DEF HardwareStopped, AllEnded, Accounted, SolutionVars
      <3>4. b \in Clients => AnswerComes(b)'
        BY <1>4, <3>1, <3>2 DEF AnswerComes, Asks, Running, Same, StaysSame, SolutionVars
      <3> QED  BY <3>3, <3>4
    <2>2. CASE ~ Changing(b)
      <3>1. pc'[b] \notin SolutionAt \cup {"check", "set"}
        BY <1>4, <2>2 DEF Changing
      <3>2. b \in Clients /\ pc'[b] \in {"answer", "sending"} => reply'[b] = "config"
        BY <1>4, <2>2 DEF Changing
      <3>3. HardwareStopped(b)'
        BY <3>1 DEF HardwareStopped, SolutionAt
      <3>4. b \in Clients => AnswerComes(b)'
        BY <3>1, <3>2 DEF AnswerComes, Asks, SolutionAt
      <3> QED  BY <3>3, <3>4
    <2> QED  BY <2>1, <2>2
  <1>5. OneChanges'
    BY <1>3 DEF OneChanges
  <1> QED  BY <1>1, <1>4, <1>5 DEF ControlInv

\* The actors that only talk, and those that do not change what runs.
LEMMA TalkControl ==
  ASSUME WebAssumption, ControlInv, NEW c \in Clients,
         \/ Connect(c) \/ BrowserReads(c) \/ BrowserGoes(c) \/ HandshakeOk(c)
         \/ HandshakeFails(c) \/ LeaveTake(c) \/ Leave(c) \/ CmdGet(c) \/ AnswerTake(c)
  PROVE  ControlInv'
  <1>1. UNCHANGED <<SolutionVars, spc, joining, request>>
    BY DEF Connect, BrowserReads, BrowserGoes, HandshakeOk, HandshakeFails, LeaveTake, Leave,
           CmdGet, AnswerTake, SolutionVars, solution, history, sending
  <1>2. /\ c \in Actors /\ c # main /\ main \in Actors
        /\ ControlTypeOK /\ ThreadsEnd /\ HardwareStopped(c) /\ AnswerComes(c)
    BY DEF ControlInv, Actors, WebAssumption
  <1>11. StaysSame
    <2>1. UpdatesDisplay \/ UNCHANGED g_config
      BY DEF Connect, BrowserReads, BrowserGoes, HandshakeOk, HandshakeFails, LeaveTake, Leave,
             CmdGet, AnswerTake
    <2> QED  BY <1>2, <2>1, DisplayStaysSame
  <1>3. \/ UNCHANGED <<pc, reply>>
        \/ /\ pc[c] = "answer" /\ pc' = [pc EXCEPT ![c] = "sending"] /\ reply' = reply
        \/ /\ pc[c] \in {"none", "handshake", "recv", "closing"}
           /\ \E p \in {"none", "handshake", "recv", "closing", "answer"} :
                /\ pc' = [pc EXCEPT ![c] = p]
                /\ p = "answer" => reply' = [reply EXCEPT ![c] = "config"]
                /\ p # "answer" => reply' = reply
    BY DEF Connect, BrowserReads, BrowserGoes, HandshakeOk, HandshakeFails, LeaveTake, Leave,
           CmdGet, AnswerTake, Goto, Receives
  <1>4. ControlTypeOK'
    BY <1>1, <1>2, <1>3, <1>11 DEF ControlTypeOK, SolutionVars, StaysSame, ClientAt, Replies
  <1>5. \A b \in Actors : pc'[b] = "join" <=> pc[b] = "join"
    BY <1>2, <1>3 DEF ControlTypeOK
  <1>6. ThreadsEnd'
    BY <1>1, <1>2, <1>5 DEF ThreadsEnd, AllEnded, Accounted, SolutionVars
  <1>7. HardwareStopped(c)'
    BY <1>1, <1>2, <1>3 DEF HardwareStopped, AllEnded, Accounted, ControlTypeOK, SolutionVars
  <1>8. AnswerComes(c)'
    BY <1>1, <1>2, <1>3, <1>11 DEF AnswerComes, Asks, Running, Same, StaysSame, ControlTypeOK,
       SolutionVars
  <1>9. Changing(c)' => Alone(c)
    <2>1. Changing(c)' => Changing(c)
      BY <1>2, <1>3 DEF Changing, ControlTypeOK, SolutionAt
    <2> QED  BY <1>2, <2>1 DEF ControlInv, OneChanges
  <1>10. /\ \A b \in Actors \ {c} : pc'[b] = pc[b] /\ joining'[b] = joining[b]
         /\ \A d \in Clients \ {c} : reply'[d] = reply[d] /\ request'[d] = request[d]
    BY <1>1, <1>2, <1>3 DEF ControlTypeOK
  <1> QED  BY <1>1, <1>2, <1>4, <1>6, <1>7, <1>8, <1>9, <1>10, <1>11, OneMoves

\* An actor that has the solution for itself moves.
LEMMA AloneMoves ==
  ASSUME WebAssumption, ControlInv, NEW a \in Actors, Alone(a), NEW p, Goto(a, p) \/ UNCHANGED pc,
         \A b \in Actors \ {a} : joining'[b] = joining[b],
         \A c \in Clients \ {a} : reply'[c] = reply[c] /\ request'[c] = request[c],
         ControlTypeOK', ThreadsEnd', HardwareStopped(a)', a \in Clients => AnswerComes(a)'
  PROVE  ControlInv'
  <1>1. \A b \in Actors \ {a} : pc'[b] = pc[b]
    BY DEF Goto, ControlInv, ControlTypeOK
  <1> QED  BY <1>1, OneMoves

\* In SwitchStep and SolutionStep the actor is the one that changes something.
LEMMA ChangerIsAlone ==
  ASSUME ControlInv, NEW a \in Actors, pc[a] \in SolutionAt \cup {"check", "set"}
  PROVE  Alone(a)
  BY DEF ControlInv, OneChanges, Changing

LEMMA CommandControl ==
  ASSUME WebAssumption, ControlInv, NEW a \in Actors,
         \/ a \in Clients /\ (CmdRecovery(a) \/ \E cfg \in Configs : CmdSave(a, cfg) \/ CmdSwitch(a, cfg))
         \/ a \in Clients /\ (CheckOk(a) \/ CheckRejects(a) \/ SetConfig(a))
         \/ a = main /\ Sigint
  PROVE  ControlInv'
  <1>1. /\ UNCHANGED <<spc, joining, handle, hardware, faulty, cutShort>>
        /\ ControlTypeOK /\ ThreadsEnd /\ HardwareStopped(a) /\ (a \in Clients => AnswerComes(a))
        /\ main \notin Clients /\ DefaultConfig \in Configs
    BY DEF ControlInv, CmdRecovery, CmdSave, CmdSwitch, CheckOk, CheckRejects, SetConfig, Sigint,
           solution, history, sending, WebAssumption
  <1>10. run' \in {run, [s \in Senders |-> FALSE]} /\ (run' = run \/ pc[a] = "check")
    BY DEF CmdRecovery, CmdSave, CmdSwitch, CheckOk, CheckRejects, SetConfig, Sigint,
           CheckRewrites, ThreadsCleared
  <1>2. Alone(a)
    BY ChangerIsAlone DEF CmdRecovery, CmdSave, CmdSwitch, CheckOk, CheckRejects, SetConfig, Sigint
  <1>3. PICK p \in {"answer", "stop", "set", "init"} : Goto(a, p) \/ UNCHANGED pc
    BY DEF CmdRecovery, CmdSave, CmdSwitch, CheckOk, CheckRejects, SetConfig, Sigint
  <1>4. /\ pc' \in [Actors -> ClientAt \cup SolutionAt \cup {"loop"}]
        /\ pc'[main] \in SolutionAt \cup {"loop"}
        /\ \A b \in Actors : pc[b] = "join" => pc'[b] = "join"
    BY <1>1 DEF CmdRecovery, CmdSave, CmdSwitch, CheckOk, CheckRejects, SetConfig, Sigint, Goto,
                ControlTypeOK, ClientAt, SolutionAt, Receives, Actors
  <1>5. /\ request' \in [Clients -> Configs \cup {NULL}]
        /\ reply' \in [Clients -> Replies] /\ g_config' \in Configs
        /\ \A c \in Clients \ {a} : reply'[c] = reply[c] /\ request'[c] = request[c]
    BY <1>1 DEF CmdRecovery, CmdSave, CmdSwitch, CheckOk, CheckRejects, SetConfig, Sigint,
                ControlTypeOK, Replies, AnswerComes, Asks
  <1>6. ControlTypeOK'
    BY <1>1, <1>4, <1>5, <1>10 DEF ControlTypeOK
  <1>11. AllEnded => AllEnded'
    BY <1>1, <1>10 DEF AllEnded, Accounted
  <1>7. ThreadsEnd'
    <2>1. CASE run' = run
      BY <1>1, <1>4, <1>11, <2>1 DEF ThreadsEnd, Accounted
    <2>2. CASE pc[a] = "check"
      BY <1>1, <1>11, <2>2 DEF ThreadsEnd, HardwareStopped, AllEnded
    <2> QED  BY <1>10, <2>1, <2>2
  <1>8. HardwareStopped(a)'
    BY <1>1, <1>11 DEF HardwareStopped, ControlTypeOK, CmdRecovery, CmdSave, CmdSwitch, CheckOk,
       CheckRejects, SetConfig, Sigint, Goto, Receives
  <1>9. ASSUME a \in Clients  PROVE AnswerComes(a)'
    <2>1. CASE CmdRecovery(a)
      BY <1>1, <1>9, <2>1 DEF AnswerComes, Asks, Running, Same, ControlTypeOK, CmdRecovery, Goto
    <2>2. ASSUME NEW cfg \in Configs, CmdSave(a, cfg)  PROVE AnswerComes(a)'
      BY <1>1, <1>9, <2>2 DEF AnswerComes, Asks, Running, Same, ControlTypeOK, CmdSave, Receives
    <2>3. ASSUME NEW cfg \in Configs, CmdSwitch(a, cfg)  PROVE AnswerComes(a)'
      BY <1>1, <1>9, <2>3 DEF AnswerComes, Asks, Running, Same, ControlTypeOK, CmdSwitch, Goto,
         Receives
    <2>4. CASE CheckOk(a)
      BY <1>1, <1>9, <2>4 DEF AnswerComes, Asks, Running, Same, ControlTypeOK, CheckOk,
         CheckRewrites, Goto, history
    <2>5. CASE CheckRejects(a)
      BY <1>1, <1>9, <2>5 DEF AnswerComes, Asks, Running, Same, ControlTypeOK, CheckRejects,
         CheckRewrites, Goto, history
    <2>6. CASE SetConfig(a)
      BY <1>1, <1>9, <2>6 DEF AnswerComes, Asks, Running, Same, ControlTypeOK, SetConfig,
         Goto, history
    <2> QED  BY <1>1, <1>9, <2>1, <2>2, <2>3, <2>4, <2>5, <2>6
  <1> QED  BY <1>1, <1>2, <1>3, <1>5, <1>6, <1>7, <1>8, <1>9, AloneMoves

\* solution_handle_stop: when it is done, no thread is left, and when it fails,
\* only threads of bpu_wrap are.
LEMMA StopControl ==
  ASSUME WebAssumption, ControlInv, NEW a \in Actors,
         StopSender(a) \/ StopJoined(a) \/ StopDone(a) \/ StopFails(a)
  PROVE  ControlInv'
  <1>1. /\ UNCHANGED <<spc, request, reply, handle, active, g_config, before, faulty>>
        /\ ControlTypeOK /\ ThreadsEnd /\ (a \in Clients => AnswerComes(a))
    BY DEF ControlInv, StopSender, StopJoined, StopDone, StopFails, solution, history, sending
  <1>2. pc[a] \in {"stop", "join"} /\ Alone(a)
    BY ChangerIsAlone DEF StopSender, StopJoined, StopDone, StopFails, SolutionAt
  <1>3. \A b \in Actors \ {a} : pc[b] # "join"
    BY <1>2 DEF Alone, Changing, SolutionAt
  <1>4. PICK p \in {"stop", "join", "uninit"} : Goto(a, p)
    BY DEF StopSender, StopJoined, StopDone, StopFails
  <1>5. pc'[a] = p /\ \A b \in Actors \ {a} : pc'[b] = pc[b]
    BY <1>1, <1>4 DEF Goto, ControlTypeOK
  <1>6. /\ pc' \in [Actors -> ClientAt \cup SolutionAt \cup {"loop"}]
        /\ pc'[main] \in SolutionAt \cup {"loop"}
    BY <1>1, <1>4 DEF Goto, ControlTypeOK, SolutionAt, Actors
  <1>7. a \in Clients => AnswerComes(a)'
    BY <1>1, <1>2, <1>5 DEF AnswerComes, Asks
  <1>8. CASE StopSender(a)
    <2>1. PICK s \in Senders :
            /\ run[s] /\ run' = [run EXCEPT ![s] = FALSE] /\ joining' = [joining EXCEPT ![a] = s]
      BY <1>8 DEF StopSender
    <2>2. /\ pc[a] = "stop" /\ pc'[a] = "join" /\ hardware' = hardware /\ cutShort' = cutShort
          /\ hardware \in {"partly", "running", "limping"}
      BY <1>1, <1>5, <1>8 DEF StopSender, Started, Running, solution, history, Goto, ControlTypeOK
    <2>3. ControlTypeOK'
      BY <1>1, <1>6, <2>1, <2>2 DEF ControlTypeOK
    <2>4. \A r \in Senders :
            Accounted(r) /\ ~ run'[r] => spc[r] = "exited" \/ (r = s /\ joining'[a] = s)
      BY <1>1, <1>2, <1>3, <2>1, <2>2 DEF ThreadsEnd, ControlTypeOK
    <2>5. ThreadsEnd'
      BY <1>1, <2>2, <2>4 DEF ThreadsEnd, Accounted
    <2>6. HardwareStopped(a)'
      BY <2>2 DEF HardwareStopped
    <2>7. \A b \in Actors \ {a} : joining'[b] = joining[b]
      BY <1>1, <2>1 DEF ControlTypeOK
    <2> QED  BY <1>1, <1>2, <1>4, <1>7, <2>3, <2>5, <2>6, <2>7, AloneMoves
  <1>9. CASE StopJoined(a)
    <2>1. /\ pc[a] = "join" /\ pc'[a] = "stop" /\ spc[joining[a]] = "exited"
          /\ joining' = [joining EXCEPT ![a] = NULL]
          /\ run' = run /\ hardware' = hardware /\ cutShort' = cutShort
      BY <1>1, <1>9 DEF StopJoined, solution, history, Goto, ControlTypeOK
    <2>2. ControlTypeOK'
      BY <1>1, <1>6, <2>1 DEF ControlTypeOK
    <2>3. \A s \in Senders : Accounted(s) /\ ~ run[s] => spc[s] = "exited"
      BY <1>1, <1>3, <2>1 DEF ThreadsEnd
    <2>4. ThreadsEnd'
      BY <1>1, <2>1, <2>3 DEF ThreadsEnd, AllEnded, Accounted
    <2>5. HardwareStopped(a)'
      BY <2>1 DEF HardwareStopped
    <2>6. \A b \in Actors \ {a} : joining'[b] = joining[b]
      BY <1>1, <2>1 DEF ControlTypeOK
    <2> QED  BY <1>1, <1>2, <1>4, <1>7, <2>2, <2>4, <2>5, <2>6, AloneMoves
  <1>10. CASE StopDone(a)
    <2>1. /\ pc[a] = "stop" /\ pc'[a] = "uninit" /\ run' = run /\ joining' = joining
          /\ cutShort' = cutShort
          /\ Started => \A s \in Senders : ~ run[s]
          /\ hardware' = IF ~ Started THEN hardware
                         ELSE IF hardware = "limping" THEN "lame" ELSE "ready"
      BY <1>1, <1>10 DEF StopDone, Goto, ControlTypeOK, history
    <2>8. hardware' \in Hardware /\ (hardware' = hardware \/ Started)
      BY <1>1, <2>1 DEF ControlTypeOK, Hardware
    <2>2. \A s \in Senders : Accounted(s) /\ ~ run[s] => spc[s] = "exited"
      BY <1>1, <1>3, <2>1 DEF ThreadsEnd
    <2>3. ControlTypeOK'
      BY <1>1, <1>6, <2>1, <2>8 DEF ControlTypeOK
    <2>4. AllEnded
      <3>1. CASE Started
        BY <2>1, <2>2, <3>1 DEF AllEnded
      <3>2. CASE ~ Started
        BY <1>1, <3>2 DEF Started, Running, ThreadsEnd, ControlTypeOK, Hardware
      <3> QED  BY <3>1, <3>2
    <2>5. AllEnded'
      BY <1>1, <2>1, <2>4 DEF AllEnded, Accounted
    <2>6. ThreadsEnd'
      BY <1>1, <2>1, <2>5, <2>8 DEF ThreadsEnd, AllEnded, Started
    <2>7. HardwareStopped(a)'
      BY <2>1, <2>5 DEF HardwareStopped
    <2> QED  BY <1>1, <1>2, <1>4, <1>7, <2>1, <2>3, <2>6, <2>7, AloneMoves
  <1>11. CASE StopFails(a)
    <2>1. /\ pc[a] = "stop" /\ pc'[a] = "uninit" /\ run' = run /\ joining' = joining
          /\ Started /\ OthersStopped /\ hardware' = "partly" /\ cutShort'
      BY <1>1, <1>11 DEF StopFails, Goto, ControlTypeOK
    <2>2. ControlTypeOK'
      BY <1>1, <1>6, <2>1 DEF ControlTypeOK, Hardware
    <2>3. AllEnded'
      BY <1>1, <1>3, <2>1 DEF AllEnded, Accounted, OthersStopped, ThreadsEnd
    <2>4. ThreadsEnd'
      BY <1>1, <2>1, <2>3 DEF ThreadsEnd, AllEnded, Started
    <2>5. HardwareStopped(a)'
      BY <2>1, <2>3 DEF HardwareStopped
    <2> QED  BY <1>1, <1>2, <1>4, <1>7, <2>1, <2>2, <2>4, <2>5, AloneMoves
  <1> QED  BY <1>8, <1>9, <1>10, <1>11

LEMMA InitControl ==
  ASSUME WebAssumption, ControlInv, NEW a \in Actors,
         Uninit(a) \/ InitCall(a) \/ InitOk(a) \/ InitSwallows(a) \/ InitFails(a)
  PROVE  ControlInv'
  <1>1. /\ UNCHANGED <<spc, joining, g_config, cutShort>>
        /\ ControlTypeOK /\ ThreadsEnd /\ HardwareStopped(a) /\ (a \in Clients => AnswerComes(a))
        /\ main \in Actors /\ (a # main => a \in Clients)
    BY DEF ControlInv, Uninit, InitCall, InitOk, InitSwallows, InitFails, history, sending, Actors
  <1>2. pc[a] \in {"uninit", "init", "initHw"} /\ Alone(a)
    BY ChangerIsAlone DEF Uninit, InitCall, InitOk, InitSwallows, InitFails, SolutionAt
  <1>3. PICK p \in {"check", "initHw", "start", "loop", "answer"} :
          /\ Goto(a, p) \/ UNCHANGED pc
          /\ a = main => p \notin {"check", "answer"}
    BY DEF Uninit, InitCall, InitOk, InitSwallows, InitFails, GiveUp
  <1>4. /\ pc' \in [Actors -> ClientAt \cup SolutionAt \cup {"loop"}]
        /\ pc'[main] \in SolutionAt \cup {"loop"}
        /\ \A b \in Actors : pc[b] = "join" <=> pc'[b] = "join"
    <2>1. pc'[a] \in {p, pc[a]} /\ \A b \in Actors \ {a} : pc'[b] = pc[b]
      BY <1>1, <1>3 DEF Goto, ControlTypeOK
    <2>2. pc' \in [Actors -> ClientAt \cup SolutionAt \cup {"loop"}]
      BY <1>1, <1>3 DEF Goto, ControlTypeOK, SolutionAt, ClientAt
    <2> QED  BY <1>1, <1>2, <1>3, <2>1, <2>2 DEF ControlTypeOK, SolutionAt
  <1>5. /\ reply' \in [Clients -> Replies] /\ request' \in [Clients -> Configs \cup {NULL}]
        /\ \A c \in Clients \ {a} : reply'[c] = reply[c] /\ request'[c] = request[c]
    BY <1>1 DEF Uninit, InitCall, InitOk, InitSwallows, InitFails, GiveUp, ControlTypeOK, Replies
  <1>6. hardware' \in Hardware
    BY <1>1 DEF Uninit, InitCall, InitOk, InitSwallows, InitFails, solution, ControlTypeOK, Hardware
  <1>7. run' \in {run, [s \in Senders |-> FALSE]}
    BY DEF Uninit, InitCall, InitOk, InitSwallows, InitFails, ThreadsCleared
  <1>8. ControlTypeOK'
    BY <1>1, <1>4, <1>5, <1>6, <1>7 DEF ControlTypeOK
  <1>9. AllEnded'
    BY <1>1, <1>2, <1>7 DEF HardwareStopped, AllEnded, Accounted
  <1>10. ~ handle' => hardware' = "down"
    BY <1>1, <1>2 DEF Uninit, InitCall, InitOk, InitSwallows, InitFails, solution, ThreadsEnd,
       HardwareStopped
  <1>11. ThreadsEnd'
    BY <1>9, <1>10 DEF ThreadsEnd, AllEnded
  <1>12. HardwareStopped(a)'
    <2>1. pc'[a] = "initHw" => handle' /\ hardware' = "down"
      BY <1>1, <1>2 DEF Uninit, InitCall, InitOk, InitSwallows, InitFails, Goto, GiveUp,
         ControlTypeOK, ThreadsEnd
    <2> QED  BY <1>9, <2>1 DEF HardwareStopped
  <1>13. ASSUME a \in Clients  PROVE AnswerComes(a)'
    <2>1. a # main
      BY <1>13 DEF WebAssumption
    <2>2. CASE Uninit(a)
      BY <1>1, <1>13, <2>1, <2>2 DEF Uninit, Goto, AnswerComes, Asks, ControlTypeOK, solution
    <2>3. CASE InitCall(a)
      BY <1>1, <1>13, <2>3 DEF InitCall, Goto, AnswerComes, Asks, Same, ControlTypeOK, history
    <2>4. CASE InitOk(a)
      BY <1>1, <1>13, <2>4 DEF InitOk, Goto, AnswerComes, Asks, Same, ControlTypeOK, history
    <2>5. CASE InitSwallows(a)
      BY <1>1, <1>13, <2>5 DEF InitSwallows, Goto, AnswerComes, Asks, Same, ControlTypeOK, history
    <2>6. CASE InitFails(a)
      BY <1>1, <1>13, <2>1, <2>6 DEF InitFails, GiveUp, Goto, AnswerComes, Asks, ControlTypeOK
    <2> QED  BY <2>2, <2>3, <2>4, <2>5, <2>6
  <1> QED  BY <1>1, <1>2, <1>3, <1>5, <1>8, <1>11, <1>12, <1>13, AloneMoves

\* solution_handle_start.
LEMMA StartControl ==
  ASSUME WebAssumption, ControlInv, NEW a \in Actors, StartOk(a) \/ StartFails(a)
  PROVE  ControlInv'
  <1>1. /\ UNCHANGED <<joining, handle, active, g_config, faulty>>
        /\ ControlTypeOK /\ ThreadsEnd /\ HardwareStopped(a) /\ (a \in Clients => AnswerComes(a))
        /\ main \in Actors /\ (a # main => a \in Clients)
    BY DEF ControlInv, StartOk, StartFails, history, Actors
  <1>2. pc[a] = "start" /\ Alone(a)
    BY ChangerIsAlone DEF StartOk, StartFails, SolutionAt
  <1>3. AllEnded
    BY <1>1, <1>2 DEF HardwareStopped
  <1>4. PICK p \in {"loop", "answer"} : Goto(a, p) /\ (a = main => p = "loop")
    BY DEF StartOk, StartFails, GiveUp
  <1>5. /\ pc'[a] = p /\ \A b \in Actors \ {a} : pc'[b] = pc[b]
        /\ pc' \in [Actors -> ClientAt \cup SolutionAt \cup {"loop"}]
        /\ pc'[main] \in SolutionAt \cup {"loop"}
    <2>1. pc'[a] = p /\ \A b \in Actors \ {a} : pc'[b] = pc[b]
      BY <1>1, <1>4 DEF Goto, ControlTypeOK
    <2>2. pc' \in [Actors -> ClientAt \cup SolutionAt \cup {"loop"}]
      BY <1>1, <1>4 DEF Goto, ControlTypeOK, ClientAt
    <2> QED  BY <1>1, <1>4, <2>1, <2>2 DEF ControlTypeOK
  <1>6. /\ reply' \in [Clients -> Replies] /\ request' \in [Clients -> Configs \cup {NULL}]
        /\ \A c \in Clients \ {a} : reply'[c] = reply[c] /\ request'[c] = request[c]
    BY <1>1 DEF StartOk, StartFails, GiveUp, ControlTypeOK, Replies
  <1>7. /\ run' \in [Senders -> BOOLEAN]
        /\ spc' \in [Senders -> {"idle", "multicast", "sending", "exited"}]
        /\ hardware' \in Hardware
        /\ handle' => hardware' \in {"partly", "running", "limping"}
        /\ ~ handle' => hardware' = "down" /\ AllEnded'
        /\ \A s \in Senders : Accounted(s)' /\ ~ run'[s] => spc'[s] = "exited"
    <2>1. CASE StartOk(a)
      <3>1. handle /\ run' = [s \in Senders |-> TRUE] /\ spc' = [s \in Senders |-> "idle"]
            /\ hardware' \in {"running", "limping"}
        BY <2>1 DEF StartOk
      <3> QED  BY <1>1, <3>1 DEF Hardware
    <2>2. CASE StartFails(a) /\ ~ handle
      <3>1. UNCHANGED <<hardware, run, spc, cutShort>>
        BY <2>2 DEF StartFails
      <3>2. AllEnded'
        BY <1>3, <3>1 DEF AllEnded, Accounted
      <3> QED  BY <1>1, <2>2, <3>1, <3>2 DEF ThreadsEnd, ControlTypeOK, AllEnded
    <2>3. CASE StartFails(a) /\ handle
      <3>1. /\ hardware' = "partly" /\ cutShort' = cutShort
            /\ \E S \in SUBSET {s \in Senders : spc[s] = "exited"} :
                 /\ run' = [s \in Senders |-> s \in S \/ run[s]]
                 /\ spc' = [s \in Senders |-> IF s \in S THEN "idle" ELSE spc[s]]
        BY <2>3 DEF StartFails
      <3>2. PICK S \in SUBSET {s \in Senders : spc[s] = "exited"} :
                 /\ run' = [s \in Senders |-> s \in S \/ run[s]]
                 /\ spc' = [s \in Senders |-> IF s \in S THEN "idle" ELSE spc[s]]
        BY <3>1
      <3>3. \A s \in Senders : (s \in S \/ run[s]) \in BOOLEAN
        OBVIOUS
      <3>4. run' \in [Senders -> BOOLEAN]
        BY <3>2, <3>3
      <3>5. spc' \in [Senders -> {"idle", "multicast", "sending", "exited"}]
        BY <1>1, <3>2 DEF ControlTypeOK
      <3>6. ASSUME NEW s \in Senders, Accounted(s)', ~ run'[s]  PROVE spc'[s] = "exited"
        <4>1. s \notin S /\ Accounted(s)
          BY <3>1, <3>2, <3>6 DEF Accounted
        <4> QED  BY <1>3, <3>2, <4>1 DEF AllEnded
      <3> QED  BY <1>1, <2>3, <3>1, <3>4, <3>5, <3>6 DEF Hardware
    <2> QED  BY <2>1, <2>2, <2>3
  <1>8. ControlTypeOK'
    BY <1>1, <1>5, <1>6, <1>7 DEF ControlTypeOK
  <1>9. ThreadsEnd'
    BY <1>7 DEF ThreadsEnd
  <1>10. HardwareStopped(a)'
    BY <1>5 DEF HardwareStopped
  <1>11. ASSUME a \in Clients  PROVE AnswerComes(a)'
    <2>1. a # main
      BY <1>11 DEF WebAssumption
    <2>2. CASE StartOk(a)
      BY <1>1, <1>2, <1>5, <1>11, <2>1, <2>2 DEF StartOk, AnswerComes, Asks, Running, Same
    <2>3. CASE StartFails(a)
      <3>1. reply'[a] = "fatal"
        BY <1>1, <1>11, <2>1, <2>3 DEF StartFails, GiveUp, ControlTypeOK
      <3> QED  BY <1>5, <3>1 DEF AnswerComes, Asks
    <2> QED  BY <2>2, <2>3
  <1> QED  BY <1>1, <1>2, <1>4, <1>6, <1>8, <1>9, <1>10, <1>11, AloneMoves

\* The answer is sent.
LEMMA AnswerSendControl ==
  ASSUME WebAssumption, ControlInv, NEW c \in Clients, AnswerSend(c)
  PROVE  ControlInv'
  <1>1. /\ UNCHANGED <<spc, run, joining, handle, hardware, active, g_config, cutShort>>
        /\ ControlTypeOK /\ ThreadsEnd
        /\ c \in Actors /\ c # main /\ main \in Actors
        /\ pc[c] = "sending"
    BY DEF ControlInv, AnswerSend, solution, sending, Actors, WebAssumption
  <1>2. /\ reply' = [reply EXCEPT ![c] = "none"] /\ request' = [request EXCEPT ![c] = NULL]
        /\ pc' = pc \/ pc' = [pc EXCEPT ![c] = "recv"]
    BY DEF AnswerSend, Goto
  <1>3. /\ \A b \in Actors \ {c} : pc'[b] = pc[b]
        /\ pc'[c] \in {"recv", "sending"} /\ (pc'[c] = "sending" => reply[c] = "fatal")
        /\ reply'[c] = "none"
    BY <1>1 DEF ControlTypeOK, AnswerSend, Goto
  <1>4. ControlTypeOK'
    BY <1>1, <1>2 DEF ControlTypeOK, ClientAt, Replies
  <1>5. ThreadsEnd'
    BY <1>1, <1>3 DEF ThreadsEnd, AllEnded, Accounted
  <1>6. HardwareStopped(c)' /\ AnswerComes(c)'
    BY <1>3 DEF HardwareStopped, AnswerComes, Asks
  <1>7. Changing(c)' => reply[c] = "fatal"
    BY <1>3 DEF Changing, SolutionAt
  <1>8. reply[c] # "config" => Alone(c)
    BY <1>1 DEF ControlInv, OneChanges, Changing
  <1>9. Alone(c) \/ (UNCHANGED <<SolutionVars, spc>> /\ StaysSame)
    BY <1>1, <1>8 DEF AnswerSend, SolutionVars, StaysSame, Same, ControlTypeOK
  <1>10. \A d \in Clients \ {c} : reply'[d] = reply[d] /\ request'[d] = request[d]
    BY <1>1, <1>2 DEF ControlTypeOK
  <1> QED  BY <1>1, <1>3, <1>4, <1>5, <1>6, <1>7, <1>8, <1>9, <1>10, OneMoves

\* The threads of the solution end when they are told to, and no sooner.
LEMMA SenderControl ==
  ASSUME WebAssumption, ControlInv, NEW s \in Senders, SenderStep(s) \/ SenderLocks(s)
  PROVE  ControlInv'
  <1>1. UNCHANGED <<SolutionVars, pc, joining, request, reply, g_config>> /\ ControlTypeOK
    BY DEF ControlInv, SenderStep, SenderLocks, SenderHead, MulticastSend, MulticastDone,
           MulticastNobody, MulticastTake, SolutionVars, solution, history
  <1>2. /\ spc' \in [Senders -> {"idle", "multicast", "sending", "exited"}]
        /\ \A r \in Senders : spc[r] = "exited" => spc'[r] = "exited"
    BY <1>1 DEF SenderStep, SenderLocks, SenderHead, MulticastSend, MulticastDone,
           MulticastNobody, MulticastTake, ControlTypeOK
  <1>3. ControlTypeOK'
    BY <1>1, <1>2 DEF ControlTypeOK, SolutionVars
  <1>4. ThreadsEnd'
    BY <1>1, <1>2 DEF ControlInv, ThreadsEnd, AllEnded, Accounted, SolutionVars
  <1>5. OneChanges'
    BY <1>1 DEF ControlInv, OneChanges, Alone, Changing
  <1>6. ASSUME NEW a \in Actors  PROVE HardwareStopped(a)'
    BY <1>1, <1>2 DEF ControlInv, HardwareStopped, AllEnded, Accounted, SolutionVars
  <1>7. ASSUME NEW c \in Clients  PROVE AnswerComes(c)'
    BY <1>1 DEF ControlInv, AnswerComes, Asks, Running, Same, SolutionVars
  <1> QED  BY <1>3, <1>4, <1>5, <1>6, <1>7 DEF ControlInv

LEMMA ControlInvInit == ASSUME WebAssumption, WebInit PROVE ControlInv
  <1>1. \A a \in Actors \ {main} : ~ Changing(a)
    BY DEF WebInit, Changing, SolutionAt
  <1>2. OneChanges
    BY <1>1 DEF OneChanges, Alone
  <1>3. main \in Actors /\ main \notin Clients
    BY DEF Actors, WebAssumption
  <1>4. ControlTypeOK
    BY <1>3 DEF WebInit, ControlTypeOK, ClientAt, SolutionAt, Replies, Hardware
  <1>5. ThreadsEnd
    BY DEF WebInit, ThreadsEnd, AllEnded
  <1>6. \A a \in Actors : HardwareStopped(a)
    BY DEF WebInit, HardwareStopped, AllEnded
  <1>7. ASSUME NEW c \in Clients  PROVE AnswerComes(c)
    BY <1>3 DEF WebInit, AnswerComes, Asks, Actors
  <1> QED  BY <1>2, <1>4, <1>5, <1>6, <1>7 DEF ControlInv

LEMMA ControlInvNext == ASSUME WebAssumption, ControlInv, [WebNext]_vars PROVE ControlInv'
  <1>1. CASE UNCHANGED vars
    BY <1>1 DEF vars, sending, solution, history, ControlInv, ControlTypeOK, OneChanges, Alone,
       Changing, ThreadsEnd, HardwareStopped, AnswerComes, AllEnded, Accounted, Asks, Running, Same
  <1>2. ASSUME NEW a \in Actors, SolutionStep(a)  PROVE ControlInv'
    <2>1. CASE StartDoubles(a)
      BY <2>1 DEF StartDoubles, solution, sending, ControlInv, ControlTypeOK, OneChanges, Alone,
         Changing, ThreadsEnd, HardwareStopped, AnswerComes, AllEnded, Accounted, Asks, Running, Same
    <2> QED  BY <1>2, <2>1, StopControl, InitControl, StartControl DEF SolutionStep
  <1>3. ASSUME NEW c \in Clients, ClientStep(c)  PROVE ControlInv'
    <2>1. c \in Actors
      BY DEF Actors
    <2> QED
      BY <1>2, <1>3, <2>1, TalkControl, CommandControl, AnswerSendControl
      DEF ClientStep, SwitchStep
  <1>4. CASE SolutionStep(main) \/ Sigint
    BY <1>2, <1>4, CommandControl DEF Actors
  <1>5. CASE \E s \in Senders : SenderStep(s) \/ SenderLocks(s)
    BY <1>5, SenderControl
  <1> QED
    BY <1>1, <1>3, <1>4, <1>5 DEF WebNext, Exit

LEMMA ControlInvHolds == WebSpec => []ControlInv
  <1>1. WebInit => ControlInv
    BY WebAssumption, ControlInvInit
  <1>2. ControlInv /\ [WebNext]_vars => ControlInv'
    BY WebAssumption, ControlInvNext
  <1> QED
    BY <1>1, <1>2, PTL DEF WebSpec

\* Whatever a stop, an uninit, an init or a start before has failed in, when
\* solution_handle_start begins, each thread it is to start has been stopped and
\* joined, for any number of clients, threads and switches; of the threads of
\* bpu_wrap that is so unless a stop has ended before bpu_wrap_stop.
THEOREM NoThreadIsStartedTwice == WebSpec => []NoThreadTwice
  <1>1. ControlInv => NoThreadTwice
    BY DEF ControlInv, HardwareStopped, AllEnded, NoThreadTwice
  <1> QED
    BY <1>1, ControlInvHolds, PTL

\* The response to a switch says what the solution was started with, up to the
\* displays: what was asked for after 200, what ran before after an error, for
\* any number of clients and configurations, with displays that come and go.
THEOREM AnswersAreTrue == WebSpec => []AnswerIsTrue
  <1>1. ControlInv => AnswerIsTrue
    BY DEF ControlInv, AnswerComes, AnswerIsTrue, Same
  <1> QED
    BY <1>1, ControlInvHolds, PTL
=============================================================================
