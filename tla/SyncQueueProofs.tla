-------------------------- MODULE SyncQueueProofs --------------------------
(***************************************************************************)
(* Theorems about SyncQueue, for any number of items and users.  First     *)
(* what each step does to the places and counts of the items, then the     *)
(* theorems of a steady pipeline, which nobody stops and in which a thread *)
(* waits long enough for an item that is due.  Last, what is left of them  *)
(* while it stops.  Of time-outs only the types are proved to bear them.   *)
(***************************************************************************)
EXTENDS SyncQueue, FiniteSetTheorems, TLAPS

Steady == ~ MayTimeOut /\ ~ MayStop

Filling == ppc \in {"fill", "init", "save"}
MainUp == is_running["main"]
Has(s, i) == \E k \in 1 .. Len(s) : s[k] = i
Once(s) == \A j, k \in 1 .. Len(s) : s[j] = s[k] => j = k

\* Who is to have an item has one.
TypeInv ==
    /\ SyncTypeOK
    /\ Filling => pitem \in Items
    /\ \A u \in Users : upc[u] = "use" => uitem[u] \in Items

\* As long as the main flag is up, everybody is at work; the codecs are told
\* to go only after the producer has left.
FlagInv ==
    /\ MainUp => /\ \A f \in Flags : is_running[f]
                 /\ stopped = "no" /\ ppc # "exit"
                 /\ \A u \in Users : upc[u] \notin {"left", "exit", "crash"}
    /\ stopped = "joinCodecs" => ppc = "exit"
    /\ stopped # "destroyed"

(***************************************************************************)
(* Where the items are, and how they are counted.  While the pipeline      *)
(* stops, a main user may repay its last item a second time: loose is the  *)
(* item of which this is so, or NoItem.                                    *)
(***************************************************************************)

\* An item is in one queue once, or with the producer, or only with users;
\* with users it may also be in inused_queue.
PlaceInv(loose) ==
    /\ Once(unused) /\ Once(inused)
    /\ \A i \in Items : ~ (Has(unused, i) /\ Has(inused, i))
    /\ \A i \in Items \ {loose} : Has(unused, i) => UsersOf(i) = {}
    /\ loose \in Items => ~ Has(inused, loose)
    /\ Filling => /\ ~ Has(unused, pitem) /\ ~ Has(inused, pitem)
                  /\ UsersOf(pitem) = {} /\ pitem # loose
    /\ ppc # "exit" => \A i \in Items :
         Has(unused, i) \/ Has(inused, i) \/ UsersOf(i) # {} \/ (Filling /\ pitem = i)

\* The counts of an item that is published, and of one only users have.
Exact(i) ==
    /\ ref_obtain[i] = Cardinality(user_recoder[i])
    /\ ref_obtain[i] > 0
    /\ ref_repay[i] = ref_obtain[i] + Cardinality(UsersOf(i))
    /\ UsersOf(i) \cap user_recoder[i] = {}

CountInv(loose) ==
    /\ \A i \in Items : Has(inused, i) => Exact(i)
    /\ \A k \in 2 .. Len(inused) : user_recoder[inused[k]] = Users
    /\ \A i \in Items \ {loose} : ~ Has(inused, i) /\ UsersOf(i) # {} =>
         ref_repay[i] = Cardinality(UsersOf(i))
    /\ \A i \in Items : Has(unused, i) => ref_repay[i] <= 0
    /\ loose \in Items /\ ~ Has(unused, loose) =>
         ref_repay[loose] \in 1 .. Cardinality(UsersOf(loose))
    /\ ppc = "save" => ref_obtain[pitem] = user_count /\ ref_repay[pitem] = user_count

CoreInv(loose) == TypeInv /\ FlagInv /\ PlaceInv(loose) /\ CountInv(loose)

\* What a steady pipeline keeps.
SyncInv == MainUp /\ CoreInv(NoItem)

-----------------------------------------------------------------------------
\* Queues of items.
LEMMA TailItems ==
    ASSUME NEW s \in Seq(Items), s # << >>, Once(s)
    PROVE  /\ Tail(s) \in Seq(Items) /\ Once(Tail(s))
           /\ Head(s) = s[1] /\ Head(s) \in Items /\ Has(s, Head(s))
           /\ \A i : Has(Tail(s), i) <=> Has(s, i) /\ i # Head(s)
           /\ \A k \in 1 .. Len(Tail(s)) : k + 1 \in 2 .. Len(s) /\ Tail(s)[k] = s[k + 1]
  <1> DEFINE t == Tail(s)
  <1>1. /\ t \in Seq(Items) /\ Len(t) = Len(s) - 1
        /\ Head(s) = s[1] /\ s[1] \in Items
        /\ 1 \in 1 .. Len(s) /\ Len(s) \in Nat
    OBVIOUS
  <1>2. \A k \in 1 .. Len(t) : k + 1 \in 2 .. Len(s) /\ t[k] = s[k + 1]
    OBVIOUS
  <1> HIDE DEF t
  <1>3. \A k \in 2 .. Len(s) : k - 1 \in 1 .. Len(t) /\ t[k - 1] = s[k]
    <2> TAKE k \in 2 .. Len(s)
    <2>1. k - 1 \in 1 .. Len(t)
      BY <1>1
    <2>2. t[k - 1] = s[(k - 1) + 1] /\ (k - 1) + 1 = k
      BY <1>1, <1>2, <2>1
    <2> QED  BY <2>1, <2>2
  <1>4. Once(t)
    BY <1>1, <1>2 DEF Once
  <1>5. ASSUME NEW i  PROVE Has(t, i) <=> Has(s, i) /\ i # s[1]
    <2>1. ASSUME NEW k \in 1 .. Len(t), t[k] = i  PROVE Has(s, i) /\ i # s[1]
      <3>1. k + 1 \in 1 .. Len(s) /\ s[k + 1] = i /\ k + 1 # 1
        BY <1>1, <1>2, <2>1
      <3> QED  BY <1>1, <3>1 DEF Has, Once
    <2>2. ASSUME NEW k \in 1 .. Len(s), s[k] = i, i # s[1]  PROVE Has(t, i)
      <3>1. k \in 2 .. Len(s)
        BY <1>1, <2>2
      <3> QED  BY <1>3, <2>2, <3>1 DEF Has
    <2> QED  BY <2>1, <2>2 DEF Has
  <1>6. Has(s, s[1])
    BY <1>1 DEF Has
  <1> QED  BY <1>1, <1>2, <1>4, <1>5, <1>6 DEF t

LEMMA AppendItems ==
    ASSUME NEW s \in Seq(Items), NEW x \in Items, Once(s), ~ Has(s, x)
    PROVE  /\ Append(s, x) \in Seq(Items) /\ Once(Append(s, x))
           /\ \A i : Has(Append(s, x), i) <=> Has(s, i) \/ i = x
           /\ \A k \in 2 .. Len(Append(s, x)) :
                \/ k \in 2 .. Len(s) /\ Append(s, x)[k] = s[k]
                \/ Append(s, x)[k] = x
  <1> DEFINE r == Append(s, x)
  <1>1. /\ r \in Seq(Items) /\ Len(r) = Len(s) + 1 /\ Len(s) \in Nat
        /\ \A k \in 1 .. Len(s) : r[k] = s[k]
        /\ r[Len(r)] = x
    OBVIOUS
  <1> HIDE DEF r
  <1>2. \A k \in 1 .. Len(r) : k \in 1 .. Len(s) \/ k = Len(r)
    BY <1>1
  <1>3. \A k \in 1 .. Len(s) : s[k] # x /\ k \in 1 .. Len(r)
    BY <1>1 DEF Has
  <1>4. Once(r)
    BY <1>1, <1>2, <1>3 DEF Once
  <1>5. Len(r) \in 1 .. Len(r)
    BY <1>1
  <1>6. \A i : Has(r, i) <=> Has(s, i) \/ i = x
    BY <1>1, <1>2, <1>3, <1>5 DEF Has
  <1>7. \A k \in 2 .. Len(r) : (k \in 2 .. Len(s) /\ r[k] = s[k]) \/ r[k] = x
    BY <1>1
  <1> QED  BY <1>1, <1>4, <1>6, <1>7 DEF r

\* A queue that lacks an item has room for it.
LEMMA RoomForItem ==
    ASSUME NEW s \in Seq(Items), NEW x \in Items, Once(s), ~ Has(s, x)
    PROVE  Len(s) < Cardinality(Items)
  <1>1. IsFiniteSet(Items \ {x}) /\ Cardinality(Items \ {x}) = Cardinality(Items) - 1
    BY SyncQueueAssumption, FS_RemoveElement
  <1>2. s \in Injection(1 .. Len(s), Items \ {x})
    <2>1. s \in [1 .. Len(s) -> Items] /\ DOMAIN s = 1 .. Len(s)
      OBVIOUS
    <2>2. s \in [1 .. Len(s) -> Items \ {x}]
      BY <2>1 DEF Has
    <2> QED  BY <2>1, <2>2 DEF Injection, IsInjective, Once
  <1>3. Cardinality(1 .. Len(s)) = Len(s) /\ Len(s) \in Nat
    <2>1. Len(s) \in Nat /\ 1 \in Int
      OBVIOUS
    <2>2. Cardinality(1 .. Len(s)) = IF 1 > Len(s) THEN 0 ELSE Len(s) - 1 + 1
      BY <2>1, FS_Interval
    <2> QED  BY <2>1, <2>2
  <1>4. Len(s) <= Cardinality(Items) - 1
    BY <1>1, <1>2, <1>3, FS_Injection
  <1>5. Cardinality(Items) \in Nat
    BY SyncQueueAssumption, FS_CardinalityType
  <1> QED  BY <1>3, <1>4, <1>5

\* A queue that has every item once has as many entries as there are items.
LEMMA AllInQueue ==
    ASSUME NEW s \in Seq(Items), Once(s), \A i \in Items : Has(s, i)
    PROVE  Len(s) = Cardinality(Items)
  <1>1. s \in Bijection(1 .. Len(s), Items)
    <2>1. s \in [1 .. Len(s) -> Items]
      OBVIOUS
    <2> QED  BY <2>1 DEF Bijection, Injection, Surjection, IsInjective, Once, Has
  <1>2. Cardinality(1 .. Len(s)) = Len(s) /\ IsFiniteSet(1 .. Len(s))
    <2>1. Len(s) \in Nat /\ 1 \in Int /\ Len(s) \in Int
      OBVIOUS
    <2>2. /\ IsFiniteSet(1 .. Len(s))
          /\ Cardinality(1 .. Len(s)) = IF 1 > Len(s) THEN 0 ELSE Len(s) - 1 + 1
      BY <2>1, FS_Interval
    <2> QED  BY <2>1, <2>2
  <1> QED  BY <1>1, <1>2, FS_Bijection DEF ExistsBijection

\* sync_queue_create puts each item into ununsed_queue once.
LEMMA AllItems ==
    /\ SetToSeq(Items) \in Seq(Items)
    /\ Once(SetToSeq(Items))
    /\ \A i \in Items : Has(SetToSeq(Items), i)
  <1> DEFINE n == Cardinality(Items)  s == SetToSeq(Items)
  <1>1. n \in Nat /\ ExistsBijection(1 .. n, Items) /\ IsFiniteSet(Items)
    BY SyncQueueAssumption, FS_CardinalityType
  <1>2. PICK f \in Bijection(1 .. n, Items) : TRUE
    BY <1>1 DEF ExistsBijection
  <1>3. f \in [1 .. n -> Items] /\ IsInjective(f)
    BY <1>2 DEF Bijection, Injection
  <1>4. s \in [1 .. n -> Items] /\ IsInjective(s)
    BY <1>3 DEF SetToSeq
  <1>5. s \in Seq(Items) /\ Len(s) = n
    <2> HIDE DEF s
    <2> QED  BY <1>1, <1>4
  <1>6. s \in Surjection(1 .. n, Items)
    <2>1. Cardinality(1 .. n) = n
      <3>1. Cardinality(1 .. n) = IF 1 > n THEN 0 ELSE n - 1 + 1
        BY <1>1, FS_Interval
      <3> QED  BY <1>1, <3>1
    <2> QED  BY <1>1, <1>4, <2>1, FS_Injection DEF Injection
  <1> HIDE DEF s, n
  <1>7. \A i \in Items : \E k \in 1 .. n : s[k] = i
    BY <1>6 DEF Surjection
  <1> QED  BY <1>4, <1>5, <1>7 DEF Once, Has, IsInjective, s

\* Two queues that have each item once, and none in common.
LEMMA OncePlaced ==
    ASSUME unused \in Seq(Items), inused \in Seq(Items), Once(unused), Once(inused),
           \A i \in Items : ~ (Has(unused, i) /\ Has(inused, i))
    PROVE  NoDoubleItem
  <1> DEFINE both == unused \o inused
  <1>1. Len(unused) \in Nat /\ Len(inused) \in Nat
    OBVIOUS
  <1>2. /\ DOMAIN both = 1 .. Len(unused) + Len(inused)
        /\ \A k \in 1 .. Len(unused) : both[k] = unused[k] /\ unused[k] \in Items
        /\ \A k \in Len(unused) + 1 .. Len(unused) + Len(inused) :
             both[k] = inused[k - Len(unused)]
    BY <1>1
  <1> HIDE DEF both
  <1>3. \A k \in DOMAIN both :
          \/ k \in 1 .. Len(unused)
          \/ k \in Len(unused) + 1 .. Len(unused) + Len(inused)
             /\ k - Len(unused) \in 1 .. Len(inused)
    BY <1>1, <1>2
  <1>4. \A j \in 1 .. Len(unused), k \in 1 .. Len(inused) : unused[j] # inused[k]
    BY <1>2 DEF Has
  <1>5. ASSUME NEW m \in DOMAIN both, NEW n \in DOMAIN both, both[m] = both[n]  PROVE m = n
    <2>1. CASE m \in 1 .. Len(unused) /\ n \in 1 .. Len(unused)
      BY <1>2, <1>5, <2>1 DEF Once
    <2>2. CASE m \notin 1 .. Len(unused) /\ n \notin 1 .. Len(unused)
      <3>1. m - Len(unused) = n - Len(unused)
        BY <1>2, <1>3, <1>5, <2>2 DEF Once
      <3> QED  BY <1>1, <1>2, <3>1
    <2> QED  BY <1>2, <1>3, <1>4, <1>5, <2>1, <2>2
  <1> QED  BY <1>5 DEF NoDoubleItem, both

\* Sets of users, as they are counted.
LEMMA CountUsers ==
    ASSUME NEW S \in SUBSET Users
    PROVE  /\ Cardinality(S) \in 0 .. user_count
           /\ S # {} <=> Cardinality(S) > 0
           /\ \A u \in Users \ S : Cardinality(S \cup {u}) = Cardinality(S) + 1
           /\ \A u \in S : Cardinality(S \ {u}) = Cardinality(S) - 1
  <1>1. IsFiniteSet(Users) /\ IsFiniteSet(S) /\ Cardinality(S) <= user_count
    BY SyncQueueAssumption, FS_Subset DEF user_count
  <1>2. Cardinality(S) \in Nat /\ user_count \in Nat
    BY <1>1, FS_CardinalityType DEF user_count
  <1>3. S # {} <=> Cardinality(S) > 0
    <2>1. Cardinality(S) = 0 <=> S = {}
      BY <1>1, FS_EmptySet
    <2> QED  BY <1>2, <2>1
  <1>4. \A u \in Users \ S : Cardinality(S \cup {u}) = Cardinality(S) + 1
    BY <1>1, FS_AddElement
  <1>5. \A u \in S : Cardinality(S \ {u}) = Cardinality(S) - 1
    BY <1>1, FS_RemoveElement
  <1> QED  BY <1>1, <1>2, <1>3, <1>4, <1>5

-----------------------------------------------------------------------------
LEMMA TypeInit == SyncInit => TypeInv
  <1> SUFFICES ASSUME SyncInit  PROVE TypeInv
    OBVIOUS
  <1>1. user_count \in Nat /\ 0 \in 0 .. user_count
    <2>1. user_count \in Nat
      BY SyncQueueAssumption, FS_CardinalityType DEF user_count
    <2> QED  BY <2>1
  <1>2. unused \in Seq(Items) /\ inused \in Seq(Items)
    BY AllItems DEF SyncInit
  <1>3. SyncTypeOK
    BY <1>1, <1>2 DEF SyncInit, SyncTypeOK, Flags
  <1> QED  BY <1>3 DEF SyncInit, TypeInv, Filling

\* Every step keeps the types, whatever stops or times out.
LEMMA TypeNext ==
    ASSUME TypeInv, [SyncNext]_svars
    PROVE  TypeInv'
  <1> USE DEF TypeInv
  <1>0. user_count' = user_count /\ user_count \in Nat
    BY SyncQueueAssumption, FS_CardinalityType DEF user_count
  <1>1. CASE ProducerLoop \/ ProducerGetTimesOut \/ ProducerFill \/ ProducerSaveFails
    BY <1>0, <1>1 DEF ProducerLoop, ProducerGetTimesOut, ProducerFill, ProducerSaveFails,
       SyncTypeOK, fields, Filling
  <1>2. CASE ProducerGet
    <2>1. Head(unused) \in Items /\ Tail(unused) \in Seq(Items)
      BY <1>2 DEF ProducerGet, SyncTypeOK
    <2> QED  BY <1>0, <1>2, <2>1 DEF ProducerGet, SyncTypeOK, fields, Filling
  <1>3. CASE ProducerInit
    <2>1. user_count \in 0 .. user_count /\ user_count \in Int
      BY <1>0
    <2>2. ref_repay' \in [Items -> Int] /\ ref_obtain' \in [Items -> 0 .. user_count]
      BY <1>3, <2>1 DEF ProducerInit, SyncTypeOK
    <2> QED  BY <1>0, <1>3, <2>2 DEF ProducerInit, SyncTypeOK, Filling
  <1>4. CASE ProducerSave
    <2>1. pitem \in Items /\ inused' \in Seq(Items)
      BY <1>4 DEF ProducerSave, SyncTypeOK, Filling
    <2>2. user_recoder' \in [Items -> SUBSET Users]
      BY <1>4 DEF ProducerSave, SyncTypeOK
    <2> QED  BY <1>0, <1>4, <2>1, <2>2 DEF ProducerSave, SyncTypeOK, Filling
  <1>5. ASSUME NEW u \in Users, \/ UserLoop(u) \/ UserTimesOut(u) \/ UserStopped(u)
                                \/ UserRepayFails(u) \/ UserGivesUp(u) \/ UserAfterFree(u)
        PROVE  TypeInv'
    <2>1. /\ UNCHANGED <<unused, inused, fields, ppc, pitem, uitem, stopped>>
          /\ status' \in {status, FlagOf(u)}
          /\ is_running' \in {is_running, [is_running EXCEPT !["main"] = FALSE]}
          /\ \E x \in {"obtain", "use", "left", "exit", "crash"} :
               upc' = [upc EXCEPT ![u] = x] /\ (x = "use" => uitem[u] # NoItem)
      BY <1>5 DEF UserLoop, UserTimesOut, UserStopped, UserRepayFails, UserGivesUp, UserAfterFree,
         UserExit, fields, SyncTypeOK
    <2>2. FlagOf(u) \in Flags
      BY DEF FlagOf, Flags
    <2>3. /\ upc' \in [Users -> {"loop", "obtain", "use", "left", "exit", "crash"}]
          /\ \A v \in Users \ {u} : upc'[v] = upc[v]
      BY <2>1 DEF SyncTypeOK
    <2>4. is_running' \in [Flags -> BOOLEAN] /\ status' \in Flags
      BY <2>1, <2>2 DEF SyncTypeOK
    <2>5. \A v \in Users : upc'[v] = "use" => uitem'[v] \in Items
      BY <2>1, <2>3 DEF SyncTypeOK
    <2> QED  BY <1>0, <2>1, <2>3, <2>4, <2>5 DEF SyncTypeOK, fields, Filling
  <1>6. ASSUME NEW u \in Users, UserObtain(u)  PROVE TypeInv'
    <2> DEFINE i == Head(inused)
    <2>1. i \in Items /\ Tail(inused) \in Seq(Items)
      BY <1>6 DEF UserObtain, SyncTypeOK
    <2> HIDE DEF i
    <2>2. /\ ref_obtain[i] > 0
          /\ user_recoder' = [user_recoder EXCEPT ![i] = @ \ {u}]
          /\ ref_obtain' = [ref_obtain EXCEPT ![i] = @ - 1]
          /\ inused' \in {Tail(inused), inused}
          /\ uitem' = [uitem EXCEPT ![u] = i]
          /\ upc' = [upc EXCEPT ![u] = "use"]
          /\ UNCHANGED <<unused, ref_repay, status, is_running, ppc, pitem, stopped>>
      BY <1>6 DEF UserObtain, i
    <2>3. ref_obtain[i] \in 0 .. user_count /\ ref_obtain[i] - 1 \in 0 .. user_count
      BY <1>0, <2>1, <2>2 DEF SyncTypeOK
    <2>4. ref_obtain' \in [Items -> 0 .. user_count]
      BY <2>2, <2>3 DEF SyncTypeOK
    <2>5. inused' \in Seq(Items) /\ user_recoder' \in [Items -> SUBSET Users]
      BY <2>1, <2>2 DEF SyncTypeOK
    <2> QED  BY <1>0, <2>1, <2>2, <2>4, <2>5 DEF SyncTypeOK, Filling
  <1>7. ASSUME NEW u \in Users, UserRepeat(u)  PROVE TypeInv'
    <2>1. Head(inused) \in Items
      BY <1>7 DEF UserRepeat, SyncTypeOK
    <2> QED  BY <1>0, <1>7, <2>1 DEF UserRepeat, SyncTypeOK, fields, Filling
  <1>8. ASSUME NEW u \in Users, UserRepay(u)  PROVE TypeInv'
    <2> DEFINE i == uitem[u]
    <2>1. i \in Items
      BY <1>8 DEF UserRepay
    <2> HIDE DEF i
    <2>2. /\ ref_repay' = [ref_repay EXCEPT ![i] = @ - 1]
          /\ unused' \in {Append(unused, i), unused}
          /\ upc' = [upc EXCEPT ![u] = "loop"]
          /\ UNCHANGED <<inused, ref_obtain, user_recoder, status, is_running, ppc, pitem,
                         uitem, stopped>>
      BY <1>8 DEF UserRepay, i
    <2>3. ref_repay' \in [Items -> Int]
      BY <2>1, <2>2 DEF SyncTypeOK
    <2>4. unused' \in Seq(Items)
      <3>1. unused \in Seq(Items)
        BY DEF SyncTypeOK
      <3> QED  BY <2>1, <2>2, <3>1
    <2> QED  BY <1>0, <2>2, <2>3, <2>4 DEF SyncTypeOK, Filling
  <1>9. CASE Stop \/ StopCodecs \/ Destroy
    <2>1. /\ is_running' \in [Flags -> BOOLEAN]
          /\ stopped' \in {"no", "joinMain", "joinCodecs", "destroyed"}
          /\ UNCHANGED <<fields, status, ppc, pitem, upc, uitem>>
      BY <1>9 DEF Stop, StopCodecs, Destroy, SyncTypeOK
    <2>2. unused' \in Seq(Items) /\ inused' \in Seq(Items)
      <3>1. /\ unused \in Seq(Items) /\ inused \in Seq(Items) /\ << >> \in Seq(Items)
        BY DEF SyncTypeOK
      <3>2. unused' \in {unused, << >>} /\ inused' \in {inused, << >>}
        BY <1>9 DEF Stop, StopCodecs, Destroy
      <3> QED  BY <3>1, <3>2
    <2> QED  BY <1>0, <2>1, <2>2 DEF SyncTypeOK, fields, Filling
  <1>10. CASE UNCHANGED svars
    BY <1>0, <1>10 DEF svars, SyncTypeOK, fields, Filling
  <1> QED
    BY <1>1, <1>2, <1>3, <1>4, <1>5, <1>6, <1>7, <1>8, <1>9, <1>10
    DEF SyncNext, Producer, User, Stopping

\* The types hold whatever stops or times out: nobody fills, reads or repays
\* what is no item.
THEOREM SyncTypeCorrect == SyncSpec => []TypeInv
  BY TypeInit, TypeNext, PTL DEF SyncSpec

\* A step that ends nobody's work keeps the flags in order.
LEMMA FlagNext ==
    ASSUME TypeInv, FlagInv, [SyncNext]_svars, ~ MayTimeOut, ~ Destroy,
           MainUp => \A u \in Users : ~ UserRepayFails(u)
    PROVE  FlagInv' /\ (MainUp' => MainUp)
  <1> USE DEF TypeInv
  <1>1. CASE Producer
    BY <1>1 DEF Producer, ProducerLoop, ProducerGet, ProducerGetTimesOut, ProducerFill,
       ProducerInit, ProducerSave, ProducerSaveFails, FlagInv, MainUp, SyncTypeOK, Flags
  <1>2. ASSUME NEW u \in Users, User(u)  PROVE FlagInv' /\ (MainUp' => MainUp)
    <2>1. UNCHANGED <<ppc, stopped>>
      BY <1>2 DEF User, UserLoop, UserObtain, UserRepeat, UserTimesOut, UserStopped, UserRepay,
         UserRepayFails, UserGivesUp, UserAfterFree
    <2>2. is_running' \in {is_running, [is_running EXCEPT !["main"] = FALSE]}
      BY <1>2 DEF User, UserLoop, UserObtain, UserRepeat, UserTimesOut, UserStopped, UserRepay,
         UserRepayFails, UserGivesUp, UserAfterFree, UserExit
    <2>3. MainUp' => MainUp /\ is_running' = is_running
      BY <2>2 DEF MainUp, SyncTypeOK, Flags
    <2>4. ASSUME MainUp'  PROVE \A v \in Users : upc'[v] \notin {"left", "exit", "crash"}
      <3>1. /\ MainUp /\ stopped # "destroyed" /\ ppc # "exit"
            /\ is_running[status] /\ is_running[FlagOf(u)]
            /\ \A v \in Users : upc[v] \notin {"left", "exit", "crash"}
        BY <2>3, <2>4 DEF FlagInv, SyncTypeOK, FlagOf, Flags
      <3>2. ~ UserGivesUp(u)
        BY <2>4 DEF UserGivesUp, MainUp, SyncTypeOK, Flags
      <3>3. UserLoop(u) \/ UserObtain(u) \/ UserRepeat(u) \/ UserRepay(u)
        BY <1>2, <3>1, <3>2 DEF User, UserTimesOut, UserStopped
      <3>4. upc' \in {[upc EXCEPT ![u] = x] : x \in {"loop", "obtain", "use"}}
        BY <3>1, <3>3 DEF UserLoop, UserObtain, UserRepeat, UserRepay
      <3> QED  BY <3>1, <3>4 DEF SyncTypeOK
    <2> QED  BY <2>1, <2>3, <2>4 DEF FlagInv
  <1>3. CASE Stop \/ StopCodecs
    <2>1. ~ MainUp' /\ stopped' # "destroyed" /\ (stopped' = "joinCodecs" => ppc' = "exit")
      BY <1>3 DEF Stop, StopCodecs, MainUp, SyncTypeOK, Flags
    <2> QED  BY <2>1 DEF FlagInv
  <1>4. CASE UNCHANGED svars
    BY <1>4 DEF svars, FlagInv, MainUp
  <1> QED  BY <1>1, <1>2, <1>3, <1>4 DEF SyncNext, Stopping

LEMMA SyncInitInv == SyncInit => SyncInv
  <1> SUFFICES ASSUME SyncInit  PROVE SyncInv
    OBVIOUS
  <1>1. /\ unused \in Seq(Items) /\ Once(unused) /\ \A i \in Items : Has(unused, i)
        /\ inused = << >>
    BY AllItems DEF SyncInit
  <1>2. \A i : UsersOf(i) = {}
    BY DEF SyncInit, UsersOf
  <1>3. Once(inused) /\ \A i \in Items : ~ Has(inused, i)
    BY <1>1 DEF Once, Has
  <1>4. FlagInv /\ MainUp
    BY DEF SyncInit, FlagInv, MainUp, Flags
  <1>5. PlaceInv(NoItem)
    BY <1>1, <1>2, <1>3, SyncQueueAssumption DEF PlaceInv, SyncInit, Filling
  <1>6. CountInv(NoItem)
    BY <1>1, <1>2, <1>3, SyncQueueAssumption DEF CountInv, SyncInit
  <1> QED  BY <1>4, <1>5, <1>6, TypeInit DEF SyncInv, CoreInv

-----------------------------------------------------------------------------
(***************************************************************************)
(* What each step does to places and counts, whichever item is loose.  The *)
(* first lemma is about the steps that leave queues, counts and items in   *)
(* hand as they are.                                                       *)
(***************************************************************************)
QuietStep ==
    /\ UNCHANGED <<unused, inused, fields>>
    /\ \/ UNCHANGED <<ppc, pitem>>
       \/ ppc = "loop" /\ ppc' = "get"
       \/ ppc \in {"loop", "fill", "save"} /\ ppc' = "exit"
       \/ ppc = "fill" /\ ppc' = "init" /\ pitem' = pitem
    /\ \A u \in Users : /\ upc'[u] = "use" <=> upc[u] = "use"
                        /\ upc[u] = "use" => uitem'[u] = uitem[u]

LEMMA QuietKeeps ==
    ASSUME NEW loose, PlaceInv(loose), CountInv(loose), QuietStep
    PROVE  /\ PlaceInv(loose)' /\ CountInv(loose)'
           /\ \A i : UsersOf(i)' = UsersOf(i)
  <1>1. ASSUME NEW i  PROVE UsersOf(i)' = UsersOf(i)
    BY DEF QuietStep, UsersOf
  <1>2. UNCHANGED <<unused, inused, ref_repay, ref_obtain, user_recoder>>
    BY DEF QuietStep, fields
  <1>3. /\ Filling' => Filling /\ pitem' = pitem
        /\ ppc' # "exit" => ppc # "exit" /\ (Filling => Filling' /\ pitem' = pitem)
        /\ ppc' = "save" => ppc = "save"
    BY DEF QuietStep, Filling
  <1>4. PlaceInv(loose)'
    BY <1>1, <1>2, <1>3 DEF PlaceInv, UsersOf
  <1>5. \A i : Exact(i)' <=> Exact(i)
    BY <1>1, <1>2 DEF Exact
  <1>6. CountInv(loose)'
    BY <1>1, <1>2, <1>3, <1>5 DEF CountInv, Filling
  <1> QED  BY <1>1, <1>4, <1>6

LEMMA GetKeeps ==
    ASSUME NEW loose, TypeInv, PlaceInv(loose), CountInv(loose), ProducerGet,
           Head(unused) # loose
    PROVE  PlaceInv(loose)' /\ CountInv(loose)'
  <1>1. /\ unused \in Seq(Items) /\ unused # << >> /\ Once(unused)
        /\ unused' = Tail(unused) /\ pitem' = Head(unused) /\ ~ Filling /\ Filling'
        /\ UNCHANGED <<inused, fields>>
    BY DEF ProducerGet, TypeInv, SyncTypeOK, PlaceInv, Filling
  <1>2. /\ Once(unused') /\ pitem' \in Items /\ Has(unused, pitem')
        /\ \A i : Has(unused', i) <=> Has(unused, i) /\ i # pitem'
    BY <1>1, TailItems
  <1>3. \A i : UsersOf(i)' = UsersOf(i)
    BY DEF ProducerGet, UsersOf
  <1>4. UsersOf(pitem)' = {}
    <2>1. UsersOf(pitem)' = {u \in Users : upc[u] = "use" /\ uitem[u] = pitem'}
      BY DEF ProducerGet, UsersOf
    <2>2. \A i \in Items \ {loose} :
            Has(unused, i) => {u \in Users : upc[u] = "use" /\ uitem[u] = i} = {}
      BY DEF PlaceInv, UsersOf
    <2> QED  BY <1>1, <1>2, <2>1, <2>2
  <1>5. PlaceInv(loose)'
    <2>1. Has(unused, pitem') /\ ~ Has(inused, pitem') /\ ~ Has(unused', pitem')
      BY <1>2 DEF PlaceInv
    <2>2. ppc # "exit"
      BY DEF ProducerGet
    <2> QED  BY <1>1, <1>2, <1>3, <1>4, <2>1, <2>2 DEF PlaceInv
  <1>6. CountInv(loose)'
    <2>1. ppc' # "save" /\ UNCHANGED <<ref_repay, ref_obtain, user_recoder>>
      BY <1>1 DEF ProducerGet, fields
    <2>2. \A i : Exact(i)' <=> Exact(i)
      BY <1>3, <2>1 DEF Exact
    <2>3. loose \in Items => (Has(unused', loose) <=> Has(unused, loose))
      BY <1>1, <1>2
    <2> QED  BY <1>1, <1>2, <1>3, <2>1, <2>2, <2>3 DEF CountInv
  <1> QED  BY <1>5, <1>6

LEMMA InitKeeps ==
    ASSUME NEW loose, TypeInv, PlaceInv(loose), CountInv(loose), ProducerInit
    PROVE  PlaceInv(loose)' /\ CountInv(loose)'
  <1>1. /\ pitem \in Items /\ ~ Has(inused, pitem) /\ ~ Has(unused, pitem)
        /\ UsersOf(pitem) = {} /\ pitem # loose
        /\ Filling /\ Filling' /\ ppc # "exit"
        /\ UNCHANGED <<unused, inused, user_recoder, pitem, upc, uitem>>
    BY DEF ProducerInit, TypeInv, PlaceInv, Filling
  <1>2. \A i : UsersOf(i)' = UsersOf(i)
    BY DEF ProducerInit, UsersOf
  <1>3. /\ \A i \in Items \ {pitem} : ref_repay'[i] = ref_repay[i] /\ ref_obtain'[i] = ref_obtain[i]
        /\ ref_obtain'[pitem] = user_count /\ ref_repay'[pitem] = user_count
    BY <1>1 DEF ProducerInit, TypeInv, SyncTypeOK
  <1>4. PlaceInv(loose)'
    BY <1>1, <1>2 DEF PlaceInv, UsersOf
  <1>5. CountInv(loose)'
    <2>1. \A i \in Items : Has(inused, i) => Exact(i)'
      BY <1>1, <1>2, <1>3 DEF CountInv, Exact
    <2>2. user_count' = user_count
      BY DEF user_count
    <2> QED  BY <1>1, <1>2, <1>3, <2>1, <2>2 DEF CountInv
  <1> QED  BY <1>4, <1>5

LEMMA SaveKeeps ==
    ASSUME NEW loose, TypeInv, PlaceInv(loose), CountInv(loose), ProducerSave
    PROVE  /\ PlaceInv(loose)' /\ CountInv(loose)'
           /\ Head(inused') = IF inused = << >> THEN pitem ELSE Head(inused)
           /\ user_recoder'[Head(inused')] =
                IF inused = << >> THEN Users ELSE user_recoder[Head(inused)]
  <1>1. /\ pitem \in Items /\ ~ Has(inused, pitem) /\ ~ Has(unused, pitem)
        /\ UsersOf(pitem) = {} /\ pitem # loose /\ Filling /\ ~ Filling' /\ ppc' = "loop"
        /\ inused \in Seq(Items) /\ Once(inused) /\ inused' = Append(inused, pitem)
        /\ UNCHANGED <<unused, ref_repay, ref_obtain, pitem, upc, uitem>> /\ ppc = "save"
    BY DEF ProducerSave, TypeInv, SyncTypeOK, PlaceInv, Filling
  <1>2. /\ Once(inused')
        /\ \A i : Has(inused', i) <=> Has(inused, i) \/ i = pitem
        /\ \A k \in 2 .. Len(inused') :
             (k \in 2 .. Len(inused) /\ inused'[k] = inused[k]) \/ inused'[k] = pitem
    BY <1>1, AppendItems
  <1>3. \A i : UsersOf(i)' = UsersOf(i)
    BY DEF ProducerSave, UsersOf
  <1>4. /\ user_recoder'[pitem] = Users
        /\ \A i \in Items \ {pitem} : user_recoder'[i] = user_recoder[i]
    BY <1>1 DEF ProducerSave, TypeInv, SyncTypeOK
  <1>5. PlaceInv(loose)'
    BY <1>1, <1>2, <1>3 DEF PlaceInv
  <1>6. CountInv(loose)'
    <2>1. Exact(pitem)'
      <3>1. ref_obtain[pitem] = user_count /\ ref_repay[pitem] = user_count
        BY <1>1 DEF CountInv
      <3>2. user_count = Cardinality(Users) /\ user_count > 0 /\ user_count \in Nat
        BY SyncQueueAssumption, CountUsers, FS_CardinalityType DEF user_count
      <3>3. UsersOf(pitem)' = {}
        BY <1>1 DEF UsersOf
      <3>4. Cardinality({}) = 0
        BY FS_EmptySet
      <3> QED  BY <1>1, <1>4, <3>1, <3>2, <3>3, <3>4 DEF Exact
    <2>2. ASSUME NEW i \in Items, Has(inused, i)  PROVE Exact(i)'
      <3>1. i # pitem /\ Exact(i)
        BY <1>1, <2>2 DEF CountInv
      <3> QED  BY <1>1, <1>3, <1>4, <3>1 DEF Exact
    <2>3. ASSUME NEW i \in Items, Has(inused', i)  PROVE Exact(i)'
      <3>1. CASE i = pitem
        BY <1>1, <2>1, <3>1 DEF Exact, UsersOf
      <3>2. CASE i # pitem
        BY <1>2, <2>2, <2>3, <3>2
      <3> QED  BY <3>1, <3>2
    <2>4. ASSUME NEW k \in 2 .. Len(inused')  PROVE user_recoder'[inused'[k]] = Users
      <3>1. CASE inused'[k] = pitem
        BY <1>4, <3>1
      <3>2. CASE k \in 2 .. Len(inused) /\ inused'[k] = inused[k]
        <4>1. inused[k] # pitem /\ inused[k] \in Items
          BY <1>1, <3>2 DEF Has
        <4> QED  BY <1>4, <3>2, <4>1 DEF CountInv
      <3> QED  BY <1>2, <2>4, <3>1, <3>2
    <2>5. ASSUME NEW i \in Items \ {loose}, ~ Has(inused', i), UsersOf(i)' # {}
          PROVE  ref_repay'[i] = Cardinality(UsersOf(i)')
      BY <1>1, <1>2, <1>3, <2>5 DEF CountInv
    <2> QED  BY <1>1, <1>3, <2>3, <2>4, <2>5 DEF CountInv
  <1>7. inused # << >> => /\ Head(inused') = Head(inused) /\ Head(inused) \in Items
                          /\ Has(inused, Head(inused))
    BY <1>1, TailItems
  <1>8. inused = << >> => Head(inused') = pitem
    BY <1>1
  <1> QED  BY <1>1, <1>4, <1>5, <1>6, <1>7, <1>8

LEMMA ObtainKeeps ==
    ASSUME NEW loose, TypeInv, PlaceInv(loose), CountInv(loose), NEW u \in Users, UserObtain(u),
           NEW i, i = Head(inused)
    PROVE  /\ PlaceInv(loose)' /\ CountInv(loose)'
           /\ UsersOf(i)' = UsersOf(i) \cup {u}
           /\ i \in Items /\ i # loose /\ Has(inused, i) /\ ~ Has(unused, i)
           /\ Filling => pitem # i
           /\ user_recoder'[i] = user_recoder[i] \ {u} /\ user_recoder[i] \in SUBSET Users
           /\ \/ user_recoder[i] = {u} /\ inused' = Tail(inused)
              \/ inused' = inused
  <1> USE DEF TypeInv
  <1>0. inused \in Seq(Items) /\ inused # << >> /\ Once(inused)
    BY DEF UserObtain, SyncTypeOK, PlaceInv
  <1>1. i = Head(inused) /\ i \in Items
    BY <1>0, TailItems
  <1>2. /\ u \in user_recoder[i] /\ ref_obtain[i] > 0
        /\ upc[u] = "obtain" /\ upc' = [upc EXCEPT ![u] = "use"]
        /\ uitem' = [uitem EXCEPT ![u] = i]
        /\ user_recoder' = [user_recoder EXCEPT ![i] = @ \ {u}]
        /\ ref_obtain' = [ref_obtain EXCEPT ![i] = @ - 1]
        /\ inused' = IF ref_obtain[i] = 1 THEN Tail(inused) ELSE inused
        /\ UNCHANGED <<unused, ref_repay, status, is_running, ppc, pitem, stopped>>
    BY <1>1 DEF UserObtain
  <1>3. /\ i = inused[1] /\ Has(inused, i)
        /\ Tail(inused) \in Seq(Items) /\ Once(Tail(inused))
        /\ \A j : Has(Tail(inused), j) <=> Has(inused, j) /\ j # i
        /\ \A k \in 1 .. Len(Tail(inused)) :
             k + 1 \in 2 .. Len(inused) /\ Tail(inused)[k] = inused[k + 1]
    BY <1>0, <1>1, TailItems
  <1>4. /\ ref_obtain[i] = Cardinality(user_recoder[i])
        /\ ref_repay[i] = ref_obtain[i] + Cardinality(UsersOf(i))
        /\ UsersOf(i) \cap user_recoder[i] = {}
        /\ UsersOf(i) \in SUBSET Users /\ user_recoder[i] \in SUBSET Users
    BY <1>1, <1>3 DEF CountInv, Exact, UsersOf, SyncTypeOK
  <1>5. /\ UsersOf(i)' = UsersOf(i) \cup {u} /\ u \notin UsersOf(i)
        /\ \A j \in Items \ {i} : UsersOf(j)' = UsersOf(j)
    BY <1>2 DEF UsersOf, SyncTypeOK
  <1>6. /\ user_recoder'[i] = user_recoder[i] \ {u}
        /\ ref_obtain'[i] = ref_obtain[i] - 1
        /\ \A j \in Items \ {i} :
             user_recoder'[j] = user_recoder[j] /\ ref_obtain'[j] = ref_obtain[j]
    BY <1>1, <1>2 DEF SyncTypeOK
  <1>7. /\ Cardinality(user_recoder'[i]) = ref_obtain[i] - 1
        /\ Cardinality(UsersOf(i)') = Cardinality(UsersOf(i)) + 1
        /\ ref_obtain[i] - 1 \in 0 .. user_count /\ ref_obtain[i] \in Nat
        /\ Cardinality(UsersOf(i)) \in Nat /\ user_count \in Nat
    <2>1. /\ Cardinality(user_recoder[i] \ {u}) = Cardinality(user_recoder[i]) - 1
          /\ Cardinality(user_recoder[i]) \in 0 .. user_count
      BY <1>2, <1>4, CountUsers
    <2>2. /\ Cardinality(UsersOf(i) \cup {u}) = Cardinality(UsersOf(i)) + 1
          /\ Cardinality(UsersOf(i)) \in 0 .. user_count
      BY <1>4, <1>5, CountUsers
    <2>3. user_count \in Nat
      BY SyncQueueAssumption, FS_CardinalityType DEF user_count
    <2>4. Cardinality(user_recoder'[i]) = Cardinality(user_recoder[i]) - 1
      BY <1>6, <2>1
    <2>5. Cardinality(UsersOf(i)') = Cardinality(UsersOf(i)) + 1
      BY <1>5, <2>2
    <2>6. ref_obtain[i] \in 0 .. user_count /\ ref_obtain[i] > 0
      BY <1>2, <1>4, <2>1
    <2>7. ref_obtain[i] - 1 \in 0 .. user_count /\ ref_obtain[i] \in Nat
      BY <2>3, <2>6
    <2>8. Cardinality(UsersOf(i)) \in Nat
      BY <2>2, <2>3
    <2> QED  BY <1>4, <2>3, <2>4, <2>5, <2>7, <2>8
  <1>8. \/ ref_obtain[i] = 1 /\ inused' = Tail(inused)
        \/ ref_obtain[i] > 1 /\ inused' = inused
    BY <1>2, <1>7
  <1>9. i # loose /\ ~ Has(unused, i)
    BY <1>1, <1>3 DEF PlaceInv
  <1>10. \A j \in Items : Has(inused', j) <=> Has(inused, j) /\ (j # i \/ inused' = inused)
    BY <1>3, <1>8
  <1>11. Filling => pitem \in Items /\ pitem # i
    BY <1>3 DEF PlaceInv
  <1>12. PlaceInv(loose)'
    <2>1. Once(inused') /\ \A j : Has(inused', j) => Has(inused, j)
      BY <1>0, <1>3, <1>8
    <2>2. \A j \in Items : Has(inused, j) => Has(inused', j) \/ UsersOf(j)' # {}
      BY <1>3, <1>5, <1>8
    <2>3. \A j \in Items \ {loose} : Has(unused, j) => UsersOf(j)' = {}
      BY <1>5, <1>9 DEF PlaceInv
    <2>5. Filling => UsersOf(pitem)' = {}
      BY <1>2, <1>11 DEF PlaceInv, UsersOf, SyncTypeOK
    <2>6. \A j \in Items : UsersOf(j) # {} => UsersOf(j)' # {}
      BY <1>5
    <2> QED  BY <1>2, <2>1, <2>2, <2>3, <2>5, <2>6 DEF PlaceInv, Filling
  <1>13. CountInv(loose)'
    <2>1. ASSUME NEW j \in Items, Has(inused', j)  PROVE Exact(j)'
      <3>1. CASE j = i
        <4>1. ref_obtain[i] > 1
          BY <1>3, <1>8, <2>1, <3>1
        <4>2. UsersOf(i)' \cap user_recoder'[i] = {}
          BY <1>4, <1>5, <1>6
        <4>3. Exact(i)'
          BY <1>2, <1>4, <1>6, <1>7, <4>1, <4>2 DEF Exact
        <4> QED  BY <3>1, <4>3
      <3>2. CASE j # i
        <4>1. Exact(j)
          BY <1>3, <1>8, <2>1 DEF CountInv
        <4> QED  BY <1>2, <1>5, <1>6, <3>2, <4>1 DEF Exact
      <3> QED  BY <3>1, <3>2
    <2>2. \A k \in 2 .. Len(inused) : inused[k] \in Items \ {i} /\ user_recoder[inused[k]] = Users
      BY <1>0, <1>3 DEF Once, CountInv
    <2>3. ASSUME NEW k \in 2 .. Len(inused')  PROVE user_recoder'[inused'[k]] = Users
      <3>1. CASE inused' = inused
        BY <1>6, <2>2, <2>3, <3>1
      <3>2. CASE inused' = Tail(inused)
        <4>1. Len(Tail(inused)) \in Nat
          BY <1>3
        <4>2. k \in 1 .. Len(Tail(inused))
          BY <2>3, <3>2, <4>1
        <4> QED  BY <1>3, <1>6, <2>2, <3>2, <4>2
      <3> QED  BY <1>8, <3>1, <3>2
    <2>4. ASSUME NEW j \in Items \ {loose}, ~ Has(inused', j), UsersOf(j)' # {}
          PROVE  ref_repay'[j] = Cardinality(UsersOf(j)')
      <3>1. CASE j = i
        BY <1>2, <1>3, <1>4, <1>7, <1>8, <2>4, <3>1
      <3>2. CASE j # i
        BY <1>2, <1>3, <1>5, <1>8, <2>4, <3>2 DEF CountInv
      <3> QED  BY <3>1, <3>2
    <2>5. ppc' = "save" => ref_obtain'[pitem'] = user_count /\ ref_repay'[pitem'] = user_count
      BY <1>2, <1>6, <1>11 DEF CountInv, Filling
    <2>6. loose \in Items => UsersOf(loose)' = UsersOf(loose)
      BY <1>5, <1>9
    <2> QED  BY <1>2, <2>1, <2>3, <2>4, <2>5, <2>6 DEF CountInv, user_count
  <1>14. ref_obtain[i] = 1 => user_recoder[i] = {u}
    <2>1. ASSUME ref_obtain[i] = 1  PROVE user_recoder[i] \ {u} = {}
      <3>1. user_recoder[i] \ {u} \in SUBSET Users /\ Cardinality(user_recoder[i] \ {u}) = 0
        BY <1>4, <1>6, <1>7, <2>1
      <3> QED  BY <3>1, CountUsers
    <2> QED  BY <1>2, <2>1
  <1> QED  BY <1>1, <1>3, <1>4, <1>5, <1>6, <1>8, <1>9, <1>11, <1>12, <1>13, <1>14

\* What the repayment of i does to ununsed_queue.
PutBack(i, loose) ==
    /\ ref_repay[i] = 1 /\ unused' = Append(unused, i)
    /\ ~ Has(inused, i) /\ ~ Has(unused, i)
    /\ i # loose => UsersOf(i)' = {}

KeptBack(i, loose) ==
    /\ unused' = unused
    /\ ref_repay[i] # 1
    /\ Has(inused, i) \/ UsersOf(i)' # {} \/ (i = loose /\ Has(unused, i))

\* The last user of an item puts it back, and no other; a loose item may be
\* back already.
LEMMA RepayCounts ==
    ASSUME NEW loose, TypeInv, PlaceInv(loose), CountInv(loose), NEW u \in Users, UserRepay(u),
           NEW i \in Items, i = uitem[u]
    PROVE  /\ UsersOf(i)' = UsersOf(i) \ {u} /\ u \in UsersOf(i)
           /\ \A j \in Items \ {i} : UsersOf(j)' = UsersOf(j)
           /\ Cardinality(UsersOf(i)') = Cardinality(UsersOf(i)) - 1
           /\ Cardinality(UsersOf(i)') > 0 <=> UsersOf(i)' # {}
           /\ Cardinality(UsersOf(i)) \in Nat /\ Cardinality(UsersOf(i)') \in Nat
           /\ PutBack(i, loose) \/ KeptBack(i, loose)
  <1> USE DEF TypeInv, PutBack, KeptBack
  <1>1. /\ upc[u] = "use" /\ uitem[u] = i
        /\ upc' = [upc EXCEPT ![u] = "loop"]
        /\ unused' = IF ref_repay[i] = 1 THEN Append(unused, i) ELSE unused
        /\ uitem' = uitem
    BY DEF UserRepay
  <1>2. u \in UsersOf(i) /\ UsersOf(i) \in SUBSET Users
    BY <1>1 DEF UsersOf
  <1>3. /\ UsersOf(i)' = UsersOf(i) \ {u}
        /\ \A j \in Items \ {i} : UsersOf(j)' = UsersOf(j)
    BY <1>1 DEF UsersOf, SyncTypeOK
  <1>4. /\ Cardinality(UsersOf(i)') = Cardinality(UsersOf(i)) - 1
        /\ Cardinality(UsersOf(i)') > 0 <=> UsersOf(i)' # {}
        /\ Cardinality(UsersOf(i)) \in Nat /\ Cardinality(UsersOf(i)') \in Nat
    <2>1. user_count \in Nat
      BY SyncQueueAssumption, FS_CardinalityType DEF user_count
    <2>2. /\ Cardinality(UsersOf(i) \ {u}) = Cardinality(UsersOf(i)) - 1
          /\ Cardinality(UsersOf(i)) \in 0 .. user_count
      BY <1>2, CountUsers
    <2>3. /\ Cardinality(UsersOf(i) \ {u}) > 0 <=> UsersOf(i) \ {u} # {}
          /\ Cardinality(UsersOf(i) \ {u}) \in 0 .. user_count
      <3>1. UsersOf(i) \ {u} \in SUBSET Users
        BY <1>2
      <3> QED  BY <3>1, CountUsers
    <2> QED  BY <1>3, <2>1, <2>2, <2>3
  <1>5. ref_repay[i] = 1 => ~ Has(unused, i)
    BY DEF CountInv
  <1>6. CASE i = loose
    <2>1. ~ Has(inused, i)
      BY <1>6 DEF PlaceInv
    <2>2. ASSUME ref_repay[i] # 1  PROVE UsersOf(i)' # {} \/ Has(unused, i)
      <3>1. CASE ~ Has(unused, i)
        <4>1. ref_repay[i] \in 1 .. Cardinality(UsersOf(i))
          BY <1>6, <3>1 DEF CountInv
        <4>2. Cardinality(UsersOf(i)') > 0
          BY <1>4, <2>2, <4>1
        <4> QED  BY <1>4, <4>2
      <3> QED  BY <3>1
    <2> QED  BY <1>1, <1>2, <1>3, <1>4, <1>5, <1>6, <2>1, <2>2
  <1>7. CASE i # loose /\ Has(inused, i)
    <2>1. ref_repay[i] = ref_obtain[i] + Cardinality(UsersOf(i)) /\ ref_obtain[i] > 0
      BY <1>7 DEF CountInv, Exact
    <2>2. ref_obtain[i] \in Nat
      BY SyncQueueAssumption, FS_CardinalityType DEF SyncTypeOK, user_count
    <2>3. Cardinality(UsersOf(i)) >= 1
      BY <1>4
    <2>4. ref_repay[i] # 1
      BY <1>4, <2>1, <2>2, <2>3
    <2> QED  BY <1>1, <1>2, <1>3, <1>4, <1>7, <2>4
  <1>8. CASE i # loose /\ ~ Has(inused, i)
    <2>1. ref_repay[i] = Cardinality(UsersOf(i))
      BY <1>2, <1>8 DEF CountInv
    <2>2. ref_repay[i] = 1 <=> UsersOf(i)' = {}
      BY <1>4, <2>1
    <2> QED  BY <1>1, <1>2, <1>3, <1>4, <1>5, <1>8, <2>2
  <1> QED  BY <1>6, <1>7, <1>8

LEMMA RepayKeeps ==
    ASSUME NEW loose, TypeInv, PlaceInv(loose), CountInv(loose), NEW u \in Users, UserRepay(u),
           NEW i \in Items, i = uitem[u]
    PROVE  PlaceInv(loose)' /\ CountInv(loose)'
  <1>1. /\ UsersOf(i)' = UsersOf(i) \ {u}
        /\ \A j \in Items \ {i} : UsersOf(j)' = UsersOf(j)
        /\ Cardinality(UsersOf(i)') = Cardinality(UsersOf(i)) - 1
        /\ Cardinality(UsersOf(i)') > 0 <=> UsersOf(i)' # {}
        /\ Cardinality(UsersOf(i)) \in Nat /\ Cardinality(UsersOf(i)') \in Nat
        /\ PutBack(i, loose) \/ KeptBack(i, loose)
    BY RepayCounts
  <1> USE DEF TypeInv
  <1>2. /\ upc[u] = "use" /\ uitem[u] = i
        /\ upc' = [upc EXCEPT ![u] = "loop"]
        /\ ref_repay' = [ref_repay EXCEPT ![i] = @ - 1]
        /\ unused' = IF ref_repay[i] = 1 THEN Append(unused, i) ELSE unused
        /\ UNCHANGED <<inused, ref_obtain, user_recoder, status, is_running,
                       ppc, pitem, uitem, stopped>>
    BY DEF UserRepay
  <1>3. u \in UsersOf(i) /\ UsersOf(i) \in SUBSET Users
    BY <1>2 DEF UsersOf
  <1>4. /\ unused \in Seq(Items) /\ Once(unused)
        /\ i # loose => ~ Has(unused, i)
        /\ Filling => pitem \in Items /\ pitem # i
        /\ ppc # "exit" \/ ~ Filling
    BY <1>3 DEF SyncTypeOK, PlaceInv, Filling
  <1>5. ~ Has(unused, i) => /\ Once(Append(unused, i))
                            /\ \A j : Has(Append(unused, i), j) <=> Has(unused, j) \/ j = i
    BY <1>4, AppendItems
  <1>6. /\ UsersOf(i)' = UsersOf(i) \ {u}
        /\ \A j \in Items \ {i} : UsersOf(j)' = UsersOf(j)
    BY <1>1
  <1>7. /\ ref_repay'[i] = ref_repay[i] - 1
        /\ \A j \in Items \ {i} : ref_repay'[j] = ref_repay[j]
    BY <1>2 DEF SyncTypeOK
  <1>8. /\ Cardinality(UsersOf(i)') = Cardinality(UsersOf(i)) - 1
        /\ Cardinality(UsersOf(i)') > 0 <=> UsersOf(i)' # {}
        /\ Cardinality(UsersOf(i)) \in Nat /\ Cardinality(UsersOf(i)') \in Nat
    BY <1>1
  <1>9. \/ /\ ref_repay[i] = 1 /\ unused' = Append(unused, i)
           /\ ~ Has(inused, i) /\ ~ Has(unused, i)
           /\ i # loose => UsersOf(i)' = {}
        \/ /\ unused' = unused
           /\ ref_repay[i] # 1
           /\ Has(inused, i) \/ UsersOf(i)' # {} \/ (i = loose /\ Has(unused, i))
    BY <1>1 DEF PutBack, KeptBack
  <1>10. /\ Once(unused')
         /\ \A j \in Items : Has(unused', j) <=> Has(unused, j) \/ (j = i /\ unused' # unused)
    <2>1. unused' # unused => unused' = Append(unused, i) /\ ~ Has(unused, i)
      BY <1>9
    <2>2. unused' = Append(unused, i) => unused' # unused
      BY <1>4
    <2> QED  BY <1>4, <1>5, <2>1, <2>2
  <1>11. Has(unused', i) \/ Has(inused, i) \/ UsersOf(i)' # {}
    BY <1>5, <1>9
  <1>12. PlaceInv(loose)'
    <2>1. \A j \in Items : Has(unused', j) => ~ Has(inused, j)
      BY <1>9, <1>10 DEF PlaceInv
    <2>2. \A j \in Items \ {loose} : Has(unused', j) => UsersOf(j)' = {}
      BY <1>4, <1>6, <1>9, <1>10 DEF PlaceInv
    <2>3. Filling => ~ Has(unused', pitem) /\ UsersOf(pitem)' = {}
      <3> SUFFICES ASSUME Filling  PROVE ~ Has(unused', pitem) /\ UsersOf(pitem)' = {}
        OBVIOUS
      <3>1. pitem \in Items /\ pitem # i /\ ~ Has(unused, pitem) /\ UsersOf(pitem) = {}
        BY <1>4 DEF PlaceInv
      <3>2. UsersOf(pitem)' = {v \in Users : upc'[v] = "use" /\ uitem[v] = pitem}
        BY <1>2 DEF UsersOf
      <3> QED  BY <1>2, <1>10, <3>1, <3>2 DEF UsersOf, SyncTypeOK
    <2>4. \A j \in Items \ {i} : UsersOf(j) # {} => UsersOf(j)' # {}
      BY <1>6
    <2> QED  BY <1>2, <1>10, <1>11, <2>1, <2>2, <2>3, <2>4 DEF PlaceInv, Filling
  <1>13. CountInv(loose)'
    <2>1. ASSUME NEW j \in Items, Has(inused, j)  PROVE Exact(j)'
      <3>0. Exact(j)
        BY <2>1 DEF CountInv
      <3>1. CASE j = i
        <4>1. ref_repay[i] - 1 = ref_obtain[i] + (Cardinality(UsersOf(i)) - 1)
          <5>1. ref_obtain[i] \in Int /\ ref_repay[i] \in Int
            BY DEF SyncTypeOK
          <5> QED  BY <1>8, <3>0, <3>1, <5>1 DEF Exact
        <4>2. UsersOf(i)' \cap user_recoder[i] = {}
          BY <1>6, <3>0, <3>1 DEF Exact
        <4>3. Exact(i)'
          BY <1>2, <1>7, <1>8, <3>0, <3>1, <4>1, <4>2 DEF Exact
        <4> QED  BY <3>1, <4>3
      <3>2. CASE j # i
        BY <1>2, <1>6, <1>7, <3>0, <3>2 DEF Exact
      <3> QED  BY <3>1, <3>2
    <2>2. ASSUME NEW j \in Items \ {loose}, ~ Has(inused, j), UsersOf(j)' # {}
          PROVE  ref_repay'[j] = Cardinality(UsersOf(j)')
      <3>1. UsersOf(j) # {}
        BY <1>6, <2>2
      <3>2. ref_repay[j] = Cardinality(UsersOf(j))
        BY <2>2, <3>1 DEF CountInv
      <3>3. CASE j = i
        BY <1>7, <1>8, <3>2, <3>3
      <3>4. CASE j # i
        BY <1>6, <1>7, <3>2, <3>4
      <3> QED  BY <3>3, <3>4
    <2>3. ppc' = "save" => ref_obtain'[pitem'] = user_count /\ ref_repay'[pitem'] = user_count
      BY <1>2, <1>4, <1>7 DEF CountInv, Filling
    <2>4. ref_repay[i] \in Int
      BY DEF SyncTypeOK
    <2>5. ASSUME NEW j \in Items, Has(unused', j)  PROVE ref_repay'[j] <= 0
      <3>1. CASE j = i
        <4>1. ref_repay[i] = 1 \/ ref_repay[i] <= 0
          BY <1>9, <1>10, <2>5, <3>1 DEF CountInv
        <4> QED  BY <1>7, <2>4, <3>1, <4>1
      <3>2. CASE j # i
        BY <1>7, <1>10, <2>5, <3>2 DEF CountInv
      <3> QED  BY <3>1, <3>2
    <2>6. ASSUME loose \in Items, ~ Has(unused', loose)
          PROVE  ref_repay'[loose] \in 1 .. Cardinality(UsersOf(loose)')
      <3>1. ref_repay[loose] \in 1 .. Cardinality(UsersOf(loose))
        BY <1>10, <2>6 DEF CountInv
      <3>2. CASE loose = i
        <4>1. ref_repay[i] # 1
          BY <1>5, <1>9, <2>6, <3>2
        <4> QED  BY <1>7, <1>8, <3>1, <3>2, <4>1
      <3>3. CASE loose # i
        BY <1>6, <1>7, <2>6, <3>1, <3>3
      <3> QED  BY <3>2, <3>3
    <2> QED  BY <1>2, <2>1, <2>2, <2>3, <2>5, <2>6 DEF CountInv, user_count
  <1> QED  BY <1>12, <1>13

\* The queue is full only when all items are unused, so that the item that
\* cannot be put back is the loose one.
LEMMA RepayFailsKeeps ==
    ASSUME NEW loose, TypeInv, PlaceInv(loose), CountInv(loose), NEW u \in Users,
           UserRepayFails(u)
    PROVE  /\ PlaceInv(loose)' /\ CountInv(loose)'
           /\ \A i \in Items : Has(unused, i)
           /\ loose \in Items
  <1>1. /\ unused \in Seq(Items) /\ Once(unused) /\ Len(unused) = Cardinality(Items)
        /\ upc[u] = "use" /\ upc' = [upc EXCEPT ![u] = "exit"]
        /\ UNCHANGED <<unused, inused, ref_repay, ref_obtain, user_recoder, ppc, pitem, uitem>>
        /\ uitem[u] \in Items
    BY DEF UserRepayFails, UserExit, TypeInv, SyncTypeOK, PlaceInv, fields
  <1>2. \A i \in Items : Has(unused, i)
    <2> SUFFICES ASSUME NEW i \in Items, ~ Has(unused, i)  PROVE FALSE
      OBVIOUS
    <2>1. Len(unused) < Cardinality(Items)
      BY <1>1, RoomForItem
    <2>2. Cardinality(Items) \in Nat
      BY SyncQueueAssumption, FS_CardinalityType
    <2> QED  BY <1>1, <2>1, <2>2
  <1>3. \A i \in Items : ~ Has(inused, i)
    BY <1>2 DEF PlaceInv
  <1>4. \A i \in Items \ {loose} : UsersOf(i) = {} /\ UsersOf(i)' = {}
    BY <1>1, <1>2 DEF PlaceInv, UsersOf, TypeInv, SyncTypeOK
  <1>5. uitem[u] = loose
    BY <1>1, <1>4 DEF UsersOf
  <1>6. ~ Filling
    BY <1>2 DEF PlaceInv, TypeInv
  <1>7. PlaceInv(loose)'
    BY <1>1, <1>2, <1>4, <1>6 DEF PlaceInv, Filling
  <1>8. CountInv(loose)'
    BY <1>1, <1>2, <1>3, <1>4, <1>6 DEF CountInv, Filling
  <1> QED  BY <1>1, <1>2, <1>5, <1>7, <1>8

-----------------------------------------------------------------------------
\* A producer that finds no unused item never waits in vain.
LEMMA SomeItemIsDue ==
    ASSUME SyncInv, ppc = "get", unused = << >>
    PROVE  ItemIsDue
  <1> USE DEF SyncInv, CoreInv, TypeInv, CoreInv, TypeInv
  <1>1. PICK i \in Items : Has(inused, i) \/ UsersOf(i) # {}
    <2>1. \A i \in Items : ~ Has(unused, i)
      BY DEF Has
    <2> QED  BY SyncQueueAssumption, <2>1 DEF PlaceInv, Filling
  <1>2. CASE UsersOf(i) # {}
    BY <1>2 DEF UsersOf, ItemIsDue
  <1>3. CASE Has(inused, i)
    <2>1. inused # << >> /\ inused \in Seq(Items)
      BY <1>3 DEF Has, SyncTypeOK
    <2>2. Head(inused) \in Items /\ Has(inused, Head(inused))
      BY <2>1, TailItems DEF PlaceInv
    <2>3. Exact(Head(inused)) /\ user_recoder[Head(inused)] \in SUBSET Users
      BY <2>2 DEF CountInv, SyncTypeOK
    <2>4. PICK u \in Users : u \in user_recoder[Head(inused)]
      BY <2>3, CountUsers DEF Exact
    <2>5. upc[u] \in {"loop", "obtain", "use"} /\ is_running[FlagOf(u)]
      BY DEF SyncTypeOK, FlagInv, TypeInv, MainUp, FlagOf, Flags
    <2> QED  BY <2>1, <2>4, <2>5 DEF ItemIsDue
  <1> QED  BY <1>1, <1>2, <1>3

\* What a steady pipeline does: nothing times out, fails or ends.
ProducerFills ==
    /\ ppc = "fill" /\ ppc' = "init"
    /\ UNCHANGED <<unused, inused, fields, status, is_running, pitem, upc, uitem, stopped>>

SteadyNext ==
    \/ ProducerLoop \/ ProducerGet \/ ProducerFills \/ ProducerInit \/ ProducerSave
    \/ \E u \in Users : UserLoop(u) \/ UserObtain(u) \/ UserRepeat(u) \/ UserRepay(u)
    \/ UNCHANGED svars

LEMMA SteadySteps ==
    ASSUME SyncInv, Steady, [SyncNext]_svars
    PROVE  SteadyNext
  <1> USE DEF SyncInv, CoreInv, TypeInv, CoreInv, TypeInv
  <1>1. CASE Producer
    <2>1. ~ ProducerGetTimesOut
      BY SomeItemIsDue DEF Steady, ProducerGetTimesOut
    <2>2. ~ ProducerSaveFails
      <3> SUFFICES ASSUME ProducerSaveFails  PROVE FALSE
        OBVIOUS
      <3>1. inused \in Seq(Items) /\ pitem \in Items /\ Once(inused) /\ ~ Has(inused, pitem)
        BY DEF ProducerSaveFails, SyncTypeOK, FlagInv, TypeInv, MainUp, PlaceInv, Filling
      <3>2. Len(inused) < Cardinality(Items) /\ Len(inused) \in Nat
        BY <3>1, RoomForItem
      <3> QED  BY <3>2, SyncQueueAssumption, FS_CardinalityType DEF ProducerSaveFails
    <2>3. ProducerFill => ProducerFills
      BY DEF ProducerFill, ProducerFills, Steady
    <2> QED  BY <1>1, <2>1, <2>2, <2>3 DEF Producer, SteadyNext
  <1>2. ASSUME NEW u \in Users, User(u)  PROVE SteadyNext
    <2>1. ~ UserTimesOut(u)
      BY DEF UserTimesOut, Steady, FlagInv, TypeInv, MainUp
    <2>2. ~ UserStopped(u)
      BY DEF UserStopped, FlagInv, TypeInv, MainUp, SyncTypeOK
    <2>3. ~ UserRepayFails(u)
      <3>1. UserRepayFails(u) => NoItem \in Items
        BY RepayFailsKeeps
      <3> QED  BY <3>1, SyncQueueAssumption
    <2>4. ~ UserGivesUp(u)
      BY DEF UserGivesUp, Steady
    <2>5. stopped = "no"
      BY DEF FlagInv, TypeInv, MainUp
    <2> QED  BY <1>2, <2>1, <2>2, <2>3, <2>4, <2>5 DEF User, SteadyNext
  <1>3. ~ Stop /\ ~ Stopping
    BY DEF Steady, FlagInv, TypeInv, MainUp, Stop, Stopping, StopCodecs, Destroy
  <1> QED  BY <1>1, <1>2, <1>3 DEF SyncNext, SteadyNext

LEMMA SyncStepInv ==
    ASSUME SyncInv, Steady, [SyncNext]_svars
    PROVE  SyncInv'
  <1> USE DEF SyncInv, CoreInv
  <1>1. SteadyNext
    BY SteadySteps
  <1>2. TypeInv' /\ FlagInv'
    <2>1. ~ Destroy /\ ~ MayTimeOut /\ \A u \in Users : ~ UserRepayFails(u)
      <3>1. \A u \in Users : UserRepayFails(u) => NoItem \in Items
        BY RepayFailsKeeps
      <3> QED  BY <3>1, SyncQueueAssumption DEF Steady, Destroy, FlagInv, MainUp
    <2> QED  BY <2>1, TypeNext, FlagNext
  <1>3. MainUp'
    BY <1>1 DEF MainUp, SteadyNext, ProducerLoop, ProducerGet, ProducerFills, ProducerInit,
       ProducerSave, UserLoop, UserObtain, UserRepeat, UserRepay, UserExit, FlagInv, FlagOf,
       Flags, svars
  <1>4. NoItem \notin Items
    BY SyncQueueAssumption
  <1>5. PlaceInv(NoItem)' /\ CountInv(NoItem)'
    <2>1. CASE ProducerLoop \/ ProducerFills \/ UNCHANGED svars
      <3>1. QuietStep
        BY <2>1 DEF ProducerLoop, ProducerFills, svars, QuietStep, MainUp
      <3> QED  BY <3>1, QuietKeeps
    <2>2. CASE ProducerGet
      <3>1. Head(unused) \in Items
        BY <2>2 DEF ProducerGet, TypeInv, SyncTypeOK
      <3> QED  BY <1>4, <2>2, <3>1, GetKeeps
    <2>3. CASE ProducerInit \/ ProducerSave
      BY <2>3, InitKeeps, SaveKeeps
    <2>4. ASSUME NEW u \in Users, UserLoop(u) \/ UserRepeat(u)
          PROVE  PlaceInv(NoItem)' /\ CountInv(NoItem)'
      <3>1. is_running[FlagOf(u)]
        BY DEF FlagInv, FlagOf, Flags
      <3>2. QuietStep
        BY <2>4, <3>1 DEF UserLoop, UserRepeat, QuietStep, TypeInv, SyncTypeOK
      <3> QED  BY <3>2, QuietKeeps
    <2>5. ASSUME NEW u \in Users, UserObtain(u)  PROVE PlaceInv(NoItem)' /\ CountInv(NoItem)'
      BY <2>5, ObtainKeeps
    <2>6. ASSUME NEW u \in Users, UserRepay(u)  PROVE PlaceInv(NoItem)' /\ CountInv(NoItem)'
      <3>1. uitem[u] \in Items
        BY <2>6 DEF TypeInv, UserRepay
      <3> QED  BY <2>6, <3>1, RepayKeeps
    <2> QED  BY <1>1, <2>1, <2>2, <2>3, <2>4, <2>5, <2>6 DEF SteadyNext
  <1> QED  BY <1>2, <1>3, <1>5

\* The inductive invariant holds throughout a steady pipeline.
THEOREM SyncInvariant == Steady => (SyncSpec => []SyncInv)
  <1> SUFFICES ASSUME Steady  PROVE SyncSpec => []SyncInv
    OBVIOUS
  <1>1. SyncInit => SyncInv
    BY SyncInitInv
  <1>2. SyncInv /\ [SyncNext]_svars => SyncInv'
    BY SyncStepInv
  <1> QED  BY <1>1, <1>2, PTL DEF SyncSpec

\* In a steady pipeline the two reference counts of every published item are
\* the numbers of users that have yet to obtain and yet to repay it, so that
\* neither callback meets a zero, where it leaves the program with exit(-1).
THEOREM CountsAreExact == Steady => (SyncSpec => []CountsExact)
  <1>1. SyncInv => CountsExact
    <2> SUFFICES ASSUME SyncInv  PROVE CountsExact
      OBVIOUS
    <2>1. inused \in Seq(Items) /\ DOMAIN inused = 1 .. Len(inused) /\ Len(inused) \in Nat
      BY DEF SyncInv, CoreInv, TypeInv, SyncTypeOK
    <2>2. \A n \in DOMAIN inused : inused[n] \in Items /\ Exact(inused[n])
      BY <2>1 DEF SyncInv, CoreInv, TypeInv, CountInv, Has
    <2>3. \A n \in DOMAIN inused : n > 1 => user_recoder[inused[n]] = Users
      BY <2>1 DEF SyncInv, CoreInv, TypeInv, CountInv
    <2> QED  BY <2>2, <2>3 DEF CountsExact, Exact
  <1> QED  BY <1>1, SyncInvariant, PTL

\* In a steady pipeline get_data_from_pipeline and the camera write an item
\* only while no user reads it and no queue holds it, although neither takes
\* a lock while they write.
THEOREM ProducerIsAlone == Steady => (SyncSpec => []ProducerExclusive)
  <1>1. SyncInv => ProducerExclusive
    <2>1. SyncInv => \A s \in {unused, inused} : Range(s) = {s[k] : k \in 1 .. Len(s)}
      BY DEF SyncInv, CoreInv, TypeInv, SyncTypeOK, Range
    <2> QED  BY <2>1 DEF SyncInv, CoreInv, TypeInv, PlaceInv, ProducerExclusive, Filling, Has
  <1> QED  BY <1>1, SyncInvariant, PTL

\* As long as nothing stops, sync_queue_repay_unused_object keeps its promise
\* ("users are not done with it yet"): an unused item is in nobody's hands.
\* Once something does, the run sync_repaid shows that it does not.
THEOREM FreeIsUnusedWhileSteady == Steady => (SyncSpec => []FreeIsUnused)
  <1>1. SyncInv => FreeIsUnused
    <2>1. SyncInv => Range(unused) = {unused[k] : k \in 1 .. Len(unused)}
      BY DEF SyncInv, CoreInv, TypeInv, SyncTypeOK, Range
    <2>2. SyncInv => \A k \in 1 .. Len(unused) : unused[k] \in Items
      BY DEF SyncInv, CoreInv, TypeInv, SyncTypeOK
    <2> QED  BY <2>1, <2>2, SyncQueueAssumption DEF SyncInv, CoreInv, PlaceInv, FreeIsUnused, Has
  <1> QED  BY <1>1, SyncInvariant, PTL
-----------------------------------------------------------------------------
(***************************************************************************)
(* The refinement.  Taking an unused item, saving a filled one, obtaining  *)
(* and repaying are Broadcast's Acquire, Publish, Receive and Return; the  *)
(* other steps stutter.  That the front item alone is partly obtained, and *)
(* that its counts are exact, is what makes them so.                       *)
(***************************************************************************)
todo == [u \in Users |-> Due(u)]
holds == [u \in Users |-> Held(u)]

LEMMA BroadcastInit == SyncInit => Abstract!BInit
  <1> SUFFICES ASSUME SyncInit  PROVE Abstract!BInit
    OBVIOUS
  <1>1. /\ unused \in Seq(Items) /\ Once(unused) /\ \A i \in Items : Has(unused, i)
        /\ inused = << >>
    BY AllItems DEF SyncInit
  <1>2. DOMAIN unused = 1 .. Len(unused)
    BY <1>1
  <1>3. Abstract!IsInjective(unused)
    BY <1>1, <1>2 DEF Abstract!IsInjective, Once
  <1>4. Abstract!Range(unused) = Items
    BY <1>1, <1>2 DEF Abstract!Range, Has
  <1>5. BeingFilled = NoItem /\ \A u \in Users : Due(u) = << >> /\ Held(u) = NoItem
    BY <1>1 DEF BeingFilled, Due, Held, SyncInit
  <1> QED  BY <1>1, <1>3, <1>4, <1>5 DEF Abstract!BInit

\* What a step that moves no item leaves as it is.
LEMMA BroadcastStutters ==
    ASSUME unused' = unused, BeingFilled' = BeingFilled,
           \A u \in Users : Due(u)' = Due(u) /\ Held(u)' = Held(u)
    PROVE  UNCHANGED Abstract!bvars
  BY DEF Abstract!bvars

LEMMA BroadcastPublishes ==
    ASSUME SyncInv, ProducerSave
    PROVE  Abstract!Publish
  <1> USE DEF SyncInv, CoreInv, TypeInv, CoreInv, TypeInv
  <1>1. /\ pitem \in Items /\ NoItem \notin Items /\ ~ Has(inused, pitem)
        /\ BeingFilled = pitem /\ BeingFilled' = NoItem
        /\ unused' = unused /\ inused \in Seq(Items) /\ inused' = Append(inused, pitem)
        /\ user_recoder' = [user_recoder EXCEPT ![pitem] = Users]
        /\ \A u \in Users : Held(u)' = Held(u)
    BY SyncQueueAssumption DEF ProducerSave, BeingFilled, Held, FlagInv, TypeInv, MainUp, PlaceInv, SyncTypeOK, Filling
  <1>2. ASSUME NEW u \in Users  PROVE Due(u)' = Append(Due(u), pitem)
    <2>1. CASE inused = << >>
      <3>1. inused' # << >> /\ Head(inused') = pitem /\ u \in user_recoder'[pitem]
        BY <1>1, <2>1 DEF SyncTypeOK
      <3> QED  BY <1>1, <2>1, <3>1 DEF Due
    <2>2. CASE inused # << >>
      <3>1. /\ inused' # << >> /\ Head(inused') = Head(inused)
            /\ Tail(inused') = Append(Tail(inused), pitem)
        BY <1>1, <2>2
      <3>2. Head(inused) \in Items /\ Head(inused) # pitem
        BY <1>1, <2>2, TailItems DEF PlaceInv
      <3>3. user_recoder'[Head(inused)] = user_recoder[Head(inused)]
        BY <1>1, <3>2 DEF SyncTypeOK
      <3> QED  BY <1>1, <2>2, <3>1, <3>3 DEF Due
    <2> QED  BY <2>1, <2>2
  <1> QED  BY <1>1, <1>2 DEF Abstract!Publish

LEMMA BroadcastReceives ==
    ASSUME SyncInv, NEW u \in Users, UserObtain(u)
    PROVE  Abstract!Receive(u)
  <1> USE DEF SyncInv, CoreInv, TypeInv, CoreInv, TypeInv
  <1>1. PICK i : i = Head(inused)
    OBVIOUS
  <1>2. /\ inused \in Seq(Items) /\ inused # << >> /\ Once(inused)
        /\ u \in user_recoder[i] /\ upc[u] = "obtain"
        /\ user_recoder' = [user_recoder EXCEPT ![i] = @ \ {u}]
        /\ inused' = IF ref_obtain[i] = 1 THEN Tail(inused) ELSE inused
        /\ unused' = unused /\ uitem' = [uitem EXCEPT ![u] = i]
        /\ upc' = [upc EXCEPT ![u] = "use"] /\ BeingFilled' = BeingFilled
    BY <1>1 DEF UserObtain, SyncTypeOK, PlaceInv, BeingFilled
  <1>3. /\ i \in Items /\ Has(inused, i) /\ ~ Has(Tail(inused), i)
        /\ i = inused[1] /\ Tail(inused) \in Seq(Items)
        /\ \A k \in 1 .. Len(Tail(inused)) : k + 1 \in 2 .. Len(inused) /\ Tail(inused)[k] = inused[k + 1]
    BY <1>1, <1>2, TailItems
  <1>4. user_recoder'[i] = user_recoder[i] \ {u}
    BY <1>2, <1>3 DEF SyncTypeOK
  <1>5. Due(u) = inused
    BY <1>1, <1>2 DEF Due
  <1>6. ASSUME ref_obtain[i] = 1
        PROVE  /\ \A v \in Users \ {u} : Due(v) = Tail(inused)
               /\ \A v \in Users : Due(v)' = Tail(inused)
    <2>1. user_recoder[i] = {u}
      <3>1. /\ user_recoder[i] \in SUBSET Users
            /\ Cardinality(user_recoder[i]) = 1
        BY <1>3, <1>6 DEF CountInv, Exact, SyncTypeOK
      <3>2. Cardinality(user_recoder[i] \ {u}) = 0
        BY <1>2, <3>1, CountUsers
      <3>3. user_recoder[i] \ {u} \in SUBSET Users
        BY <3>1
      <3>4. user_recoder[i] \ {u} = {}
        BY <3>2, <3>3, CountUsers
      <3> QED  BY <1>2, <3>4
    <2>2. \A v \in Users \ {u} : Due(v) = Tail(inused)
      BY <1>1, <1>2, <2>1 DEF Due
    <2>3. inused' = Tail(inused)
      BY <1>2, <1>6
    <2>4. ASSUME NEW v \in Users, Tail(inused) # << >>
          PROVE  v \in user_recoder'[Head(Tail(inused))]
      <3> DEFINE t == Tail(inused)
      <3>1. t \in Seq(Items) /\ t # << >> /\ Head(t) = t[1] /\ 1 \in 1 .. Len(t) /\ t[1] \in Items
        BY <1>3, <2>4
      <3>2. user_recoder[t[1]] = Users /\ t[1] # i
        <4>1. 1 + 1 \in 2 .. Len(inused) /\ t[1] = inused[1 + 1]
          BY <1>3, <3>1
        <4>2. user_recoder[inused[1 + 1]] = Users
          BY <4>1 DEF CountInv
        <4> QED  BY <1>3, <3>1, <4>1, <4>2 DEF Has
      <3>3. user_recoder'[t[1]] = Users
        BY <1>2, <3>1, <3>2 DEF SyncTypeOK
      <3> QED  BY <3>1, <3>3
    <2> QED  BY <2>2, <2>3, <2>4 DEF Due
  <1>7. ASSUME ref_obtain[i] # 1
        PROVE  /\ \A v \in Users \ {u} : Due(v)' = Due(v)
               /\ Due(u)' = Tail(inused)
    <2>1. inused' = inused
      BY <1>2, <1>7
    <2> QED  BY <1>1, <1>2, <1>4, <2>1 DEF Due
  <1>8. /\ Due(u) # << >> /\ Due(u)' = Tail(Due(u)) /\ Head(Due(u)) = i
        /\ \A v \in Users \ {u} : Due(v)' = Due(v)
    BY <1>1, <1>2, <1>5, <1>6, <1>7
  <1>9. /\ Held(u) = NoItem /\ Held(u)' = i
        /\ \A v \in Users \ {u} : Held(v)' = Held(v)
    BY <1>2 DEF Held, SyncTypeOK
  <1>10. /\ todo' = [todo EXCEPT ![u] = Tail(todo[u])]
         /\ holds' = [holds EXCEPT ![u] = Head(todo[u])]
         /\ holds[u] = NoItem /\ todo[u] # << >>
    BY <1>8, <1>9 DEF todo, holds
  <1> QED  BY <1>2, <1>10 DEF Abstract!Receive, todo, holds

LEMMA BroadcastReturns ==
    ASSUME SyncInv, NEW u \in Users, UserRepay(u)
    PROVE  Abstract!Return(u)
  <1> USE DEF SyncInv, CoreInv, TypeInv, CoreInv, TypeInv
  <1>1. PICK i \in Items : i = uitem[u]
    BY DEF UserRepay, FlagInv, TypeInv, MainUp
  <1>2. /\ upc[u] = "use" /\ upc' = [upc EXCEPT ![u] = "loop"] /\ uitem' = uitem
        /\ UNCHANGED <<inused, user_recoder>> /\ BeingFilled' = BeingFilled
        /\ inused \in Seq(Items)
    BY <1>1 DEF UserRepay, SyncTypeOK, BeingFilled
  <1>3. /\ Held(u) = i /\ i # NoItem /\ Held(u)' = NoItem
        /\ \A v \in Users \ {u} : Held(v)' = Held(v)
        /\ \A v \in Users : Due(v)' = Due(v)
    BY <1>1, <1>2, SyncQueueAssumption DEF Held, Due, SyncTypeOK
  <1>4. /\ UsersOf(i)' = UsersOf(i) \ {u} /\ u \in UsersOf(i)
        /\ \/ unused' = Append(unused, i) /\ ~ Has(inused, i) /\ UsersOf(i)' = {}
           \/ unused' = unused /\ (Has(inused, i) \/ UsersOf(i)' # {})
    <2>1. ~ (i = NoItem)
      BY SyncQueueAssumption
    <2>2. /\ UsersOf(i)' = UsersOf(i) \ {u} /\ u \in UsersOf(i)
          /\ PutBack(i, NoItem) \/ KeptBack(i, NoItem)
      BY <1>1, RepayCounts
    <2> QED  BY <2>1, <2>2 DEF PutBack, KeptBack
  <1>5. \A v \in Users \ {u} : Held(v) = i <=> v \in UsersOf(i)'
    BY <1>1, <1>3, <1>4, SyncQueueAssumption DEF Held, UsersOf
  <1>6. ASSUME NEW v \in Users  PROVE i \in Range(Due(v)) => Has(inused, i)
    <2>1. CASE Due(v) = inused
      BY <1>2, <2>1 DEF Range, Has
    <2>2. CASE Due(v) # inused
      <3>1. inused # << >> /\ Due(v) = Tail(inused)
        BY <2>2 DEF Due
      <3>2. Tail(inused) \in Seq(Items) /\ (Has(Tail(inused), i) => Has(inused, i))
        BY <1>2, <3>1, TailItems DEF PlaceInv
      <3> QED  BY <3>1, <3>2 DEF Range, Has
    <2> QED  BY <2>1, <2>2
  <1>7. ASSUME Has(inused, i)  PROVE \E v \in Users \ {u} : i \in Range(Due(v))
    <2>1. Exact(i) /\ user_recoder[i] \in SUBSET Users
      BY <1>7 DEF CountInv, SyncTypeOK
    <2>2. PICK v \in Users : v \in user_recoder[i]
      BY <2>1, CountUsers DEF Exact
    <2>3. v # u
      BY <1>4, <2>1, <2>2 DEF Exact
    <2>4. i \in Range(Due(v))
      <3>1. CASE Due(v) = inused
        BY <1>2, <1>7, <3>1 DEF Range, Has
      <3>2. CASE Due(v) # inused
        <4>1. inused # << >> /\ Due(v) = Tail(inused) /\ v \notin user_recoder[Head(inused)]
          BY <3>2 DEF Due
        <4> DEFINE rest == Tail(inused)
        <4>2. i # Head(inused) /\ rest \in Seq(Items) /\ Has(rest, i)
          BY <1>2, <1>7, <2>2, <4>1, TailItems DEF PlaceInv
        <4>3. Due(v) = rest
          BY <4>1
        <4> HIDE DEF rest
        <4>4. PICK k \in 1 .. Len(rest) : rest[k] = i
          BY <4>2 DEF Has
        <4>5. k \in DOMAIN rest
          BY <4>2
        <4> QED  BY <4>3, <4>4, <4>5 DEF Range
      <3> QED  BY <3>1, <3>2
    <2> QED  BY <2>3, <2>4
  <1>8. (\E v \in Users \ {u} : Held(v) = i \/ i \in Range(Due(v)))
            <=> Has(inused, i) \/ UsersOf(i)' # {}
    <2>1. \A v \in UsersOf(i)' : v \in Users \ {u}
      BY <1>4 DEF UsersOf
    <2> QED  BY <1>5, <1>6, <1>7, <2>1
  <1>9. unused' = IF \E v \in Users \ {u} : Held(v) = i \/ i \in Range(Due(v))
                  THEN unused ELSE Append(unused, i)
    BY <1>4, <1>8
  <1>10. /\ holds[u] = i /\ holds' = [holds EXCEPT ![u] = NoItem] /\ todo' = todo
         /\ \A v \in Users : holds[v] = Held(v) /\ todo[v] = Due(v)
    <2>1. holds[u] = i /\ \A v \in Users : holds[v] = Held(v) /\ todo[v] = Due(v)
      BY <1>3 DEF holds, todo
    <2>2. holds' = [v \in Users |-> Held(v)'] /\ todo' = [v \in Users |-> Due(v)']
      BY DEF holds, todo
    <2>3. todo' = todo
      BY <1>3, <2>2 DEF todo
    <2>4. holds' = [holds EXCEPT ![u] = NoItem]
      <3>1. [holds EXCEPT ![u] = NoItem] = [v \in Users |-> IF v = u THEN NoItem ELSE Held(v)]
        BY DEF holds
      <3>2. ASSUME NEW v \in Users  PROVE Held(v)' = IF v = u THEN NoItem ELSE Held(v)
        BY <1>3
      <3> QED  BY <2>2, <3>1, <3>2
    <2> QED  BY <2>1, <2>3, <2>4
  <1>11. Abstract!WantedByOthers(u, i) <=> \E v \in Users \ {u} : Held(v) = i \/ i \in Range(Due(v))
    BY DEF Abstract!WantedByOthers, Abstract!Range, Range
  <1> QED  BY <1>2, <1>3, <1>9, <1>10, <1>11 DEF Abstract!Return, holds, todo

LEMMA BroadcastNext ==
    ASSUME SyncInv, SteadyNext
    PROVE  [Abstract!BNext]_Abstract!bvars
  <1> USE DEF SyncInv, CoreInv, TypeInv, CoreInv, TypeInv
  <1>1. CASE ProducerGet
    <2>1. /\ unused # << >> /\ unused' = Tail(unused) /\ BeingFilled = NoItem
          /\ BeingFilled' = Head(unused)
          /\ \A u \in Users : Due(u)' = Due(u) /\ Held(u)' = Held(u)
      BY <1>1 DEF ProducerGet, BeingFilled, Due, Held, fields
    <2> QED  BY <2>1 DEF Abstract!BNext, Abstract!Acquire
  <1>2. CASE ProducerSave
    BY <1>2, BroadcastPublishes DEF Abstract!BNext
  <1>3. ASSUME NEW u \in Users, UserObtain(u)  PROVE Abstract!BNext
    BY <1>3, BroadcastReceives DEF Abstract!BNext
  <1>4. ASSUME NEW u \in Users, UserRepay(u)  PROVE Abstract!BNext
    BY <1>4, BroadcastReturns DEF Abstract!BNext
  <1>5. CASE ProducerLoop \/ ProducerFills \/ ProducerInit
    <2>1. BeingFilled' = BeingFilled
      BY <1>5 DEF ProducerLoop, ProducerFills, ProducerInit, BeingFilled, FlagInv, TypeInv, MainUp, Flags
    <2>2. /\ unused' = unused
          /\ \A u \in Users : Due(u)' = Due(u) /\ Held(u)' = Held(u)
      BY <1>5 DEF ProducerLoop, ProducerFills, ProducerInit, Due, Held, fields
    <2> QED  BY <2>1, <2>2, BroadcastStutters
  <1>6. ASSUME NEW u \in Users, UserLoop(u) \/ UserRepeat(u)
        PROVE  UNCHANGED Abstract!bvars
    <2>1. is_running[FlagOf(u)]
      BY DEF FlagInv, TypeInv, MainUp, FlagOf, Flags
    <2>2. /\ unused' = unused /\ BeingFilled' = BeingFilled
          /\ \A v \in Users : Due(v)' = Due(v) /\ Held(v)' = Held(v)
      BY <1>6, <2>1 DEF UserLoop, UserRepeat, BeingFilled, Due, Held, fields, SyncTypeOK
    <2> QED  BY <2>2, BroadcastStutters
  <1>7. CASE UNCHANGED svars
    BY <1>7, BroadcastStutters DEF svars, fields, BeingFilled, Due, Held
  <1> QED  BY <1>1, <1>2, <1>3, <1>4, <1>5, <1>6, <1>7 DEF SteadyNext

\* In a steady pipeline vse_to_n2d is a broadcast: every user receives every
\* item once and in the order of publication, although each obtains and
\* repays at its own pace, and an item is filled again only after the last of
\* them has repaid it.
THEOREM SharingIsBroadcast == Steady => (SyncSpec => ImplementsBroadcast)
  <1> SUFFICES ASSUME Steady  PROVE SyncSpec => ImplementsBroadcast
    OBVIOUS
  <1>1. SyncInv /\ [SyncNext]_svars => [Abstract!BNext]_Abstract!bvars
    BY SteadySteps, BroadcastNext
  <1>2. SyncSpec => []SyncInv
    BY SyncInvariant
  <1> QED
    BY <1>1, <1>2, BroadcastInit, PTL DEF SyncSpec, ImplementsBroadcast, Abstract!BroadcastSpec

-----------------------------------------------------------------------------
(***************************************************************************)
(* Stopping.  A main user that finds the pipeline stopped repays the item  *)
(* of its last turn again; by then inused_queue is empty, and that item    *)
(* is the last any user obtained: it is loose, with users or at the end of *)
(* ununsed_queue, where the producer takes it only when there is no other. *)
(***************************************************************************)
OrderInv(loose, last) ==
    /\ inused # << >> =>
         \A u \in Users : u \in user_recoder[Head(inused)] \/ uitem[u] = Head(inused)
    /\ inused = << >> =>
         /\ \A u \in Users : uitem[u] = last
         /\ Filling => pitem # last
         /\ last \in Items => Has(unused, last) \/ UsersOf(last) # {}
         /\ \A k \in 1 .. Len(unused) : unused[k] = last => k = Len(unused)
    /\ loose \in Items => loose = last /\ ~ MainUp /\ (ppc = "get" => inused = << >>)

Working(loose, last) == CoreInv(loose) /\ OrderInv(loose, last)

\* The producer has gone on without an item: all are in inused_queue, and who
\* was to obtain the front one has left.
Stuck ==
    /\ unused = << >>
    /\ Once(inused) /\ Len(inused) = Cardinality(Items)
    /\ ~ MainUp /\ ~ ItemIsDue
    /\ stopped = "joinCodecs" => ppc = "exit"
    /\ stopped # "destroyed"

Dead == stopped = "destroyed" /\ ppc = "exit" /\ unused = << >> /\ inused = << >>

\* Nobody has left with an item in hand.
AllBack == \A u \in Users : upc[u] # "left"

Placed == Dead \/ Stuck \/ \E loose, last \in Items \cup {NoItem} : Working(loose, last)

StopInv == TypeInv /\ (AllBack => Placed)

\* The loose item is loose no more when it has no user left.
LEMMA Tighten ==
    ASSUME NEW loose, TypeInv', PlaceInv(loose)', CountInv(loose)', UsersOf(loose)' = {}
    PROVE  PlaceInv(NoItem)' /\ CountInv(NoItem)'
  <1>1. NoItem \notin Items
    BY SyncQueueAssumption
  <1>2. Filling' => pitem' \in Items
    BY DEF TypeInv
  <1>3. PlaceInv(NoItem)'
    BY <1>1, <1>2 DEF PlaceInv
  <1>4. CountInv(NoItem)'
    BY <1>1 DEF CountInv
  <1> QED  BY <1>3, <1>4

LEMMA OrderQuiet ==
    ASSUME NEW loose, NEW last, OrderInv(loose, last), QuietStep, MainUp' => MainUp,
           UNCHANGED uitem, \A i : UsersOf(i)' = UsersOf(i),
           loose \in Items => ~ (ppc = "loop" /\ ppc' = "get")
    PROVE  OrderInv(loose, last)'
  <1>1. /\ UNCHANGED <<unused, inused, user_recoder, uitem>>
        /\ Filling' => Filling /\ pitem' = pitem
        /\ ppc' = "get" => ppc = "get" \/ (ppc = "loop" /\ ppc' = "get")
    BY DEF QuietStep, fields, Filling
  <1> QED  BY <1>1 DEF OrderInv

\* With a second item, the producer does not get the item that may be loose.
LEMMA OrderGet ==
    ASSUME Cardinality(Items) > 1, NEW loose, NEW last, TypeInv, PlaceInv(loose),
           OrderInv(loose, last), ProducerGet
    PROVE  /\ Head(unused) # loose
           /\ OrderInv(loose, last)'
  <1>1. /\ unused \in Seq(Items) /\ unused # << >> /\ Once(unused)
        /\ unused' = Tail(unused) /\ pitem' = Head(unused) /\ ~ Filling /\ ppc = "get"
        /\ UNCHANGED <<inused, user_recoder, is_running, upc, uitem>> /\ ppc' = "fill"
    BY DEF ProducerGet, TypeInv, SyncTypeOK, PlaceInv, Filling, fields
  <1>2. /\ Head(unused) = unused[1] /\ Head(unused) \in Items
        /\ \A i : Has(unused', i) <=> Has(unused, i) /\ i # Head(unused)
        /\ \A k \in 1 .. Len(unused') : k + 1 \in 2 .. Len(unused) /\ unused'[k] = unused[k + 1]
        /\ 1 \in 1 .. Len(unused) /\ Len(unused') = Len(unused) - 1 /\ Len(unused) \in Nat
    BY <1>1, TailItems
  <1>3. \A i : UsersOf(i)' = UsersOf(i)
    BY <1>1 DEF UsersOf
  <1>4. ASSUME inused = << >>, Head(unused) = last  PROVE FALSE
    <2>1. Len(unused) = 1
      BY <1>2, <1>4 DEF OrderInv
    <2>2. PICK j \in Items : j # last
      <3>1. Cardinality({last}) = 1 /\ last \in Items
        BY <1>2, <1>4, FS_Singleton
      <3>2. Items # {last}
        BY <3>1
      <3> QED  BY <3>1, <3>2
    <2>3. ~ Has(unused, j) /\ ~ Has(inused, j)
      BY <1>2, <1>4, <2>1, <2>2 DEF Has
    <2>4. UsersOf(j) = {}
      BY <1>4, <2>2 DEF OrderInv, UsersOf
    <2> QED  BY <1>1, <2>3, <2>4 DEF PlaceInv
  <1>5. loose \in Items => inused = << >> /\ loose = last
    BY <1>1 DEF OrderInv
  <1>6. Head(unused) # loose
    BY <1>2, <1>4, <1>5
  <1>7. ASSUME inused = << >>, NEW k \in 1 .. Len(unused'), unused'[k] = last
        PROVE  k = Len(unused')
    <2>1. k + 1 \in 1 .. Len(unused) /\ unused[k + 1] = last
      BY <1>2, <1>7
    <2>2. k + 1 = Len(unused)
      BY <1>7, <2>1 DEF OrderInv
    <2> QED  BY <1>2, <2>2
  <1>8. MainUp' = MainUp
    BY <1>1 DEF MainUp
  <1>9. ASSUME inused = << >>
        PROVE  last \in Items => Has(unused', last) \/ UsersOf(last)' # {}
    <2>1. last # Head(unused)
      BY <1>4, <1>9
    <2> QED  BY <1>2, <1>3, <1>9, <2>1 DEF OrderInv
  <1>10. inused = << >> => pitem' # last
    BY <1>1, <1>4
  <1>11. OrderInv(loose, last)'
    BY <1>1, <1>5, <1>7, <1>8, <1>9, <1>10 DEF OrderInv
  <1> QED  BY <1>6, <1>11

LEMMA OrderSave ==
    ASSUME NEW loose, NEW last, TypeInv, PlaceInv(loose), CountInv(loose),
           OrderInv(loose, last), ProducerSave
    PROVE  OrderInv(loose, last)'
  <1>1. /\ inused' = Append(inused, pitem) /\ inused \in Seq(Items) /\ ppc' = "loop"
        /\ UNCHANGED <<is_running, uitem>>
    BY DEF ProducerSave, TypeInv, SyncTypeOK
  <1>2. inused' # << >>
    BY <1>1
  <1>3. /\ Head(inused') = IF inused = << >> THEN pitem ELSE Head(inused)
        /\ user_recoder'[Head(inused')] =
             IF inused = << >> THEN Users ELSE user_recoder[Head(inused)]
    BY SaveKeeps
  <1>4. Users' = Users /\ MainUp' = MainUp
    BY <1>1 DEF Users, MainUp
  <1> QED  BY <1>1, <1>2, <1>3, <1>4 DEF OrderInv

\* When the last user of the front item obtains it, all have it, or had.
LEMMA OrderObtain ==
    ASSUME NEW loose \in Items \cup {NoItem}, NEW last \in Items \cup {NoItem}, TypeInv,
           TypeInv', PlaceInv(loose), CountInv(loose), OrderInv(loose, last),
           NEW u \in Users, UserObtain(u)
    PROVE  \E l, p \in Items \cup {NoItem} :
             PlaceInv(l)' /\ CountInv(l)' /\ OrderInv(l, p)'
  <1>1. PICK i \in Items : i = Head(inused)
    BY DEF UserObtain, TypeInv, SyncTypeOK
  <1>2. /\ PlaceInv(loose)' /\ CountInv(loose)'
        /\ UsersOf(i)' = UsersOf(i) \cup {u}
        /\ i \in Items /\ i # loose /\ Has(inused, i) /\ ~ Has(unused, i)
        /\ Filling => pitem # i
        /\ user_recoder'[i] = user_recoder[i] \ {u} /\ user_recoder[i] \in SUBSET Users
        /\ \/ user_recoder[i] = {u} /\ inused' = Tail(inused)
           \/ inused' = inused
    BY <1>1, ObtainKeeps
  <1>3. /\ inused # << >> /\ inused \in Seq(Items) /\ Once(inused)
        /\ uitem' = [uitem EXCEPT ![u] = i] /\ uitem \in [Users -> Items \cup {NoItem}]
        /\ user_recoder' = [user_recoder EXCEPT ![i] = @ \ {u}]
        /\ UNCHANGED <<unused, is_running, ppc, pitem>>
    BY <1>1 DEF UserObtain, TypeInv, SyncTypeOK, PlaceInv
  <1>4. /\ uitem'[u] = i
        /\ \A v \in Users \ {u} : uitem'[v] = uitem[v]
        /\ \A v \in Users : v \in user_recoder[i] \/ uitem[v] = i
        /\ loose \in Items => loose = last /\ ~ MainUp /\ ppc # "get"
        /\ MainUp' = MainUp
    BY <1>1, <1>3 DEF OrderInv, MainUp
  <1>5. CASE inused' = inused
    <2>1. OrderInv(loose, last)'
      BY <1>1, <1>2, <1>3, <1>4, <1>5 DEF OrderInv
    <2> QED  BY <1>2, <2>1
  <1>6. CASE user_recoder[i] = {u} /\ inused' = Tail(inused)
    <2>1. \A v \in Users : uitem'[v] = i
      BY <1>4, <1>6
    <2>2. CASE inused' # << >>
      <3> DEFINE t == Tail(inused)
      <3>1. /\ t \in Seq(Items) /\ t # << >> /\ ~ Has(t, i)
            /\ \A k \in 1 .. Len(t) : k + 1 \in 2 .. Len(inused) /\ t[k] = inused[k + 1]
        BY <1>1, <1>3, <1>6, <2>2, TailItems
      <3>2. inused' = t
        BY <1>6
      <3> HIDE DEF t
      <3>3. Head(t) = t[1] /\ 1 \in 1 .. Len(t) /\ t[1] \in Items /\ t[1] # i
        BY <3>1 DEF Has
      <3>4. user_recoder[t[1]] = Users
        <4>1. 1 + 1 \in 2 .. Len(inused) /\ t[1] = inused[1 + 1]
          BY <3>1, <3>3
        <4> QED  BY <4>1 DEF CountInv
      <3>5. user_recoder'[t[1]] = Users
        BY <1>3, <3>3, <3>4 DEF TypeInv, SyncTypeOK
      <3>6. OrderInv(loose, last)'
        BY <1>3, <1>4, <2>2, <3>2, <3>3, <3>5 DEF OrderInv
      <3> QED  BY <1>2, <3>6
    <2>3. CASE inused' = << >>
      <3>1. UsersOf(loose)' = {}
        BY <1>2, <2>1 DEF UsersOf
      <3>2. PlaceInv(NoItem)' /\ CountInv(NoItem)'
        BY <1>2, <3>1, Tighten
      <3>3. Filling' => pitem' # i
        BY <1>2, <1>3 DEF Filling
      <3>4. UsersOf(i)' # {} /\ ~ Has(unused', i)
        BY <1>2, <1>3
      <3>5. OrderInv(NoItem, i)'
        BY <2>1, <2>3, <3>3, <3>4, SyncQueueAssumption DEF OrderInv, Has
      <3> QED  BY <1>2, <3>2, <3>5
    <2> QED  BY <2>2, <2>3
  <1> QED  BY <1>2, <1>5, <1>6

LEMMA OrderRepay ==
    ASSUME NEW loose, NEW last, TypeInv, PlaceInv(loose), CountInv(loose),
           OrderInv(loose, last), NEW u \in Users, UserRepay(u)
    PROVE  OrderInv(loose, last)'
  <1>1. PICK i \in Items : i = uitem[u]
    BY DEF UserRepay, TypeInv
  <1>2. /\ UsersOf(i)' = UsersOf(i) \ {u}
        /\ \A j \in Items \ {i} : UsersOf(j)' = UsersOf(j)
        /\ PutBack(i, loose) \/ KeptBack(i, loose)
    BY <1>1, RepayCounts
  <1>3. /\ UNCHANGED <<inused, user_recoder, is_running, ppc, pitem, uitem>>
        /\ unused \in Seq(Items) /\ Once(unused)
    BY DEF UserRepay, TypeInv, SyncTypeOK, PlaceInv
  <1>4. MainUp' = MainUp /\ (Filling' <=> Filling)
    BY <1>3 DEF MainUp, Filling
  <1>5. ASSUME inused = << >>
        PROVE  /\ i = last
               /\ Has(unused', last) \/ UsersOf(last)' # {}
               /\ \A k \in 1 .. Len(unused') : unused'[k] = last => k = Len(unused')
    <2>1. i = last
      BY <1>1, <1>5 DEF OrderInv
    <2>2. CASE PutBack(i, loose)
      <3>1. /\ unused' = Append(unused, i) /\ ~ Has(unused, i)
            /\ Len(unused') = Len(unused) + 1 /\ Len(unused) \in Nat
            /\ unused'[Len(unused')] = i
            /\ \A k \in 1 .. Len(unused) : unused'[k] = unused[k]
        BY <1>3, <2>2 DEF PutBack
      <3>2. \A k \in 1 .. Len(unused') : k \in 1 .. Len(unused) \/ k = Len(unused')
        BY <3>1
      <3>3. Len(unused') \in 1 .. Len(unused')
        BY <3>1
      <3> QED  BY <2>1, <3>1, <3>2, <3>3 DEF Has
    <2>3. CASE KeptBack(i, loose)
      <3>1. ~ Has(inused, i)
        BY <1>5 DEF Has
      <3> QED  BY <1>5, <2>1, <2>3, <3>1 DEF KeptBack, OrderInv
    <2> QED  BY <1>2, <2>1, <2>2, <2>3
  <1> QED  BY <1>1, <1>3, <1>4, <1>5 DEF OrderInv

\* A main user that sees the stop has the last item once more.
LEMMA OrderStopped ==
    ASSUME NEW loose \in Items \cup {NoItem}, NEW last \in Items \cup {NoItem},
           TypeInv, FlagInv, PlaceInv(loose), CountInv(loose), OrderInv(loose, last),
           NEW u \in Users, UserStopped(u), upc'[u] = "use"
    PROVE  PlaceInv(last)' /\ CountInv(last)' /\ OrderInv(last, last)'
  <1>1. /\ inused = << >> /\ uitem[u] = last /\ upc[u] = "obtain"
        /\ upc' = [upc EXCEPT ![u] = "use"] /\ last \in Items
        /\ UNCHANGED <<unused, inused, ref_repay, ref_obtain, user_recoder, is_running, ppc,
                       pitem, uitem>>
        /\ ~ is_running[status] /\ status \in Flags
    BY DEF UserStopped, OrderInv, TypeInv, SyncTypeOK, fields
  <1>2. ~ MainUp /\ ~ MainUp'
    BY <1>1 DEF FlagInv, MainUp
  <1>3. /\ UsersOf(last)' = UsersOf(last) \cup {u} /\ u \notin UsersOf(last)
        /\ \A j \in Items \ {last} : UsersOf(j)' = UsersOf(j)
        /\ UsersOf(last) \in SUBSET Users
    BY <1>1 DEF UsersOf, TypeInv, SyncTypeOK
  <1>4. loose # last => loose \notin Items /\ loose = NoItem
    BY DEF OrderInv
  <1>5. /\ Filling => pitem # last /\ pitem \in Items
        /\ Has(unused, last) \/ UsersOf(last) # {}
        /\ \A i : ~ Has(inused, i)
        /\ Filling' <=> Filling
    BY <1>1 DEF OrderInv, TypeInv, Has, Filling
  <1>6. PlaceInv(last)'
    <2>1. \A j \in Items \ {last} : Has(unused, j) => UsersOf(j)' = {}
      BY <1>3, <1>4 DEF PlaceInv
    <2>2. Filling => UsersOf(pitem)' = {}
      BY <1>1, <1>5 DEF PlaceInv, UsersOf, TypeInv, SyncTypeOK
    <2>3. \A j \in Items : UsersOf(j) # {} => UsersOf(j)' # {}
      BY <1>3
    <2> QED  BY <1>1, <1>5, <2>1, <2>2, <2>3 DEF PlaceInv
  <1>7. CountInv(last)'
    <2>1. ASSUME ~ Has(unused, last)
          PROVE  ref_repay[last] \in 1 .. Cardinality(UsersOf(last)')
      <3>1. ref_repay[last] \in 1 .. Cardinality(UsersOf(last))
        <4>1. CASE loose = last
          BY <1>1, <2>1, <4>1 DEF CountInv
        <4>2. CASE loose # last
          <5>1. ref_repay[last] = Cardinality(UsersOf(last))
            BY <1>1, <1>4, <1>5, <2>1, <4>2 DEF CountInv
          <5>2. Cardinality(UsersOf(last)) > 0 /\ Cardinality(UsersOf(last)) \in 0 .. user_count
            BY <1>3, <1>5, <2>1, CountUsers
          <5>3. user_count \in Nat
            BY SyncQueueAssumption, FS_CardinalityType DEF user_count
          <5> QED  BY <5>1, <5>2, <5>3
        <4> QED  BY <4>1, <4>2
      <3>2. /\ Cardinality(UsersOf(last) \cup {u}) = Cardinality(UsersOf(last)) + 1
            /\ Cardinality(UsersOf(last)) \in 0 .. user_count
        BY <1>3, CountUsers
      <3>3. user_count \in Nat
        BY SyncQueueAssumption, FS_CardinalityType DEF user_count
      <3> QED  BY <1>3, <3>1, <3>2, <3>3
    <2>2. \A j \in Items \ {last} : UsersOf(j)' # {} => ref_repay[j] = Cardinality(UsersOf(j)')
      BY <1>3, <1>4, <1>5 DEF CountInv
    <2>3. \A j \in Items : Has(unused, j) => ref_repay[j] <= 0
      BY DEF CountInv
    <2>4. ppc = "save" => ref_obtain[pitem] = user_count /\ ref_repay[pitem] = user_count
      BY DEF CountInv
    <2>5. user_count' = user_count
      BY DEF user_count
    <2>6. Len(inused) = 0
      BY <1>1
    <2> QED  BY <1>1, <1>5, <2>1, <2>2, <2>3, <2>4, <2>5, <2>6 DEF CountInv
  <1>8. OrderInv(last, last)'
    BY <1>1, <1>2, <1>3, <1>5 DEF OrderInv
  <1> QED  BY <1>6, <1>7, <1>8

LEMMA WorkingInit == SyncInit => Working(NoItem, NoItem)
  <1> SUFFICES ASSUME SyncInit  PROVE Working(NoItem, NoItem)
    OBVIOUS
  <1>1. CoreInv(NoItem)
    BY SyncInitInv DEF SyncInv
  <1>2. NoItem \notin Items /\ inused = << >> /\ \A u \in Users : uitem[u] = NoItem
    BY SyncQueueAssumption DEF SyncInit
  <1>3. \A k \in 1 .. Len(unused) : unused[k] \in Items
    BY <1>1 DEF CoreInv, TypeInv, SyncTypeOK
  <1>4. OrderInv(NoItem, NoItem)
    BY <1>2, <1>3 DEF OrderInv, SyncInit, Filling
  <1> QED  BY <1>1, <1>4 DEF Working

\* What leaves queues and items alone.
LEMMA QuietSteps ==
    ASSUME TypeInv,
           \/ ProducerLoop \/ ProducerFill \/ ProducerSaveFails \/ Stop \/ StopCodecs
           \/ UNCHANGED svars
           \/ \E u \in Users : \/ UserLoop(u) \/ UserTimesOut(u)
                               \/ UserStopped(u) /\ upc'[u] # "use"
    PROVE  QuietStep /\ UNCHANGED uitem /\ (ppc = "loop" /\ ppc' = "get" => MainUp)
  <1>1. CASE ProducerLoop \/ ProducerFill \/ ProducerSaveFails \/ Stop \/ StopCodecs
             \/ UNCHANGED svars
    BY <1>1 DEF ProducerLoop, ProducerFill, ProducerSaveFails, Stop, StopCodecs, svars,
       QuietStep, MainUp
  <1>2. ASSUME NEW u \in Users,
               UserLoop(u) \/ UserTimesOut(u) \/ (UserStopped(u) /\ upc'[u] # "use")
        PROVE  QuietStep /\ UNCHANGED <<uitem, ppc>>
    <2>1. /\ UNCHANGED <<unused, inused, fields, ppc, pitem, uitem>> /\ upc[u] # "use"
          /\ \E x : upc' = [upc EXCEPT ![u] = x] /\ x # "use"
      BY <1>2 DEF UserLoop, UserTimesOut, UserStopped, UserExit, TypeInv, SyncTypeOK
    <2> QED  BY <2>1 DEF QuietStep, TypeInv, SyncTypeOK
  <1> QED  BY <1>1, <1>2

LEMMA WorkingQuiet ==
    ASSUME NEW loose, NEW last, Working(loose, last), QuietStep, UNCHANGED uitem,
           ppc = "loop" /\ ppc' = "get" => MainUp,
           TypeInv', FlagInv', MainUp' => MainUp
    PROVE  Working(loose, last)'
  <1> USE DEF Working, CoreInv
  <1>1. PlaceInv(loose)' /\ CountInv(loose)' /\ \A i : UsersOf(i)' = UsersOf(i)
    BY QuietKeeps
  <1>2. loose \in Items => ~ (ppc = "loop" /\ ppc' = "get")
    BY DEF OrderInv
  <1>3. OrderInv(loose, last)'
    BY <1>1, <1>2, OrderQuiet
  <1> QED  BY <1>1, <1>3

\* The producer goes on without an item only when all are in inused_queue.
LEMMA NoItemDue ==
    ASSUME NEW loose, CoreInv(loose), ~ MayTimeOut, ProducerGetTimesOut
    PROVE  Stuck'
  <1> USE DEF CoreInv
  <1>1. /\ unused = << >> /\ ppc = "get" /\ ~ ItemIsDue /\ Once(inused) /\ inused \in Seq(Items)
        /\ UNCHANGED <<unused, inused, fields, is_running, upc, uitem, stopped>>
        /\ is_running \in [Flags -> BOOLEAN]
    BY DEF ProducerGetTimesOut, PlaceInv, TypeInv, SyncTypeOK
  <1>2. \A i : UsersOf(i) = {} /\ ~ Has(unused, i)
    BY <1>1 DEF ItemIsDue, UsersOf, Has
  <1>3. \A i \in Items : Has(inused, i)
    BY <1>1, <1>2 DEF PlaceInv, Filling
  <1>4. Len(inused) = Cardinality(Items)
    BY <1>1, <1>3, AllInQueue
  <1>5. ~ MainUp
    <2> SUFFICES ASSUME MainUp  PROVE FALSE
      OBVIOUS
    <2>1. PICK i \in Items : Has(inused, i)
      BY <1>3, SyncQueueAssumption
    <2>2. inused # << >>
      BY <2>1 DEF Has
    <2>3. Head(inused) \in Items /\ Has(inused, Head(inused))
      BY <1>1, <2>2, TailItems
    <2>4. Exact(Head(inused)) /\ user_recoder[Head(inused)] \in SUBSET Users
      BY <2>3 DEF CountInv, TypeInv, SyncTypeOK
    <2>5. PICK u \in Users : u \in user_recoder[Head(inused)]
      BY <2>4, CountUsers DEF Exact
    <2>6. upc[u] \in {"loop", "obtain", "use"} /\ is_running[FlagOf(u)]
      BY DEF TypeInv, SyncTypeOK, FlagInv, FlagOf, Flags
    <2> QED  BY <1>1, <2>2, <2>5, <2>6 DEF ItemIsDue
  <1>6. ItemIsDue' = ItemIsDue
    BY <1>1 DEF ItemIsDue, fields
  <1>7. stopped # "joinCodecs" /\ stopped # "destroyed"
    BY <1>1 DEF FlagInv
  <1> QED  BY <1>1, <1>4, <1>5, <1>6, <1>7 DEF Stuck, MainUp

LEMMA WorkingNext ==
    ASSUME ~ MayTimeOut, Cardinality(Items) > 1,
           NEW loose \in Items \cup {NoItem}, NEW last \in Items \cup {NoItem},
           Working(loose, last), [SyncNext]_svars, \A u \in Users : ~ UserGivesUp(u)
    PROVE  Placed'
  <1> USE DEF Working, CoreInv
  <1>1. TypeInv'
    BY TypeNext
  <1>2. CASE Destroy
    <2>1. Dead'
      BY <1>2 DEF Destroy, Dead, FlagInv
    <2> QED  BY <1>1, <2>1 DEF Placed
  <1>3. ASSUME ~ Destroy  PROVE FlagInv' /\ (MainUp' => MainUp)
    <2>1. MainUp => \A u \in Users : ~ UserRepayFails(u)
      <3>1. \A u \in Users : UserRepayFails(u) => loose \in Items
        BY RepayFailsKeeps
      <3> QED  BY <3>1 DEF OrderInv
    <2> QED  BY <1>3, <2>1, FlagNext
  <1>4. ASSUME ~ Destroy, NEW l \in Items \cup {NoItem}, NEW p \in Items \cup {NoItem},
               PlaceInv(l)', CountInv(l)', OrderInv(l, p)'
        PROVE  Placed'
    <2>1. Working(l, p)'
      BY <1>1, <1>3, <1>4
    <2> QED  BY <1>1, <2>1 DEF Placed
  <1>5. CASE \/ ProducerLoop \/ ProducerFill \/ ProducerSaveFails \/ Stop \/ StopCodecs
             \/ UNCHANGED svars
             \/ \E u \in Users : \/ UserLoop(u) \/ UserTimesOut(u)
                                 \/ UserStopped(u) /\ upc'[u] # "use"
    <2>1. QuietStep /\ UNCHANGED uitem /\ (ppc = "loop" /\ ppc' = "get" => MainUp)
      BY <1>5, QuietSteps
    <2>2. CASE ~ Destroy
      <3>1. Working(loose, last)'
        BY <1>1, <1>3, <2>1, <2>2, WorkingQuiet
      <3> QED  BY <1>1, <3>1 DEF Placed
    <2> QED  BY <1>2, <2>2
  <1>6. CASE ProducerGet
    <2>1. ~ Destroy
      BY <1>6 DEF ProducerGet, Destroy
    <2>2. Head(unused) # loose /\ OrderInv(loose, last)'
      BY <1>6, OrderGet
    <2>3. PlaceInv(loose)' /\ CountInv(loose)'
      BY <1>6, <2>2, GetKeeps
    <2> QED  BY <1>4, <2>1, <2>2, <2>3
  <1>7. CASE ProducerGetTimesOut
    BY <1>1, <1>7, NoItemDue DEF Placed
  <1>8. CASE ProducerInit
    <2>1. /\ ~ Destroy /\ Filling /\ Filling' /\ ppc' # "get"
          /\ UNCHANGED <<unused, inused, user_recoder, is_running, pitem, upc, uitem>>
      BY <1>8 DEF ProducerInit, Destroy, Filling
    <2>2. PlaceInv(loose)' /\ CountInv(loose)'
      BY <1>8, InitKeeps
    <2>3. OrderInv(loose, last)'
      BY <2>1 DEF OrderInv, UsersOf, MainUp
    <2> QED  BY <1>4, <2>1, <2>2, <2>3
  <1>9. CASE ProducerSave
    <2>1. ~ Destroy
      BY <1>9 DEF ProducerSave, Destroy
    <2>2. PlaceInv(loose)' /\ CountInv(loose)' /\ OrderInv(loose, last)'
      BY <1>9, SaveKeeps, OrderSave
    <2> QED  BY <1>4, <2>1, <2>2
  <1>10. ASSUME NEW u \in Users, UserObtain(u)  PROVE Placed'
    <2>1. ~ Destroy
      BY <1>10 DEF UserObtain, Destroy
    <2>2. PICK l, p \in Items \cup {NoItem} : PlaceInv(l)' /\ CountInv(l)' /\ OrderInv(l, p)'
      BY <1>1, <1>10, OrderObtain
    <2> QED  BY <1>4, <2>1, <2>2
  <1>11. ASSUME NEW u \in Users, UserRepeat(u)  PROVE Placed'
    <2>1. /\ ~ Destroy /\ upc[u] # "use" /\ upc' = [upc EXCEPT ![u] = "loop"]
          /\ uitem' = [uitem EXCEPT ![u] = Head(inused)] /\ inused # << >>
          /\ u \notin user_recoder[Head(inused)]
          /\ UNCHANGED <<unused, inused, fields, ppc, pitem>>
      BY <1>11 DEF UserRepeat, Destroy
    <2>2. uitem[u] = Head(inused)
      BY <2>1 DEF OrderInv
    <2>3. uitem' = uitem
      BY <2>1, <2>2 DEF TypeInv, SyncTypeOK
    <2>4. QuietStep
      BY <2>1, <2>3 DEF QuietStep, TypeInv, SyncTypeOK
    <2>5. Working(loose, last)'
      BY <1>1, <1>3, <2>1, <2>3, <2>4, WorkingQuiet
    <2> QED  BY <1>1, <2>5 DEF Placed
  <1>12. ASSUME NEW u \in Users, UserRepay(u)  PROVE Placed'
    <2>1. ~ Destroy
      BY <1>12 DEF UserRepay, Destroy
    <2>2. uitem[u] \in Items
      BY <1>12 DEF UserRepay, TypeInv
    <2>3. PlaceInv(loose)' /\ CountInv(loose)' /\ OrderInv(loose, last)'
      BY <1>12, <2>2, RepayKeeps, OrderRepay
    <2> QED  BY <1>4, <2>1, <2>3
  <1>13. ASSUME NEW u \in Users, UserRepayFails(u)  PROVE Placed'
    <2>1. PlaceInv(loose)' /\ CountInv(loose)' /\ \A i \in Items : Has(unused, i)
      BY <1>13, RepayFailsKeeps
    <2>2. ~ Destroy /\ UNCHANGED <<unused, inused, fields, ppc, pitem, uitem>>
      BY <1>13 DEF UserRepayFails, Destroy, UserExit
    <2>3. MainUp' => MainUp
      BY <1>3, <2>2
    <2>4. OrderInv(loose, last)'
      BY <2>1, <2>2, <2>3 DEF OrderInv, Filling, fields
    <2> QED  BY <1>4, <2>1, <2>2, <2>4
  <1>14. ASSUME NEW u \in Users, UserStopped(u), upc'[u] = "use"  PROVE Placed'
    <2>1. ~ Destroy
      BY <1>14 DEF UserStopped, Destroy
    <2>2. PlaceInv(last)' /\ CountInv(last)' /\ OrderInv(last, last)'
      BY <1>14, OrderStopped
    <2> QED  BY <1>4, <2>1, <2>2
  <1>15. stopped # "destroyed"
    BY DEF FlagInv
  <1> QED
    BY <1>2, <1>5, <1>6, <1>7, <1>8, <1>9, <1>10, <1>11, <1>12, <1>13, <1>14, <1>15
    DEF SyncNext, Producer, User, Stopping

\* A producer without an item does no more than try and leave.
LEMMA StuckNext ==
    ASSUME TypeInv, Stuck, [SyncNext]_svars
    PROVE  Stuck' \/ Dead'
  <1> USE DEF TypeInv
  <1>1. /\ inused \in Seq(Items) /\ inused # << >> /\ Cardinality(Items) \in Nat
    <2>1. Cardinality(Items) \in Nat /\ Cardinality(Items) > 0
      BY SyncQueueAssumption, FS_CardinalityType, FS_EmptySet
    <2> QED  BY <2>1 DEF SyncTypeOK, Stuck
  <1>2. \A u \in Users : /\ upc[u] # "use"
                         /\ ~ UserObtain(u) /\ ~ UserRepay(u) /\ ~ UserRepayFails(u)
                         /\ ~ UserTimesOut(u) /\ ~ UserStopped(u) /\ ~ UserGivesUp(u)
    BY <1>1 DEF Stuck, ItemIsDue, UserObtain, UserRepay, UserRepayFails, UserTimesOut,
       UserStopped, UserGivesUp
  <1>3. ~ ProducerGet /\ ~ ProducerSave
    BY <1>1 DEF Stuck, ProducerGet, ProducerSave
  <1>4. CASE Producer \/ Stop \/ StopCodecs \/ UNCHANGED svars
    <2>1. /\ UNCHANGED <<unused, inused, user_recoder, upc>>
          /\ \A f \in Flags : is_running'[f] => is_running[f]
          /\ stopped' # "destroyed" /\ (stopped' = "joinCodecs" => ppc' = "exit")
      BY <1>3, <1>4 DEF Producer, ProducerLoop, ProducerGetTimesOut, ProducerFill, ProducerInit,
         ProducerSaveFails, Stop, StopCodecs, svars, fields, Stuck, SyncTypeOK
    <2>2. ~ MainUp' /\ ~ ItemIsDue'
      BY <2>1 DEF Stuck, MainUp, ItemIsDue, FlagOf, Flags
    <2> QED  BY <2>1, <2>2 DEF Stuck
  <1>5. ASSUME NEW u \in Users, UserLoop(u) \/ UserRepeat(u)  PROVE Stuck'
    <2>1. /\ UNCHANGED <<unused, inused, user_recoder, ppc, stopped>>
          /\ \A f \in Flags : is_running'[f] => is_running[f]
      BY <1>5 DEF UserLoop, UserRepeat, UserExit, fields, SyncTypeOK
    <2>2. /\ \A v \in Users \ {u} : upc'[v] = upc[v]
          /\ upc'[u] = "exit" \/ u \notin user_recoder[Head(inused)]
          /\ upc'[u] # "use"
      BY <1>1, <1>5 DEF UserLoop, UserRepeat, UserExit, SyncTypeOK, Stuck, ItemIsDue
    <2>3. ~ MainUp' /\ ~ ItemIsDue'
      BY <2>1, <2>2 DEF Stuck, MainUp, ItemIsDue, FlagOf, Flags
    <2> QED  BY <2>1, <2>3 DEF Stuck
  <1>6. CASE Destroy
    BY <1>6 DEF Destroy, Dead, Stuck
  <1> QED  BY <1>2, <1>4, <1>5, <1>6 DEF SyncNext, Stopping, User, Stuck

LEMMA DeadNext ==
    ASSUME Dead, [SyncNext]_svars
    PROVE  Dead'
  BY DEF Dead, SyncNext, Producer, ProducerLoop, ProducerGet, ProducerGetTimesOut, ProducerFill,
     ProducerInit, ProducerSave, ProducerSaveFails, User, UserLoop, UserAfterFree, Stop, Stopping,
     StopCodecs, Destroy, svars

\* Where the items are while a pipeline of two or more works, stops and has
\* stopped, whoever stops it.
THEOREM StopInvariant ==
    ~ MayTimeOut /\ Cardinality(Items) > 1 => (SyncSpec => []StopInv)
  <1> SUFFICES ASSUME ~ MayTimeOut, Cardinality(Items) > 1  PROVE SyncSpec => []StopInv
    OBVIOUS
  <1>1. SyncInit => StopInv
    BY WorkingInit, TypeInit DEF StopInv, Placed
  <1>2. StopInv /\ [SyncNext]_svars => StopInv'
    <2> SUFFICES ASSUME StopInv, [SyncNext]_svars, AllBack'  PROVE Placed'
      BY TypeNext DEF StopInv
    <2>1. \A u \in Users : ~ UserGivesUp(u)
      BY DEF UserGivesUp, AllBack, StopInv, TypeInv, SyncTypeOK
    <2>2. AllBack
      <3> SUFFICES ASSUME NEW v \in Users, upc[v] = "left"  PROVE upc'[v] = "left"
        BY DEF AllBack
      <3>1. ASSUME NEW u \in Users, User(u)  PROVE upc'[v] = "left"
        <4>1. upc[u] # "left"
          BY <3>1 DEF User, UserLoop, UserObtain, UserRepeat, UserTimesOut, UserStopped,
             UserRepay, UserRepayFails, UserGivesUp, UserAfterFree
        <4>2. \E x : upc' = [upc EXCEPT ![u] = x]
          BY <3>1 DEF User, UserLoop, UserObtain, UserRepeat, UserTimesOut, UserStopped,
             UserRepay, UserRepayFails, UserGivesUp, UserAfterFree, UserExit
        <4> QED  BY <4>1, <4>2 DEF StopInv, TypeInv, SyncTypeOK
      <3>2. CASE Producer \/ Stop \/ Stopping \/ UNCHANGED svars
        BY <3>2 DEF Producer, ProducerLoop, ProducerGet, ProducerGetTimesOut, ProducerFill,
           ProducerInit, ProducerSave, ProducerSaveFails, Stop, Stopping, StopCodecs, Destroy,
           svars
      <3> QED  BY <3>1, <3>2 DEF SyncNext
    <2>3. CASE Dead \/ Stuck
      BY <2>3, DeadNext, StuckNext DEF StopInv, Placed
    <2>4. ASSUME NEW loose \in Items \cup {NoItem}, NEW last \in Items \cup {NoItem},
                 Working(loose, last)
          PROVE  Placed'
      BY <2>1, <2>4, WorkingNext
    <2> QED  BY <2>2, <2>3, <2>4 DEF StopInv, Placed
  <1> QED  BY <1>1, <1>2, PTL DEF SyncSpec

\* An item is in one place of one queue at most, also while the pipeline
\* stops and main users repay an item they did not obtain: it is put back by
\* its last user only, and saved after it was taken out.  So the drain of
\* sync_queue_destory frees each item once, unless get_stitch_data broke out
\* of its loop with an item in hand (NoDoubleItem says so).  A pipeline that may stop needs a
\* second item for that; the code has PILELINE_OUT_BUFFER_COUNT of them less
\* PILELINE_OUT_BUFFER_RELEASE_COUNT, three.
THEOREM NoItemTwice ==
    ~ MayTimeOut /\ (~ MayStop \/ Cardinality(Items) > 1) => (SyncSpec => []NoDoubleItem)
  <1> SUFFICES ASSUME ~ MayTimeOut, ~ MayStop \/ Cardinality(Items) > 1
               PROVE  SyncSpec => []NoDoubleItem
    OBVIOUS
  <1>1. CASE ~ MayStop
    <2>1. SyncInv => NoDoubleItem
      <3> SUFFICES ASSUME SyncInv  PROVE NoDoubleItem
        OBVIOUS
      <3>1. /\ unused \in Seq(Items) /\ inused \in Seq(Items)
            /\ Once(unused) /\ Once(inused)
            /\ \A i \in Items : ~ (Has(unused, i) /\ Has(inused, i))
        BY DEF SyncInv, CoreInv, TypeInv, SyncTypeOK, PlaceInv
      <3> QED  BY <3>1, OncePlaced DEF NoDoubleItem
    <2>2. Steady
      BY <1>1 DEF Steady
    <2> QED  BY <2>1, <2>2, SyncInvariant, PTL
  <1>2. CASE Cardinality(Items) > 1
    <2>1. StopInv => NoDoubleItem
      <3> SUFFICES ASSUME StopInv, AllBack  PROVE NoDoubleItem
        BY DEF NoDoubleItem, AllBack
      <3>1. unused \in Seq(Items) /\ inused \in Seq(Items)
        BY DEF StopInv, TypeInv, SyncTypeOK
      <3>2. /\ Once(unused) /\ Once(inused)
            /\ \A i \in Items : ~ (Has(unused, i) /\ Has(inused, i))
        <4>1. CASE Dead
          BY <4>1 DEF Dead, Once, Has
        <4>2. CASE Stuck
          BY <4>2 DEF Stuck, Once, Has
        <4>3. CASE \E loose, last \in Items \cup {NoItem} : Working(loose, last)
          BY <4>3 DEF Working, CoreInv, PlaceInv
        <4> QED  BY <4>1, <4>2, <4>3 DEF StopInv, Placed
      <3> QED  BY <3>1, <3>2, OncePlaced DEF NoDoubleItem
    <2> QED  BY <1>2, <2>1, StopInvariant, PTL
  <1> QED  BY <1>1, <1>2
=============================================================================
