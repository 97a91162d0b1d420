----------------------------- MODULE ListLemmas -----------------------------
(***************************************************************************)
(* Lemmas about lists: how the concatenation of the places an item can be  *)
(* in changes when one item moves on, and what the images of a list's      *)
(* members are.  The refinement proofs of the pipelines rest on them.      *)
(*                                                                         *)
(* What a lemma says is in the names below, which the provers do not look  *)
(* into: the built-in operators on sequences they would take apart.        *)
(***************************************************************************)
EXTENDS SequencesExt, Integers, SequenceTheorems, TLAPS

Lists(S) == Seq(S)
None == << >>
Single(x) == <<x>>
Put(s, x) == Append(s, x)
Cat(a, b) == a \o b
First(s) == Head(s)
Rest(s) == Tail(s)

\* t is s without one of its members; s is x and then t.
Without(s, t) == \E i \in DOMAIN s : t = RemoveAt(s, i)
Starts(s, x, t) == s # << >> /\ x = Head(s) /\ t = Tail(s)

\* A list of one.
LEMMA OneList ==
    ASSUME NEW S, NEW x \in S
    PROVE  /\ <<x>> \in Seq(S) /\ Len(<<x>>) = 1 /\ <<x>>[1] = x
           /\ <<x>> # << >> /\ Head(<<x>>) = x /\ Tail(<<x>>) = << >>
  OBVIOUS

\* A list begins with its head.
LEMMA HeadFirst ==
    ASSUME NEW S, NEW s \in Seq(S), s # << >>
    PROVE  Head(s) \in S /\ Tail(s) \in Seq(S) /\ s = <<Head(s)>> \o Tail(s)
  <1>1. /\ Head(s) \in S /\ Tail(s) \in Seq(S) /\ Len(Tail(s)) = Len(s) - 1
        /\ Len(s) \in Nat \ {0} /\ Head(s) = s[1]
    OBVIOUS
  <1>2. /\ <<Head(s)>> \o Tail(s) \in Seq(S)
        /\ Len(<<Head(s)>> \o Tail(s)) = 1 + Len(Tail(s))
        /\ \A i \in 1 .. 1 + Len(Tail(s)) :
             (<<Head(s)>> \o Tail(s))[i] = IF i <= 1 THEN <<Head(s)>>[i] ELSE Tail(s)[i - 1]
    BY <1>1, OneList, ConcatProperties
  <1>3. ASSUME NEW i \in 1 .. Len(s)  PROVE s[i] = (<<Head(s)>> \o Tail(s))[i]
    <2>1. CASE i = 1
      BY <1>1, <1>2, <2>1
    <2>2. CASE i # 1
      <3>1. i - 1 \in 1 .. Len(Tail(s))
        BY <1>1, <2>2
      <3>2. Tail(s)[i - 1] = s[i]
        BY <3>1
      <3> QED  BY <1>1, <1>2, <2>2, <3>2
    <2> QED  BY <2>1, <2>2
  <1> QED  BY <1>1, <1>2, <1>3, SeqEqual

\* An item passes from the front of one part to the part before it, or from a
\* hand between them to the end of that part.
LEMMA PassOn ==
    ASSUME NEW S, NEW a \in Seq(S), NEW b \in Seq(S), NEW x \in S
    PROVE  /\ (a \o b) \o <<x>> = a \o Append(b, x)
           /\ a \o <<x>> = Append(a, x)
           /\ b # << >> => (a \o <<Head(b)>>) \o Tail(b) = a \o b
  <1>1. <<x>> \in Seq(S)
    BY OneList
  <1>2. (a \o b) \o <<x>> = a \o Append(b, x)
    <2>1. Append(b, x) = b \o <<x>>
      BY AppendIsConcat
    <2>2. (a \o b) \o <<x>> = a \o (b \o <<x>>)
      BY <1>1, ConcatAssociative
    <2> QED  BY <2>1, <2>2
  <1>3. a \o <<x>> = Append(a, x)
    BY AppendIsConcat
  <1>4. ASSUME b # << >>  PROVE (a \o <<Head(b)>>) \o Tail(b) = a \o b
    <2>1. Head(b) \in S /\ Tail(b) \in Seq(S) /\ b = <<Head(b)>> \o Tail(b)
      BY <1>4, HeadFirst
    <2>2. <<Head(b)>> \in Seq(S)
      BY <2>1, OneList
    <2>3. (a \o <<Head(b)>>) \o Tail(b) = a \o (<<Head(b)>> \o Tail(b))
      BY <2>1, <2>2, ConcatAssociative
    <2> QED  BY <2>1, <2>3
  <1> QED  BY <1>2, <1>3, <1>4

\* The head of a concatenation.
LEMMA HeadOfConcat ==
    ASSUME NEW S, NEW a \in Seq(S), NEW b \in Seq(S), a # << >>
    PROVE  /\ a \o b # << >>
           /\ Head(a \o b) = Head(a)
           /\ Tail(a \o b) = Tail(a) \o b
  <1>1. /\ Head(a) \in S /\ Tail(a) \in Seq(S) /\ Len(Tail(a)) = Len(a) - 1
        /\ Len(a) \in Nat \ {0} /\ Head(a) = a[1] /\ Len(b) \in Nat
    OBVIOUS
  <1>2. /\ a \o b \in Seq(S) /\ Len(a \o b) = Len(a) + Len(b)
        /\ \A i \in 1 .. Len(a) + Len(b) :
             (a \o b)[i] = IF i <= Len(a) THEN a[i] ELSE b[i - Len(a)]
    BY ConcatProperties
  <1>3. /\ Tail(a) \o b \in Seq(S) /\ Len(Tail(a) \o b) = Len(Tail(a)) + Len(b)
        /\ \A i \in 1 .. Len(Tail(a)) + Len(b) :
             (Tail(a) \o b)[i] = IF i <= Len(Tail(a)) THEN Tail(a)[i] ELSE b[i - Len(Tail(a))]
    BY <1>1, ConcatProperties
  <1>4. a \o b # << >> /\ Head(a \o b) = (a \o b)[1]
    BY <1>1, <1>2
  <1>5. Head(a \o b) = Head(a)
    BY <1>1, <1>2, <1>4
  <1>6. Tail(a \o b) \in Seq(S) /\ Len(Tail(a \o b)) = Len(a) + Len(b) - 1
    BY <1>1, <1>2, <1>4
  <1>7. ASSUME NEW i \in 1 .. Len(Tail(a \o b))  PROVE Tail(a \o b)[i] = (Tail(a) \o b)[i]
    <2>1. i \in 1 .. Len(a) + Len(b) - 1 /\ i + 1 \in 1 .. Len(a) + Len(b)
      BY <1>1, <1>6
    <2>2. Tail(a \o b)[i] = (a \o b)[i + 1]
      BY <1>2, <1>4, <1>7
    <2>3. CASE i <= Len(a) - 1
      <3>1. Tail(a)[i] = a[i + 1]
        BY <1>1, <2>1, <2>3
      <3> QED  BY <1>1, <1>2, <1>3, <2>1, <2>2, <2>3, <3>1
    <2>4. CASE ~ (i <= Len(a) - 1)
      <3>1. (a \o b)[i + 1] = b[i + 1 - Len(a)] /\ (Tail(a) \o b)[i] = b[i - (Len(a) - 1)]
        BY <1>1, <1>2, <1>3, <2>1, <2>4
      <3>2. i + 1 - Len(a) = i - (Len(a) - 1)
        BY <1>1, <2>1
      <3> QED  BY <2>2, <3>1, <3>2
    <2> QED  BY <2>3, <2>4
  <1>8. Len(Tail(a) \o b) = Len(Tail(a \o b))
    BY <1>1, <1>3, <1>6
  <1>9. Tail(a \o b) = Tail(a) \o b
    BY <1>3, <1>6, <1>7, <1>8, SeqEqual
  <1> QED  BY <1>4, <1>5, <1>9

\* Concatenation as the later lemmas name it.
LEMMA CatType ==
    ASSUME NEW S, NEW a \in Lists(S), NEW b \in Lists(S)
    PROVE  Cat(a, b) \in Lists(S)
  BY ConcatProperties DEF Lists, Cat

\* Nothing before or after a list changes it.
LEMMA CatNone ==
    ASSUME NEW S, NEW a \in Lists(S)
    PROVE  Cat(a, None) = a /\ Cat(None, a) = a /\ None \in Lists(S)
  BY ConcatEmptySeq, EmptySeq DEF Lists, Cat, None

\* Parts may be grouped in any order.
LEMMA CatAssociative ==
    ASSUME NEW S, NEW a \in Lists(S), NEW b \in Lists(S), NEW c \in Lists(S)
    PROVE  Cat(Cat(a, b), c) = Cat(a, Cat(b, c))
  BY ConcatAssociative DEF Lists, Cat

\* An item passes from a hand behind a list to its end.
LEMMA CatOne ==
    ASSUME NEW S, NEW a \in Lists(S), NEW x \in S
    PROVE  Cat(a, Single(x)) = Put(a, x) /\ Single(x) \in Lists(S) /\ Put(a, x) \in Lists(S)
  BY PassOn, OneList DEF Lists, Cat, Single, Put

\* An item passes from a hand behind a part to the end of that part.
LEMMA CatPut ==
    ASSUME NEW S, NEW a \in Lists(S), NEW b \in Lists(S), NEW x \in S
    PROVE  Cat(Cat(a, b), Single(x)) = Cat(a, Put(b, x))
  BY CatOne, CatAssociative

\* The first item of a list passes to the hand before it.
LEMMA CatFirst ==
    ASSUME NEW S, NEW a \in Lists(S), NEW b \in Lists(S), b # None
    PROVE  /\ Cat(Cat(a, Single(First(b))), Rest(b)) = Cat(a, b)
           /\ First(b) \in S /\ Rest(b) \in Lists(S)
  BY PassOn, HeadFirst DEF Lists, Cat, Single, First, Rest, None

\* The first item of a list leaves it.
LEMMA StartsFirst ==
    ASSUME NEW S, NEW a \in Lists(S), a # None
    PROVE  Starts(a, First(a), Rest(a))
  BY DEF Starts, First, Rest, None

\* A list of one starts with it.
LEMMA StartsOne ==
    ASSUME NEW S, NEW x \in S
    PROVE  Starts(Single(x), x, None)
  BY OneList DEF Starts, Single, None

\* A list with another behind it starts with what it starts with alone.
LEMMA StartsCat ==
    ASSUME NEW S, NEW a \in Lists(S), NEW b \in Lists(S), NEW x, NEW c, Starts(a, x, c)
    PROVE  Starts(Cat(a, b), x, Cat(c, b))
  BY HeadOfConcat DEF Starts, Cat, Lists

\* The last item is lost, or one before others.
LEMMA WithoutLast ==
    ASSUME NEW S, NEW a \in Lists(S), NEW x \in S
    PROVE  Without(Cat(a, Single(x)), a)
  <1> DEFINE s == a \o <<x>>  k == Len(a) + 1
  <1>1. /\ s \in Seq(S) /\ Len(s) = k /\ DOMAIN s = 1 .. k /\ Len(a) \in Nat
        /\ \A i \in 1 .. Len(a) : s[i] = a[i]
    BY OneList, ConcatProperties DEF Lists
  <1>2. SubSeq(s, 1, Len(a)) = a
    BY <1>1 DEF Lists
  <1>3. SubSeq(s, k + 1, k) = << >>
    BY <1>1
  <1>4. RemoveAt(s, k) = a \o << >>
    BY <1>1, <1>2, <1>3 DEF RemoveAt
  <1>5. a \o << >> = a
    BY ConcatEmptySeq DEF Lists
  <1>6. k \in DOMAIN s
    BY <1>1
  <1> QED  BY <1>4, <1>5, <1>6 DEF Without, Cat, Single

\* A list that loses an item loses it with another list behind it as well.
LEMMA WithoutCat ==
    ASSUME NEW S, NEW a \in Lists(S), NEW b \in Lists(S), NEW c \in Lists(S), Without(a, c)
    PROVE  Without(Cat(a, b), Cat(c, b))
  <1>1. PICK n \in DOMAIN a : c = RemoveAt(a, n)
    BY DEF Without
  <1> DEFINE s == a \o b  p == SubSeq(a, 1, n - 1)  q == SubSeq(a, n + 1, Len(a))
             r == SubSeq(s, n + 1, Len(s))
  <1>2. /\ a \in Seq(S) /\ b \in Seq(S) /\ s \in Seq(S) /\ Len(s) = Len(a) + Len(b)
        /\ Len(a) \in Nat /\ Len(b) \in Nat /\ n \in 1 .. Len(a)
        /\ \A i \in 1 .. Len(a) + Len(b) : s[i] = IF i <= Len(a) THEN a[i] ELSE b[i - Len(a)]
    BY <1>1, ConcatProperties DEF Lists
  <1> HIDE DEF s
  <1>3. SubSeq(s, 1, n - 1) = p /\ p \in Seq(S)
    BY <1>2
  <1>4. /\ r \in Seq(S) /\ Len(r) = Len(a) + Len(b) - n
        /\ \A i \in 1 .. Len(r) : r[i] = s[i + n]
    <2>1. n + 1 \in Int /\ Len(s) \in Int /\ \A i \in n + 1 .. Len(s) : s[i] \in S
      BY <1>2
    <2>2. /\ r \in Seq(S)
          /\ Len(r) = IF n + 1 <= Len(s) THEN Len(s) - (n + 1) + 1 ELSE 0
          /\ \A i \in 1 .. Len(s) - (n + 1) + 1 : r[i] = s[(n + 1) + i - 1]
      BY <2>1, SubSeqProperties
    <2>3. Len(r) = Len(a) + Len(b) - n /\ Len(s) - (n + 1) + 1 = Len(r)
      BY <1>2, <2>2
    <2>4. ASSUME NEW i \in 1 .. Len(r)  PROVE r[i] = s[i + n]
      <3>1. (n + 1) + i - 1 = i + n
        BY <1>2
      <3> QED  BY <2>2, <2>3, <3>1
    <2> QED  BY <2>2, <2>3, <2>4
  <1>5. /\ q \in Seq(S) /\ Len(q) = Len(a) - n
        /\ \A i \in 1 .. Len(q) : q[i] = a[i + n]
    BY <1>2
  <1> HIDE DEF p, q, r
  <1>6. /\ q \o b \in Seq(S) /\ Len(q \o b) = Len(q) + Len(b)
        /\ \A i \in 1 .. Len(q) + Len(b) :
             (q \o b)[i] = IF i <= Len(q) THEN q[i] ELSE b[i - Len(q)]
    BY <1>2, <1>5, ConcatProperties
  <1>7. ASSUME NEW i \in 1 .. Len(r)  PROVE r[i] = (q \o b)[i]
    <2>1. i \in 1 .. Len(q) + Len(b) /\ i + n \in 1 .. Len(a) + Len(b)
      BY <1>2, <1>4, <1>5
    <2>2. CASE i <= Len(q)
      <3>1. i \in 1 .. Len(q) /\ i + n <= Len(a)
        BY <1>2, <1>5, <2>1, <2>2
      <3>2. r[i] = s[i + n] /\ q[i] = a[i + n]
        BY <1>4, <1>5, <3>1
      <3>3. s[i + n] = a[i + n]
        BY <1>2, <2>1, <3>1
      <3>4. (q \o b)[i] = q[i]
        BY <1>6, <2>1, <2>2
      <3> QED  BY <3>2, <3>3, <3>4
    <2>3. CASE ~ (i <= Len(q))
      <3>1. ~ (i + n <= Len(a)) /\ i + n - Len(a) = i - Len(q)
        <4>1. i \in Int /\ n \in Int /\ Len(a) \in Int /\ Len(q) = Len(a) - n
          BY <1>2, <1>5, <2>1
        <4> QED  BY <2>3, <4>1
      <3>2. r[i] = b[i + n - Len(a)] /\ (q \o b)[i] = b[i - Len(q)]
        <4>1. s[i + n] = b[i + n - Len(a)]
          BY <1>2, <2>1, <3>1
        <4>2. (q \o b)[i] = b[i - Len(q)]
          BY <1>6, <2>1, <2>3
        <4> QED  BY <1>4, <4>1, <4>2
      <3> QED  BY <3>1, <3>2
    <2> QED  BY <2>2, <2>3
  <1>8. Len(r) = Len(q \o b)
    BY <1>2, <1>4, <1>5, <1>6
  <1>9. r = q \o b
    BY <1>4, <1>6, <1>7, <1>8, SeqEqual
  <1>10. p \o (q \o b) = (p \o q) \o b
    <2>1. p \in Lists(S) /\ q \in Lists(S) /\ b \in Lists(S)
      BY <1>2, <1>3, <1>5 DEF Lists
    <2>2. Cat(Cat(p, q), b) = Cat(p, Cat(q, b))
      BY <2>1, CatAssociative
    <2> QED  BY <2>2 DEF Cat
  <1>11. RemoveAt(s, n) = (p \o q) \o b
    BY <1>3, <1>9, <1>10 DEF RemoveAt, r
  <1>12. c = p \o q /\ n \in DOMAIN s
    BY <1>1, <1>2 DEF RemoveAt, p, q
  <1> QED  BY <1>11, <1>12 DEF Without, Cat, s

-----------------------------------------------------------------------------
\* The images of a list's members under a function.
Images(f, s) == [i \in DOMAIN s |-> f[s[i]]]

\* There are as many, each of the member at its place.
LEMMA ImagesAt ==
    ASSUME NEW S, NEW f, NEW s \in Lists(S)
    PROVE  /\ Len(Images(f, s)) = Len(s)
           /\ DOMAIN Images(f, s) = 1 .. Len(s)
           /\ \A i \in 1 .. Len(s) : Images(f, s)[i] = f[s[i]]
           /\ Images(f, s) = None <=> s = None
  <1> USE DEF Lists, None
  <1>1. Len(s) \in Nat /\ DOMAIN s = 1 .. Len(s)
    OBVIOUS
  <1>2. /\ DOMAIN Images(f, s) = 1 .. Len(s)
        /\ \A i \in 1 .. Len(s) : Images(f, s)[i] = f[s[i]]
    BY <1>1 DEF Images
  <1>3. Images(f, s) \in Seq({f[s[i]] : i \in 1 .. Len(s)}) /\ Len(Images(f, s)) = Len(s)
    <2>1. Images(f, s) \in [1 .. Len(s) -> {f[s[i]] : i \in 1 .. Len(s)}]
      BY <1>1 DEF Images
    <2> QED  BY <1>1, <2>1
  <1>4. Images(f, s) = << >> <=> s = << >>
    BY <1>1, <1>3, EmptySeq
  <1> QED  BY <1>2, <1>3, <1>4

\* They are members of the function's range.
LEMMA ImagesType ==
    ASSUME NEW S, NEW T, NEW f \in [S -> T], NEW s \in Lists(S)
    PROVE  Images(f, s) \in Lists(T)
  <1> USE DEF Lists
  <1>1. Len(s) \in Nat /\ DOMAIN s = 1 .. Len(s) /\ \A i \in 1 .. Len(s) : s[i] \in S
    OBVIOUS
  <1>2. Images(f, s) \in [1 .. Len(s) -> T]
    BY <1>1 DEF Images
  <1> QED  BY <1>1, <1>2

\* A member more is an image more.
LEMMA ImagesAppend ==
    ASSUME NEW S, NEW T, NEW f \in [S -> T], NEW s \in Lists(S), NEW x \in S
    PROVE  Images(f, Put(s, x)) = Put(Images(f, s), f[x])
  <1> USE DEF Lists
  <1> DEFINE r == Append(s, x)
  <1>1. /\ r \in Seq(S) /\ Len(r) = Len(s) + 1 /\ Len(s) \in Nat
        /\ \A i \in 1 .. Len(s) : r[i] = s[i]
        /\ r[Len(s) + 1] = x
    OBVIOUS
  <1> HIDE DEF r
  <1>3. /\ Images(f, r) \in Seq(T) /\ Len(Images(f, r)) = Len(s) + 1
        /\ \A i \in 1 .. Len(r) : Images(f, r)[i] = f[r[i]]
    BY <1>1, ImagesType, ImagesAt
  <1>2. Images(f, s) \in Seq(T)
    BY ImagesType
  <1>4. /\ Images(f, s) \in Seq(T) /\ Len(Images(f, s)) = Len(s)
        /\ \A i \in 1 .. Len(s) : Images(f, s)[i] = f[s[i]]
    BY <1>2, ImagesAt
  <1>5. /\ Append(Images(f, s), f[x]) \in Seq(T)
        /\ Len(Append(Images(f, s), f[x])) = Len(s) + 1
        /\ \A i \in 1 .. Len(s) : Append(Images(f, s), f[x])[i] = f[s[i]]
        /\ Append(Images(f, s), f[x])[Len(s) + 1] = f[x]
    BY <1>4, AppendProperties
  <1>6. \A i \in 1 .. Len(s) + 1 : Images(f, r)[i] = Append(Images(f, s), f[x])[i]
    BY <1>1, <1>3, <1>5
  <1>7. Images(f, r) = Append(Images(f, s), f[x])
    BY <1>3, <1>5, <1>6, SeqEqual
  <1> QED  BY <1>7 DEF r, Put

\* The first member's image is the first, and the others' the others.
LEMMA ImagesTail ==
    ASSUME NEW S, NEW T, NEW f \in [S -> T], NEW s \in Lists(S), s # None
    PROVE  /\ Images(f, Rest(s)) = Rest(Images(f, s))
           /\ First(Images(f, s)) = f[First(s)]
           /\ First(s) = s[1] /\ 1 \in 1 .. Len(s)
  <1> USE DEF Lists, None
  <1> DEFINE t == Tail(s)
  <1>1. /\ t \in Seq(S) /\ Len(t) = Len(s) - 1 /\ Len(s) \in Nat \ {0} /\ Head(s) = s[1]
    OBVIOUS
  <1>2. \A i \in 1 .. Len(t) : t[i] = s[i + 1] /\ i + 1 \in 1 .. Len(s)
    OBVIOUS
  <1> HIDE DEF t
  <1> DEFINE m == Images(f, s)
  <1>3. /\ m \in Seq(T) /\ Len(m) = Len(s) /\ m # << >>
        /\ \A i \in 1 .. Len(s) : m[i] = f[s[i]]
    BY ImagesType, ImagesAt
  <1>4. /\ Images(f, t) \in Seq(T) /\ Len(Images(f, t)) = Len(t)
        /\ \A i \in 1 .. Len(t) : Images(f, t)[i] = f[t[i]]
    BY <1>1, ImagesType, ImagesAt
  <1> HIDE DEF m
  <1>6. /\ Tail(m) \in Seq(T) /\ Len(Tail(m)) = Len(m) - 1
        /\ \A i \in 1 .. Len(Tail(m)) : Tail(m)[i] = m[i + 1]
        /\ Head(m) = m[1]
    BY <1>3
  <1>7. \A i \in 1 .. Len(t) : Images(f, t)[i] = Tail(m)[i]
    BY <1>1, <1>2, <1>3, <1>4, <1>6
  <1>8. Images(f, t) = Tail(m)
    BY <1>1, <1>3, <1>4, <1>6, <1>7, SeqEqual
  <1>9. Head(m) = f[Head(s)] /\ 1 \in 1 .. Len(s)
    BY <1>1, <1>3, <1>6
  <1> QED  BY <1>1, <1>8, <1>9 DEF t, m, First, Rest

\* What a function does elsewhere does not matter.
LEMMA ImagesSame ==
    ASSUME NEW S, NEW f, NEW g, NEW s \in Lists(S),
           \A i \in 1 .. Len(s) : f[s[i]] = g[s[i]]
    PROVE  Images(f, s) = Images(g, s)
  BY DEF Images, Lists

-----------------------------------------------------------------------------
\* An item that is in a list in one place is removed from there.
LEMMA RemoveFirstAt ==
    ASSUME NEW S, NEW s \in Seq(S), NEW n \in 1 .. Len(s),
           \A i \in 1 .. Len(s) : s[i] = s[n] => n <= i
    PROVE  RemoveFirst(s, s[n]) = RemoveAt(s, n)
  <1> DEFINE I == {i \in 1 .. Len(s) : s[i] = s[n]}
  <1>1. n \in I /\ I \subseteq Nat /\ \A i \in I : n <= i
    OBVIOUS
  <1>2. Min(I) = n
    <2>1. \A m \in I : (\A i \in I : m <= i) => m = n
      BY <1>1
    <2> HIDE DEF I
    <2> QED  BY <1>1, <2>1 DEF Min
  <1>3. SelectInSeq(s, LAMBDA v : v = s[n]) = Min(I)
    BY <1>1 DEF SelectInSeq
  <1>4. \E i \in 1 .. Len(s) : s[i] = s[n]
    OBVIOUS
  <1> HIDE DEF I
  <1> QED  BY <1>2, <1>3, <1>4 DEF RemoveFirst

\* The first item of a list is removed.
LEMMA RemoveHead ==
    ASSUME NEW S, NEW x \in S, NEW b \in Lists(S)
    PROVE  RemoveFirst(Cat(Single(x), b), x) = b
  <1> DEFINE s == <<x>> \o b
  <1>1. /\ s \in Seq(S) /\ Len(s) = 1 + Len(b) /\ Len(b) \in Nat
        /\ \A i \in 1 .. 1 + Len(b) : s[i] = IF i <= 1 THEN <<x>>[i] ELSE b[i - 1]
    BY OneList, ConcatProperties DEF Lists
  <1>2. 1 \in 1 .. Len(s) /\ s[1] = x
    BY <1>1
  <1>3. RemoveFirst(s, x) = RemoveAt(s, 1)
    <2>1. \A i \in 1 .. Len(s) : s[i] = s[1] => 1 <= i
      OBVIOUS
    <2> HIDE DEF s
    <2>2. RemoveFirst(s, s[1]) = RemoveAt(s, 1)
      BY <1>1, <1>2, <2>1, RemoveFirstAt
    <2> QED  BY <1>2, <2>2
  <1>4. RemoveAt(s, 1) = b
    <2>1. s # << >> /\ Tail(s) = b
      <3>1. <<x>> \in Seq(S) /\ <<x>> # << >> /\ Tail(<<x>>) = << >> /\ b \in Seq(S)
        BY OneList DEF Lists
      <3>2. s # << >> /\ Tail(s) = << >> \o b
        BY <3>1, HeadOfConcat
      <3> QED  BY <3>1, <3>2, ConcatEmptySeq
    <2> HIDE DEF s
    <2>2. SubSeq(s, 1, 1 - 1) = << >>
      BY <1>1
    <2>3. SubSeq(s, 1 + 1, Len(s)) = Tail(s)
      BY <1>1, <2>1, TailIsSubSeq
    <2>4. RemoveAt(s, 1) = << >> \o b
      BY <2>1, <2>2, <2>3 DEF RemoveAt
    <2> QED  BY <2>4, ConcatEmptySeq DEF Lists
  <1> QED  BY <1>3, <1>4 DEF Cat, Single

\* No item is twice in a list.
Distinct(s) == \A i, j \in 1 .. Len(s) : s[i] = s[j] => i = j

\* The last item of a list without repetitions is removed.
LEMMA RemoveLast ==
    ASSUME NEW S, NEW a \in Lists(S), NEW x \in S, Distinct(Cat(a, Single(x)))
    PROVE  RemoveFirst(Cat(a, Single(x)), x) = a
  <1> DEFINE s == a \o <<x>>  k == Len(a) + 1
  <1>1. /\ s \in Seq(S) /\ Len(s) = k /\ Len(a) \in Nat
        /\ \A i \in 1 .. Len(a) : s[i] = a[i]
        /\ s[k] = x
    BY OneList, ConcatProperties DEF Lists
  <1>2. k \in 1 .. Len(s) /\ \A i \in 1 .. Len(s) : s[i] = s[k] => k = i
    BY <1>1 DEF Distinct, Cat, Single
  <1>3. SubSeq(s, 1, Len(a)) = a
    BY <1>1 DEF Lists
  <1>4. SubSeq(s, k + 1, Len(s)) = << >>
    BY <1>1
  <1> HIDE DEF s
  <1>5. RemoveFirst(s, s[k]) = RemoveAt(s, k)
    BY <1>1, <1>2, RemoveFirstAt
  <1>6. RemoveAt(s, k) = a \o << >>
    BY <1>1, <1>3, <1>4 DEF RemoveAt
  <1>7. a \o << >> = a
    BY ConcatEmptySeq DEF Lists
  <1> QED  BY <1>1, <1>5, <1>6, <1>7 DEF Cat, Single, s

\* A part of a list without repetitions has none either.
LEMMA DistinctParts ==
    ASSUME NEW S, NEW a \in Lists(S), NEW b \in Lists(S), Distinct(Cat(a, b))
    PROVE  Distinct(a) /\ Distinct(b)
  <1> DEFINE s == a \o b
  <1>1. /\ s \in Seq(S) /\ Len(s) = Len(a) + Len(b) /\ Len(a) \in Nat /\ Len(b) \in Nat
        /\ \A i \in 1 .. Len(a) + Len(b) : s[i] = IF i <= Len(a) THEN a[i] ELSE b[i - Len(a)]
    BY ConcatProperties DEF Lists
  <1>2. \A i, j \in 1 .. Len(s) : s[i] = s[j] => i = j
    BY DEF Distinct, Cat
  <1> HIDE DEF s
  <1>3. ASSUME NEW i \in 1 .. Len(a), NEW j \in 1 .. Len(a), a[i] = a[j]  PROVE i = j
    BY <1>1, <1>2, <1>3
  <1>4. ASSUME NEW i \in 1 .. Len(b), NEW j \in 1 .. Len(b), b[i] = b[j]  PROVE i = j
    <2>1. /\ i + Len(a) \in 1 .. Len(s) /\ j + Len(a) \in 1 .. Len(s)
          /\ ~ (i + Len(a) <= Len(a)) /\ ~ (j + Len(a) <= Len(a))
          /\ i + Len(a) - Len(a) = i /\ j + Len(a) - Len(a) = j
      BY <1>1
    <2>2. s[i + Len(a)] = b[i] /\ s[j + Len(a)] = b[j]
      BY <1>1, <2>1
    <2>3. i + Len(a) = j + Len(a)
      BY <1>2, <1>4, <2>1, <2>2
    <2> QED  BY <1>1, <2>3
  <1> QED  BY <1>3, <1>4 DEF Distinct

\* An item that is not in a list may be put behind it.
LEMMA DistinctPut ==
    ASSUME NEW S, NEW a \in Lists(S), NEW x \in S, Distinct(a), x \notin Range(a)
    PROVE  Distinct(Put(a, x))
  <1> DEFINE r == Append(a, x)
  <1>1. /\ Len(r) = Len(a) + 1 /\ Len(a) \in Nat
        /\ \A i \in 1 .. Len(a) : r[i] = a[i] /\ a[i] # x
        /\ r[Len(a) + 1] = x
    BY DEF Range, Lists
  <1> HIDE DEF r
  <1>2. \A i, j \in 1 .. Len(r) : r[i] = r[j] => i = j
    BY <1>1 DEF Distinct
  <1> QED  BY <1>2 DEF Distinct, Put, r

=============================================================================
