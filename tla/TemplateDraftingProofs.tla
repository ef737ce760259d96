----------------------- MODULE TemplateDraftingProofs -----------------------
(***************************************************************************)
(* Proofs about rendering: whatever an author composes, of however many    *)
(* segments, renders to what was meant, whatever the data supplied.        *)
(***************************************************************************)
EXTENDS TemplateDrafting, CharactersProofs

-----------------------------------------------------------------------------
(* Texts, one after the other. *)

\* One step of the recursion that joins them.
NextJoined(texts, f, n) == IF n = 0 THEN <<>> ELSE f[n - 1] \o texts[n]

\* The recursion has a solution up to every position.
LEMMA JoinedExist ==
    ASSUME NEW texts, NEW m \in Nat
    PROVE  \E f : f = [n \in 0..m |-> NextJoined(texts, f, n)]
<1> DEFINE Solved(k) == \E f : f = [n \in 0..k |-> NextJoined(texts, f, n)]
           T == {k \in Nat : ~Solved(k)}
<1> SUFFICES ASSUME T # {}  PROVE FALSE
  OBVIOUS
<1>1. PICK k \in T : \A j \in T : k <= j
  BY LeastNatural
<1>2. CASE k = 0
  <2> DEFINE f == [n \in 0..0 |-> <<>>]
  <2>1. f = [n \in 0..0 |-> NextJoined(texts, f, n)]
    BY DEF NextJoined
  <2>2. Solved(0)
    BY <2>1
  <2> QED BY <1>2, <2>2
<1>3. CASE k # 0
  <2>1. k - 1 \in Nat /\ k - 1 \notin T /\ k \in Nat
    BY <1>1, <1>3
  <2>2. PICK f : f = [n \in 0..(k - 1) |-> NextJoined(texts, f, n)]
    BY <2>1
  <2> DEFINE g == [n \in 0..k |-> IF n = k THEN NextJoined(texts, f, k) ELSE f[n]]
  <2>3. ASSUME NEW n \in 0..k  PROVE g[n] = NextJoined(texts, g, n)
    <3>1. CASE n = k
      BY <1>3, <2>1, <3>1 DEF NextJoined
    <3>2. CASE n # k
      <4>1. f[n] = NextJoined(texts, f, n)
        BY <2>1, <2>2, <3>2
      <4>2. n = 0 \/ g[n - 1] = f[n - 1]
        BY <2>1, <3>2
      <4> QED BY <2>1, <3>2, <4>1, <4>2 DEF NextJoined
    <3> QED BY <3>1, <3>2
  <2>4. g = [n \in 0..k |-> NextJoined(texts, g, n)]
    BY <2>3
  <2> QED BY <1>1, <2>4
<1> QED BY <1>2, <1>3

\* JoinedUpTo is the solution of its recursion.
LEMMA JoinedStep ==
    ASSUME NEW texts, Len(texts) \in Nat
    PROVE  /\ JoinedUpTo(texts)[0] = <<>>
           /\ \A n \in 1..Len(texts) :
                 JoinedUpTo(texts)[n] = JoinedUpTo(texts)[n - 1] \o texts[n]
<1> DEFINE Solves(f) == f = [n \in 0..Len(texts) |-> NextJoined(texts, f, n)]
           j == JoinedUpTo(texts)
<1>1. j = CHOOSE f : Solves(f)
  BY DEF JoinedUpTo, NextJoined
<1>2. \E f : Solves(f)
  BY JoinedExist
<1> HIDE DEF Solves, j
<1>3. Solves(j)
  BY <1>1, <1>2
<1>4. j = [n \in 0..Len(texts) |-> NextJoined(texts, j, n)]
  BY <1>3 DEF Solves
<1>5. \A n \in 0..Len(texts) : j[n] = NextJoined(texts, j, n)
  BY <1>4
<1>6. j[0] = <<>>
  BY <1>5 DEF NextJoined
<1>7. ASSUME NEW n \in 1..Len(texts)  PROVE j[n] = j[n - 1] \o texts[n]
  <2>1. n \in 0..Len(texts) /\ n # 0
    OBVIOUS
  <2>2. j[n] = NextJoined(texts, j, n)
    BY <1>5, <2>1
  <2> QED BY <2>1, <2>2, Zenon DEF NextJoined
<1> QED BY <1>6, <1>7 DEF j

\* What is joined are texts again.
LEMMA JoinedType ==
    ASSUME NEW C, NEW texts \in Seq(Seq(C))
    PROVE  \A n \in 0..Len(texts) : JoinedUpTo(texts)[n] \in Seq(C)
<1> DEFINE T == {n \in Nat : n <= Len(texts) /\ JoinedUpTo(texts)[n] \notin Seq(C)}
<1>0. Len(texts) \in Nat
  OBVIOUS
<1> SUFFICES ASSUME T # {}  PROVE FALSE
  BY <1>0
<1>1. PICK n \in T : \A k \in T : n <= k
  BY LeastNatural
<1>2. n \in Nat /\ n <= Len(texts) /\ JoinedUpTo(texts)[n] \notin Seq(C)
  BY <1>1
<1>3. n # 0
  <2>1. JoinedUpTo(texts)[0] = <<>>
    BY <1>0, JoinedStep, Zenon
  <2>2. <<>> \in Seq(C)
    OBVIOUS
  <2> QED BY <1>2, <2>1, <2>2
<1>4. n - 1 \in Nat /\ n - 1 \notin T /\ n - 1 <= Len(texts) /\ n \in 1..Len(texts)
  BY <1>0, <1>1, <1>2, <1>3
<1>5. JoinedUpTo(texts)[n - 1] \in Seq(C) /\ texts[n] \in Seq(C)
  BY <1>4
<1>6. JoinedUpTo(texts)[n] = JoinedUpTo(texts)[n - 1] \o texts[n]
  BY <1>0, <1>4, JoinedStep
<1> QED BY <1>2, <1>5, <1>6, ConcatProperties

\* Where the n-th of the texts begins in what they are joined to.
Start(texts, n) == Len(JoinedUpTo(texts)[n - 1]) + 1

\* Nothing that follows changes what is joined so far.
Opening(l, t) == Len(l) <= Len(t) /\ \A k \in 1..Len(l) : t[k] = l[k]

\* What the first n texts are joined to opens what all of them are.
LEMMA JoinedOpens ==
    ASSUME NEW C, NEW texts \in Seq(Seq(C)), NEW n \in 0..Len(texts)
    PROVE  Opening(JoinedUpTo(texts)[n], Joined(texts))
<1> DEFINE T == {q \in Nat : n <= q /\ q <= Len(texts)
                              /\ ~Opening(JoinedUpTo(texts)[n], JoinedUpTo(texts)[q])}
<1>0. Len(texts) \in Nat /\ n \in Nat /\ n <= Len(texts)
  OBVIOUS
<1> SUFFICES ASSUME T # {}  PROVE FALSE
  BY <1>0 DEF Joined
<1>1. PICK q \in T : \A p \in T : q <= p
  BY LeastNatural
<1>2. /\ q \in Nat /\ n <= q /\ q <= Len(texts)
      /\ ~Opening(JoinedUpTo(texts)[n], JoinedUpTo(texts)[q])
  BY <1>1
<1>3. PICK l \in Seq(C) : l = JoinedUpTo(texts)[n]
  BY JoinedType
<1>4. q # n
  <2>1. Opening(l, l)
    <3>1. Len(l) \in Nat
      OBVIOUS
    <3> QED BY <3>1 DEF Opening
  <2> QED BY <1>2, <1>3, <2>1
<1>5. q - 1 \in Nat /\ n <= q - 1 /\ q - 1 <= Len(texts) /\ q - 1 \notin T /\ q \in 1..Len(texts)
  <2>1. q - 1 \in Nat /\ n <= q - 1 /\ q - 1 <= Len(texts) /\ q \in 1..Len(texts) /\ ~(q <= q - 1)
    BY <1>0, <1>2, <1>4
  <2> QED BY <1>1, <2>1
<1>6. PICK u \in Seq(C) : u = JoinedUpTo(texts)[q - 1]
  <2>1. q - 1 \in 0..Len(texts)
    BY <1>0, <1>5
  <2> QED BY <2>1, JoinedType
<1>7. Opening(l, u)
  BY <1>3, <1>5, <1>6
<1>8. PICK r \in Seq(C) : r = texts[q]
  BY <1>5
<1>9. PICK t : t = JoinedUpTo(texts)[q] /\ t = u \o r
  BY <1>0, <1>5, <1>6, <1>8, JoinedStep, Zenon
<1>10. /\ Len(u) \in Nat /\ Len(r) \in Nat /\ Len(t) = Len(u) + Len(r)
       /\ \A k \in 1..Len(u) : t[k] = u[k]
  BY <1>9, ConcatParts
<1>11. Opening(l, t)
  <2>1. Len(l) \in Nat
    OBVIOUS
  <2> QED BY <1>7, <1>10, <2>1 DEF Opening
<1> QED BY <1>2, <1>3, <1>9, <1>11

\* r stands in t from position p on.
StandsAt(r, t, p) == p + Len(r) <= Len(t) + 1 /\ \A k \in 1..Len(r) : t[p + k - 1] = r[k]

\* The second of two texts, in what opens with both.
LEMMA SecondPart ==
    ASSUME NEW C, NEW l \in Seq(C), NEW r \in Seq(C), NEW t \in Seq(C),
           NEW v, v = l \o r, Opening(v, t), NEW p, p = Len(l) + 1
    PROVE  p \in Nat \ {0} /\ Len(v) + 1 = p + Len(r) /\ StandsAt(r, t, p)
<1>2. /\ Len(l) \in Nat /\ Len(r) \in Nat /\ Len(v) = Len(l) + Len(r)
      /\ \A k \in 1..Len(r) : v[Len(l) + k] = r[k]
  BY ConcatParts
<1>3. Len(v) <= Len(t) /\ \A k \in 1..Len(v) : t[k] = v[k]
  BY Zenon DEF Opening
<1>4. ASSUME NEW k \in 1..Len(r)  PROVE t[p + k - 1] = r[k]
  <2>1. PICK i \in 1..Len(v) : i = Len(l) + k
    BY <1>2
  <2>2. p + k - 1 = i
    BY <1>2, <2>1
  <2> QED BY <1>2, <1>3, <2>1, <2>2
<1>5. p \in Nat \ {0} /\ p + Len(r) <= Len(t) + 1 /\ Len(v) + 1 = p + Len(r)
  BY <1>2, <1>3
<1> QED BY <1>4, <1>5 DEF StandsAt

\* The texts stand in their order, each ending where the next begins.
LEMMA JoinedParts ==
    ASSUME NEW C, NEW texts \in Seq(Seq(C)), NEW n \in 1..Len(texts)
    PROVE  /\ Start(texts, n) \in Nat \ {0}
           /\ Start(texts, n + 1) = Start(texts, n) + Len(texts[n])
           /\ StandsAt(texts[n], Joined(texts), Start(texts, n))
<1>0. Len(texts) \in Nat /\ n \in Nat /\ n - 1 \in 0..Len(texts) /\ n \in 0..Len(texts)
  OBVIOUS
<1>1. PICK l \in Seq(C) : l = JoinedUpTo(texts)[n - 1]
  BY <1>0, JoinedType
<1>2. PICK r \in Seq(C) : r = texts[n]
  OBVIOUS
<1>3. PICK t \in Seq(C) : t = Joined(texts)
  BY <1>0, JoinedType DEF Joined
<1>4. PICK v : v = JoinedUpTo(texts)[n] /\ v = l \o r
  BY <1>0, <1>1, <1>2, JoinedStep, Zenon
<1>5. Opening(v, t)
  BY <1>0, <1>3, <1>4, JoinedOpens
<1>6. PICK p : p = Start(texts, n) /\ p = Len(l) + 1
  BY <1>1 DEF Start
<1>7. Start(texts, n + 1) = Len(v) + 1
  <2>1. (n + 1) - 1 = n
    BY <1>0
  <2> QED BY <1>4, <2>1 DEF Start
<1>8. p \in Nat \ {0} /\ Len(v) + 1 = p + Len(r) /\ StandsAt(r, t, p)
  BY <1>4, <1>5, <1>6, SecondPart
<1> QED BY <1>2, <1>3, <1>6, <1>7, <1>8

-----------------------------------------------------------------------------
(* One step of render. *)

\* The first opening pair from i on, and the first pair that closes it.
Opened(t, i) == Leftmost(Pairs(t, "{", i))
Closed(t, i) == CloseFirst(t, Opened(t, i))

\* Is there a placeholder from i on?
Holed(t, i) == Pairs(t, "{", i) # {} /\ Pairs(t, "}", Opened(t, i) + 2) # {}

Hole(t, i, data) == ValueOf(data, Trim(SubSeq(t, Opened(t, i) + 2, Closed(t, i) - 1)))

\* The text before the next placeholder, its value, and what f has for the rest.
NextRender(t, data, f, i) ==
    IF ~Holed(t, i) THEN SubSeq(t, i, Len(t))
      ELSE SubSeq(t, i, Opened(t, i) - 1) \o Hole(t, i, data) \o f[Closed(t, i) + 2]

\* There is a leftmost position, and none is left of it.
LEMMA LeftmostIsFirst ==
    ASSUME NEW P \in SUBSET Nat, P # {}
    PROVE  Leftmost(P) \in P /\ \A k \in P : Leftmost(P) <= k
<1>1. \E m \in P : \A k \in P : m <= k
  BY LeastNatural
<1> QED BY <1>1 DEF Leftmost

\* It is the first of them that is found.
LEMMA LeftmostOf ==
    ASSUME NEW P \in SUBSET Nat, NEW m \in P, \A k \in P : m <= k
    PROVE  Leftmost(P) = m
<1>1. PICK l \in Nat : l = Leftmost(P) /\ l \in P /\ \A k \in P : l <= k
  BY LeftmostIsFirst
<1>2. l <= m /\ m <= l /\ m \in Nat
  BY <1>1
<1> QED BY <1>1, <1>2

\* Pairs of braces stand within the text.
LEMMA PairsBounds ==
    ASSUME NEW t, NEW c, NEW i \in Nat, Len(t) \in Nat
    PROVE  /\ Pairs(t, c, i) \in SUBSET Nat
           /\ \A k \in Pairs(t, c, i) : k \in Nat /\ i <= k /\ k + 1 <= Len(t)
<1>1. PICK m \in Nat : m = Len(t)
  OBVIOUS
<1>2. ASSUME NEW k \in Pairs(t, c, i)  PROVE k \in Nat /\ i <= k /\ k + 1 <= m
  <2>1. k \in i..(m - 1)
    BY <1>1 DEF Pairs
  <2> QED BY <2>1
<1> QED BY <1>1, <1>2

\* A placeholder from i on opens there or later, closes after that, and within t.
LEMMA HoleBounds ==
    ASSUME NEW t, NEW i \in Nat, Len(t) \in Nat, Holed(t, i)
    PROVE  /\ Opened(t, i) \in Nat /\ Closed(t, i) \in Nat
           /\ i <= Opened(t, i) /\ Opened(t, i) + 2 <= Closed(t, i)
           /\ Closed(t, i) + 1 <= Len(t)
<1>1. Pairs(t, "{", i) \in SUBSET Nat /\ Pairs(t, "{", i) # {}
  BY PairsBounds DEF Holed
<1>2. PICK a : a = Opened(t, i) /\ a \in Pairs(t, "{", i)
  BY <1>1, LeftmostIsFirst DEF Opened
<1>3. a \in Nat /\ i <= a
  BY <1>2, PairsBounds
<1>b. a + 2 \in Nat
  BY <1>3
<1>4. Pairs(t, "}", a + 2) \in SUBSET Nat /\ Pairs(t, "}", a + 2) # {}
  BY <1>2, <1>b, PairsBounds DEF Holed
<1>5. PICK b : b = Closed(t, i) /\ b \in Pairs(t, "}", a + 2)
  BY <1>2, <1>4, LeftmostIsFirst DEF Closed, CloseFirst
<1>6. b \in Nat /\ a + 2 <= b /\ b + 1 <= Len(t)
  BY <1>b, <1>5, PairsBounds
<1> QED BY <1>2, <1>3, <1>5, <1>6

\* The recursion has a solution from every position on.
LEMMA RenderExists ==
    ASSUME NEW t, Len(t) \in Nat, NEW data, NEW n \in 1..(Len(t) + 3)
    PROVE  \E f : f = [i \in n..(Len(t) + 2) |-> NextRender(t, data, f, i)]
<1> DEFINE Solved(k) == \E f : f = [i \in k..(Len(t) + 2) |-> NextRender(t, data, f, i)]
           T == {k \in 1..(Len(t) + 3) : ~Solved(k)}
<1> SUFFICES ASSUME T # {}  PROVE FALSE
  OBVIOUS
<1>0. Len(t) + 3 \in Nat /\ T \in SUBSET (1..(Len(t) + 3))
  OBVIOUS
<1>1. PICK k \in T : \A j \in T : k >= j
  BY <1>0, GreatestPosition
<1>2. k \in Nat \ {0} /\ k <= Len(t) + 3 /\ ~Solved(k)
  BY <1>1
<1>3. k # Len(t) + 3
  <2> DEFINE f == [i \in (Len(t) + 3)..(Len(t) + 2) |-> <<>>]
  <2>1. f = [i \in (Len(t) + 3)..(Len(t) + 2) |-> NextRender(t, data, f, i)]
    OBVIOUS
  <2>2. Solved(Len(t) + 3)
    BY <2>1
  <2> QED BY <1>2, <2>2
<1>4. k + 1 \in 1..(Len(t) + 3) /\ ~(k >= k + 1)
  BY <1>2, <1>3
<1>5. PICK f : f = [i \in (k + 1)..(Len(t) + 2) |-> NextRender(t, data, f, i)]
  BY <1>1, <1>4
<1> DEFINE g == [i \in k..(Len(t) + 2) |-> IF i = k THEN NextRender(t, data, f, k) ELSE f[i]]
<1>6. ASSUME NEW i \in k..(Len(t) + 2)
      PROVE  NextRender(t, data, g, i) = NextRender(t, data, f, i)
  <2>1. CASE Holed(t, i)
    <3>1. i \in Nat
      BY <1>2
    <3>2. Closed(t, i) + 2 \in k..(Len(t) + 2) /\ Closed(t, i) + 2 # k
      BY <1>2, <2>1, <3>1, HoleBounds
    <3>3. g[Closed(t, i) + 2] = f[Closed(t, i) + 2]
      BY <3>2
    <3> HIDE DEF g
    <3> QED BY <3>3 DEF NextRender
  <2>2. CASE ~Holed(t, i)
    BY <2>2 DEF NextRender
  <2> QED BY <2>1, <2>2
<1>7. ASSUME NEW i \in k..(Len(t) + 2)  PROVE g[i] = NextRender(t, data, g, i)
  <2>1. CASE i = k
    <3>1. g[i] = NextRender(t, data, f, i)
      BY <2>1
    <3> QED BY <1>6, <3>1
  <2>2. CASE i # k
    <3>1. i \in (k + 1)..(Len(t) + 2)
      BY <1>2, <2>2
    <3>2. g[i] = f[i] /\ f[i] = NextRender(t, data, f, i)
      BY <1>5, <2>2, <3>1
    <3> QED BY <1>6, <3>2
  <2> QED BY <2>1, <2>2
<1>8. g = [i \in k..(Len(t) + 2) |-> NextRender(t, data, g, i)]
  BY <1>7
<1> QED BY <1>2, <1>8

\* RenderFrom is the solution of its recursion.
LEMMA RenderStep ==
    ASSUME NEW t, Len(t) \in Nat, NEW data, NEW i \in 1..(Len(t) + 2)
    PROVE  RenderFrom(t, data)[i] = NextRender(t, data, RenderFrom(t, data), i)
<1> DEFINE Solves(f) == f = [n \in 1..(Len(t) + 2) |-> NextRender(t, data, f, n)]
           r == RenderFrom(t, data)
<1>1. r = CHOOSE f : Solves(f)
  <2> DEFINE Body(f, n) ==
               IF Pairs(t, "{", n) = {} \/ Pairs(t, "}", Leftmost(Pairs(t, "{", n)) + 2) = {}
                 THEN SubSeq(t, n, Len(t))
                 ELSE SubSeq(t, n, Leftmost(Pairs(t, "{", n)) - 1)
                        \o ValueOf(data, Trim(SubSeq(t, Leftmost(Pairs(t, "{", n)) + 2,
                                         CloseFirst(t, Leftmost(Pairs(t, "{", n))) - 1)))
                        \o f[CloseFirst(t, Leftmost(Pairs(t, "{", n))) + 2]
  <2>1. r = CHOOSE f : f = [n \in 1..(Len(t) + 2) |-> Body(f, n)]
    BY DEF RenderFrom
  <2>2. \A f, n : Body(f, n) = NextRender(t, data, f, n)
    BY DEF NextRender, Holed, Hole, Opened, Closed
  <2> HIDE DEF Body
  <2> QED BY <2>1, <2>2
<1>2. \E f : Solves(f)
  <2>1. 1 \in 1..(Len(t) + 3)
    OBVIOUS
  <2> QED BY <2>1, RenderExists
<1> HIDE DEF Solves, r
<1>3. Solves(r)
  BY <1>1, <1>2
<1>4. r = [n \in 1..(Len(t) + 2) |-> NextRender(t, data, r, n)]
  BY <1>3 DEF Solves
<1> QED BY <1>4 DEF r

\* A part of a text is a text.
LEMMA PartType ==
    ASSUME NEW C, NEW t \in Seq(C), NEW i \in Nat \ {0}, NEW m \in Int, m <= Len(t)
    PROVE  SubSeq(t, i, m) \in Seq(C)
<1>1. \A k \in i..m : t[k] \in C
  BY ElementOfSeq
<1> QED BY <1>1, SubSeqProperties

\* The first of four texts is the same however they are put together.
FirstApart(c, l, h, f) == ((c \o l) \o h) \o f = c \o ((l \o h) \o f)

Regroups(l, v, f) == l \o (v \o f) = (l \o v) \o f

\* Three texts are the same however they are put together.
LEMMA ConcatThree ==
    ASSUME NEW C, NEW l \in Seq(C), NEW v \in Seq(C), NEW f \in Seq(C)
    PROVE  Regroups(l, v, f)
BY ConcatAssociative DEF Regroups

\* And so are four.
LEMMA ConcatFour ==
    ASSUME NEW C, NEW c \in Seq(C), NEW l \in Seq(C), NEW h \in Seq(C), NEW f \in Seq(C)
    PROVE  FirstApart(c, l, h, f)
<1>1. l \o h \in Seq(C)
  BY ConcatProperties
<1>2. \A u \in Seq(C) : (c \o u) \o f = c \o (u \o f)
  BY ConcatAssociative
<1>3. (c \o (l \o h)) \o f = c \o ((l \o h) \o f)
  BY <1>1, <1>2
<1>4. (c \o l) \o h = c \o (l \o h)
  BY ConcatAssociative
<1> QED BY <1>3, <1>4 DEF FirstApart

Values(data, C) == \A k : ValueOf(data, k) \in Seq(C)

\* What is rendered is text, where the values are.
LEMMA RenderType ==
    ASSUME NEW C, NEW t \in Seq(C), NEW data, Values(data, C)
    PROVE  \A i \in 1..(Len(t) + 2) : RenderFrom(t, data)[i] \in Seq(C)
<1> DEFINE T == {i \in 1..(Len(t) + 2) : RenderFrom(t, data)[i] \notin Seq(C)}
<1>0. PICK m \in Nat : m = Len(t)
  OBVIOUS
<1> SUFFICES ASSUME T # {}  PROVE FALSE
  OBVIOUS
<1>1. m + 2 \in Nat /\ T \in SUBSET (1..(m + 2))
  BY <1>0
<1>2. PICK i \in T : \A k \in T : i >= k
  BY <1>1, GreatestPosition
<1>3. i \in 1..(m + 2) /\ RenderFrom(t, data)[i] \notin Seq(C)
  BY <1>0, <1>2
<1>4. RenderFrom(t, data)[i] = NextRender(t, data, RenderFrom(t, data), i)
  BY <1>0, <1>3, RenderStep
<1>5. CASE ~Holed(t, i)
  <2>1. SubSeq(t, i, m) \in Seq(C)
    BY <1>0, <1>3, PartType
  <2> QED BY <1>0, <1>3, <1>4, <1>5, <2>1 DEF NextRender
<1>6. CASE Holed(t, i)
  <2>1. /\ Opened(t, i) \in Nat /\ Closed(t, i) \in Nat
        /\ i <= Opened(t, i) /\ Opened(t, i) + 2 <= Closed(t, i) /\ Closed(t, i) + 1 <= m
    BY <1>0, <1>3, <1>6, HoleBounds
  <2>2. PICK e \in 1..(m + 2) : e = Closed(t, i) + 2 /\ ~(i >= e)
    BY <1>0, <1>3, <2>1
  <2>3. RenderFrom(t, data)[e] \in Seq(C)
    BY <1>0, <1>2, <2>2
  <2>4. SubSeq(t, i, Opened(t, i) - 1) \in Seq(C)
    <3>1. Opened(t, i) - 1 \in Int /\ Opened(t, i) - 1 <= Len(t) /\ i \in Nat \ {0}
      BY <1>0, <1>3, <2>1
    <3> QED BY <3>1, PartType
  <2>5. Hole(t, i, data) \in Seq(C)
    BY DEF Hole, Values
  <2>6. PICK l \in Seq(C), h \in Seq(C), f \in Seq(C) :
            /\ l = SubSeq(t, i, Opened(t, i) - 1) /\ h = Hole(t, i, data)
            /\ f = RenderFrom(t, data)[e]
    BY <2>3, <2>4, <2>5
  <2>7. RenderFrom(t, data)[i] = (l \o h) \o f
    BY <1>4, <1>6, <2>2, <2>6 DEF NextRender
  <2>8. (l \o h) \o f \in Seq(C)
    OBVIOUS
  <2> QED BY <1>3, <2>7, <2>8
<1> QED BY <1>5, <1>6

Plain(t, i) == t[i] # "{"

\* Past such a character the same pairs are left to find.
LEMMA PairsFromPlain ==
    ASSUME NEW t, NEW i \in Nat, Len(t) \in Nat, Plain(t, i)
    PROVE  Pairs(t, "{", i) = Pairs(t, "{", i + 1)
<1>1. PICK m \in Nat : m = Len(t)
  OBVIOUS
<1>2. ASSUME NEW k \in i..(m - 1), t[k] = "{"  PROVE k \in (i + 1)..(m - 1)
  <2>1. k # i
    BY <1>2 DEF Plain
  <2> QED BY <2>1
<1>3. ASSUME NEW k \in (i + 1)..(m - 1)  PROVE k \in i..(m - 1)
  OBVIOUS
<1> QED BY <1>1, <1>2, <1>3 DEF Pairs

\* From i on, t renders to v and then to what it renders to from j on.
RendersAs(t, data, i, v, j) == RenderFrom(t, data)[i] = v \o RenderFrom(t, data)[j]

\* The characters of t from p to d are x.
PartIs(t, p, d, x) == SubSeq(t, p, d) = x

\* A character that is no opening brace is text.
LEMMA RenderText ==
    ASSUME NEW C, NEW t \in Seq(C), NEW data, Values(data, C),
           NEW i \in 1..Len(t), Plain(t, i)
    PROVE  RenderFrom(t, data)[i] = <<t[i]>> \o RenderFrom(t, data)[i + 1]
<1>0. PICK m \in Nat : m = Len(t)
  OBVIOUS
<1>1. i \in Nat \ {0} /\ i <= m /\ i + 1 \in 1..(m + 2) /\ i \in 1..(m + 2) /\ i + 1 \in Nat \ {0}
  BY <1>0
<1>2. Pairs(t, "{", i) = Pairs(t, "{", i + 1)
  BY <1>0, <1>1, PairsFromPlain
<1>3. /\ Opened(t, i) = Opened(t, i + 1) /\ Closed(t, i) = Closed(t, i + 1)
      /\ Holed(t, i) = Holed(t, i + 1) /\ Hole(t, i, data) = Hole(t, i + 1, data)
  BY <1>2 DEF Opened, Closed, Holed, Hole
<1> DEFINE R == RenderFrom(t, data)
<1>4. R[i] = NextRender(t, data, R, i) /\ R[i + 1] = NextRender(t, data, R, i + 1)
  BY <1>0, <1>1, RenderStep
<1>5. t[i] \in C
  BY ElementOfSeq
<1> HIDE DEF R
<1>6. CASE ~Holed(t, i)
  <2>1. R[i] = SubSeq(t, i, m) /\ R[i + 1] = SubSeq(t, i + 1, m)
    BY <1>0, <1>3, <1>4, <1>6 DEF NextRender
  <2>2. SubSeq(t, i, m) = <<t[i]>> \o SubSeq(t, i + 1, m)
    BY <1>0, <1>1, SubSeqRecursiveFirst
  <2> QED BY <2>1, <2>2 DEF R
<1>7. CASE Holed(t, i)
  <2>1. PICK a \in Nat : /\ a = Opened(t, i) /\ i + 1 <= a /\ a + 3 <= m
                         /\ Closed(t, i) \in Nat /\ a + 2 <= Closed(t, i) /\ Closed(t, i) + 1 <= m
    BY <1>0, <1>1, <1>3, <1>7, HoleBounds
  <2>2. PICK l \in Seq(C) : l = SubSeq(t, i + 1, a - 1)
    <3>1. a - 1 \in Int /\ a - 1 <= Len(t)
      BY <1>0, <2>1
    <3> QED BY <1>1, <3>1, PartType
  <2>3. SubSeq(t, i, a - 1) = <<t[i]>> \o l
    <3>1. a - 1 \in i..Len(t)
      BY <1>0, <1>1, <2>1
    <3> QED BY <2>2, <3>1, SubSeqRecursiveFirst
  <2>4. PICK h \in Seq(C) : h = Hole(t, i, data)
    BY DEF Hole, Values
  <2>5. PICK f \in Seq(C) : f = R[Closed(t, i) + 2]
    <3>1. Closed(t, i) + 2 \in 1..(m + 2)
      BY <1>0, <2>1
    <3> QED BY <1>0, <3>1, RenderType DEF R
  <2>6. R[i] = ((<<t[i]>> \o l) \o h) \o f
    BY <1>4, <1>7, <2>1, <2>3, <2>4, <2>5 DEF NextRender
  <2>7. R[i + 1] = (l \o h) \o f
    BY <1>3, <1>4, <1>7, <2>1, <2>2, <2>4, <2>5 DEF NextRender
  <2>8. <<t[i]>> \in Seq(C)
    BY <1>5
  <2>9. FirstApart(<<t[i]>>, l, h, f)
    BY <2>8, ConcatFour
  <2> QED BY <2>6, <2>7, <2>9 DEF R, FirstApart
<1> QED BY <1>6, <1>7
\* c stands nowhere from a to b.
Without(t, c, a, b) == \A k \in a..b : t[k] # c

\* Nothing stands in no place.
LEMMA WithoutNone ==
    ASSUME NEW t, NEW c, NEW i \in Nat
    PROVE  Without(t, c, i, i - 1)
<1>1. i..(i - 1) = {}
  OBVIOUS
<1> QED BY <1>1 DEF Without

\* Two opening braces, two closing ones, and no closing brace from a to b.
Opens(t, i)  == t[i] = "{" /\ t[i + 1] = "{"
Closes(t, e) == t[e] = "}" /\ t[e + 1] = "}"
CloselessPart(t, a, b) == Without(t, "}", a, b)

\* A placeholder opens at i and closes at e.
Braced(t, i, e) ==
    Opens(t, i) /\ Closes(t, e) /\ CloselessPart(t, i + 2, e - 1)

\* A pair of braces stands where it does, and is the first from there on.
LEMMA PairHere ==
    ASSUME NEW t, NEW c, Len(t) \in Nat, NEW i \in Nat, NEW p \in Nat,
           i <= p, p + 1 <= Len(t), t[p] = c, t[p + 1] = c,
           Without(t, c, i, p - 1)
    PROVE  Pairs(t, c, i) # {} /\ Leftmost(Pairs(t, c, i)) = p
<1>1. PICK m \in Nat : m = Len(t)
  OBVIOUS
<1>2. p \in Pairs(t, c, i)
  <2>1. p \in i..(m - 1)
    BY <1>1
  <2> QED BY <1>1, <2>1 DEF Pairs
<1>3. ASSUME NEW k \in Pairs(t, c, i)  PROVE p <= k
  <2>1. k \in i..(m - 1) /\ t[k] = c
    BY <1>1, <1>3 DEF Pairs
  <2>2. k \notin i..(p - 1)
    BY <2>1 DEF Without
  <2> QED BY <2>1, <2>2
<1>4. Pairs(t, c, i) \in SUBSET Nat
  BY PairsBounds
<1> QED BY <1>2, <1>3, <1>4, LeftmostOf

\* A placeholder is its value.
LEMMA RenderKey ==
    ASSUME NEW C, NEW t \in Seq(C), NEW data, Values(data, C),
           NEW i \in Nat, 1 <= i, NEW e \in Nat, i + 2 <= e, e + 1 <= Len(t), Braced(t, i, e),
           NEW q, q = i + 2, NEW d, d = e - 1, NEW n, n = e + 2,
           NEW x, PartIs(t, q, d, x)
    PROVE  RendersAs(t, data, i, ValueOf(data, Trim(x)), n)
<1>0. PICK m \in Nat : m = Len(t)
  OBVIOUS
<1>a. SubSeq(t, i + 2, e - 1) = x
  BY DEF PartIs
<1>1. i \in Nat /\ i \in 1..(m + 2) /\ e + 2 \in 1..(m + 2) /\ i + 2 \in Nat /\ i <= i /\ i + 1 <= m
  BY <1>0
<1>2. Pairs(t, "{", i) # {} /\ Leftmost(Pairs(t, "{", i)) = i
  <2>1. Without(t, "{", i, i - 1)
    BY <1>1, WithoutNone
  <2> QED BY <1>0, <1>1, <2>1, PairHere DEF Braced, Opens
<1>3. Pairs(t, "}", i + 2) # {} /\ Leftmost(Pairs(t, "}", i + 2)) = e
  BY <1>0, <1>1, PairHere DEF Braced, Closes, CloselessPart
<1>4. Opened(t, i) = i /\ Closed(t, i) = e /\ Holed(t, i)
  BY <1>2, <1>3 DEF Opened, Closed, CloseFirst, Holed
<1> DEFINE R == RenderFrom(t, data)
<1>5. R[i] = NextRender(t, data, R, i)
  BY <1>0, <1>1, RenderStep
<1>6. PICK f \in Seq(C) : f = R[e + 2]
  BY <1>0, <1>1, RenderType
<1>7. PICK v \in Seq(C) : v = ValueOf(data, Trim(x))
  BY DEF Values
<1>8. SubSeq(t, i, i - 1) = <<>>
  <2>1. i \in Int /\ i - 1 \in Int /\ i - 1 < i
    BY <1>1
  <2> QED BY <2>1, SubSeqEmpty
<1> HIDE DEF R
<1>9. R[i] = (SubSeq(t, i, i - 1) \o v) \o f
  BY <1>4, <1>5, <1>6, <1>7, <1>a DEF NextRender, Hole
<1>10. <<>> \o v = v
  BY ConcatEmptySeq
<1> QED BY <1>6, <1>7, <1>8, <1>9, <1>10 DEF R, RendersAs

\* Two opening braces, and none that close.
Unclosed(t, i) == Opens(t, i) /\ CloselessPart(t, i + 2, Len(t))

\* Braces that are never closed are text, to the end.
LEMMA RenderOpen ==
    ASSUME NEW t, Len(t) \in Nat, NEW data, NEW i \in Nat, 1 <= i, i + 1 <= Len(t),
           Unclosed(t, i)
    PROVE  RenderFrom(t, data)[i] = SubSeq(t, i, Len(t))
<1>0. PICK m \in Nat : m = Len(t)
  OBVIOUS
<1>1. i \in Nat /\ i \in 1..(m + 2) /\ i + 2 \in Nat /\ i <= i
  BY <1>0
<1>2. Leftmost(Pairs(t, "{", i)) = i
  <2>1. Without(t, "{", i, i - 1)
    BY <1>1, WithoutNone
  <2> QED BY <1>0, <1>1, <2>1, PairHere DEF Unclosed, Opens
<1>3. Pairs(t, "}", i + 2) = {}
  <2>1. ASSUME NEW k \in (i + 2)..(m - 1)  PROVE t[k] # "}"
    <3>1. k \in (i + 2)..m
      OBVIOUS
    <3> QED BY <1>0, <3>1 DEF Unclosed, CloselessPart, Without
  <2> QED BY <1>0, <2>1 DEF Pairs
<1>4. ~Holed(t, i)
  BY <1>2, <1>3 DEF Holed, Opened
<1> QED BY <1>0, <1>1, <1>4, RenderStep DEF NextRender

\* At the end of the template nothing is left to render.
LEMMA RenderEnd ==
    ASSUME NEW t, Len(t) \in Nat, NEW data
    PROVE  RenderFrom(t, data)[Len(t) + 1] = <<>>
<1>0. PICK m \in Nat : m = Len(t)
  OBVIOUS
<1>1. m + 1 \in 1..(m + 2) /\ m + 1 \in Int /\ m \in Int /\ m < m + 1
  OBVIOUS
<1>2. Pairs(t, "{", m + 1) = {}
  <2>1. (m + 1)..(m - 1) = {}
    OBVIOUS
  <2> QED BY <1>0, <2>1 DEF Pairs
<1>3. ~Holed(t, m + 1)
  BY <1>2 DEF Holed
<1>4. SubSeq(t, m + 1, m) = <<>>
  BY <1>1, SubSeqEmpty
<1> QED BY <1>0, <1>1, <1>3, <1>4, RenderStep DEF NextRender
-----------------------------------------------------------------------------
(* What each segment of a draft renders to, where it stands in the template. *)

\* A text that stands somewhere stands there part by part.
LEMMA StandsParts ==
    ASSUME NEW C, NEW l \in Seq(C), NEW r \in Seq(C), NEW w, w = l \o r,
           NEW t, Len(t) \in Nat, NEW p \in Nat, StandsAt(w, t, p),
           NEW q, q = p + Len(l)
    PROVE  StandsAt(l, t, p) /\ StandsAt(r, t, q)
<1>1. PICK m \in Nat, n \in Nat : m = Len(l) /\ n = Len(r)
  OBVIOUS
<1>2. /\ Len(w) = m + n
      /\ \A k \in 1..m : w[k] = l[k]
      /\ \A k \in 1..Len(r) : w[Len(l) + k] = r[k]
  BY <1>1, ConcatParts
<1>3. p + Len(w) <= Len(t) + 1 /\ \A k \in 1..Len(w) : t[p + k - 1] = w[k]
  BY Zenon DEF StandsAt
<1>4. ASSUME NEW k \in 1..m  PROVE t[p + k - 1] = l[k]
  <2>1. k \in 1..Len(w)
    BY <1>2
  <2> QED BY <1>2, <1>3, <2>1
<1>5. ASSUME NEW k \in 1..n  PROVE t[q + k - 1] = r[k]
  <2>1. PICK i \in 1..Len(w) : i = m + k
    BY <1>1, <1>2
  <2>2. q + k - 1 = p + i - 1
    BY <1>1, <2>1
  <2> QED BY <1>1, <1>2, <1>3, <2>1, <2>2
<1>6. p + m <= Len(t) + 1 /\ q + n <= Len(t) + 1
  BY <1>1, <1>2, <1>3
<1> QED BY <1>1, <1>4, <1>5, <1>6 DEF StandsAt

\* What stands from p on is that part of the text.
LEMMA StandsIs ==
    ASSUME NEW C, NEW x \in Seq(C), NEW t \in Seq(C), NEW p \in Nat, 1 <= p,
           StandsAt(x, t, p), NEW d, d = p + Len(x) - 1
    PROVE  PartIs(t, p, d, x)
<1>1. PICK m \in Nat, n \in Nat : m = Len(x) /\ n = Len(t)
  OBVIOUS
<1>2. p + m <= n + 1 /\ \A k \in 1..m : t[p + k - 1] = x[k]
  BY <1>1 DEF StandsAt
<1>a. p + m - 1 \in Int
  OBVIOUS
<1>3. d \in Int /\ d - p + 1 = m /\ d <= n
  BY <1>1, <1>2, <1>a
<1>4. \A k \in p..d : t[k] \in C
  <2>1. \A k \in 1..n : t[k] \in C
    BY <1>1, ElementOfSeq
  <2>2. \A k \in p..d : k \in 1..n
    BY <1>3
  <2> QED BY <2>1, <2>2
<1>5. /\ SubSeq(t, p, d) \in Seq(C) /\ Len(SubSeq(t, p, d)) = (IF p <= d THEN d - p + 1 ELSE 0)
      /\ \A k \in 1..(d - p + 1) : SubSeq(t, p, d)[k] = t[p + k - 1]
  BY <1>4, SubSeqProperties
<1>6. Len(SubSeq(t, p, d)) = m
  BY <1>3, <1>5
<1>7. \A k \in 1..m : SubSeq(t, p, d)[k] = x[k]
  BY <1>2, <1>3, <1>5
<1>8. SubSeq(t, p, d) = x
  BY <1>1, <1>5, <1>6, <1>7, SeqEqual
<1> QED BY <1>8 DEF PartIs

\* Where two equal characters stand.
LEMMA PairStands ==
    ASSUME NEW c, NEW t, Len(t) \in Nat, NEW p \in Nat, StandsAt(<<c, c>>, t, p)
    PROVE  t[p] = c /\ t[p + 1] = c /\ p + 1 <= Len(t)
<1>1. Len(<<c, c>>) = 2 /\ <<c, c>>[1] = c /\ <<c, c>>[2] = c
  OBVIOUS
<1>2. p + 2 <= Len(t) + 1 /\ \A k \in 1..2 : t[p + k - 1] = <<c, c>>[k]
  BY <1>1 DEF StandsAt
<1>3. 1 \in 1..2 /\ 2 \in 1..2 /\ p + 1 - 1 = p /\ p + 2 - 1 = p + 1
  OBVIOUS
<1> QED BY <1>1, <1>2, <1>3

\* No character of x is c.
Lacks(x, c) == \A k \in 1..Len(x) : x[k] # c

\* A character that x lacks is not where x stands.
LEMMA StandsWithout ==
    ASSUME NEW x, NEW m \in Nat, m = Len(x), NEW c, Lacks(x, c), NEW t, NEW p \in Nat,
           StandsAt(x, t, p), NEW d, d = p + m - 1
    PROVE  Without(t, c, p, d)
<1>1. ASSUME NEW k \in p..d  PROVE t[k] # c
  <2>1. PICK j \in 1..m : k = p + j - 1
    <3>1. k - p + 1 \in 1..m /\ k = p + (k - p + 1) - 1
      OBVIOUS
    <3> QED BY <3>1
  <2>2. t[k] = x[j]
    BY <2>1 DEF StandsAt
  <2> QED BY <2>1, <2>2 DEF Lacks
<1> QED BY <1>1 DEF Without
\* The braces of a placeholder, and the characters they are.
Opening2 == <<"{", "{">>
Closing2 == <<"}", "}">>
KeyText(pad, k) == Opening2 \o pad \o k \o pad \o Closing2
OpenText(k) == Opening2 \o k
BracesIn(C) == "{" \in C /\ "}" \in C

\* No closing brace in x.
Closeless(x) == Lacks(x, "}")

\* The pairs of braces are texts of two characters.
LEMMA TwoBraces ==
    ASSUME NEW C, BracesIn(C)
    PROVE  /\ Opening2 \in Seq(C) /\ Len(Opening2) = 2
           /\ Closing2 \in Seq(C) /\ Len(Closing2) = 2
<1>1. \A c \in C : <<c, c>> \in Seq(C) /\ Len(<<c, c>>) = 2
  OBVIOUS
<1>2. "{" \in C /\ "}" \in C
  BY DEF BracesIn
<1>3. Opening2 = <<"{", "{">> /\ Closing2 = <<"}", "}">>
  BY DEF Opening2, Closing2
<1> QED BY <1>1, <1>2, <1>3, Zenon

\* A placeholder renders to the value of its key.
LEMMA KeySegment ==
    ASSUME NEW C, BracesIn(C), NEW t \in Seq(C), NEW data, Values(data, C),
           NEW pad \in Seq(C), NEW k \in Seq(C), Blanks(pad), Trim(k) = k,
           Closeless(pad), Closeless(k),
           NEW w, w = KeyText(pad, k),
           NEW p \in Nat, 1 <= p, StandsAt(w, t, p)
    PROVE  RendersAs(t, data, p, ValueOf(data, k), p + Len(w))
<1>1. PICK o \in Seq(C), c \in Seq(C) : o = Opening2 /\ c = Closing2
  BY TwoBraces
<1>2. Len(o) = 2 /\ Len(c) = 2
  BY <1>1, TwoBraces
<1>3. PICK x \in Seq(C) : x = Padded(pad, k)
  BY ConcatProperties DEF Padded
<1>4. PICK v \in Seq(C) : v = o \o x
  BY ConcatProperties
<1>5. w = v \o c
  <2>1. FirstApart(o, pad, k, pad)
    BY ConcatFour
  <2> QED BY <1>1, <1>3, <1>4, <2>1 DEF FirstApart, Padded, KeyText
<1>6. PICK m \in Nat : m = Len(x)
  OBVIOUS
<1>a. Len(v) = Len(o) + Len(x) /\ Len(w) = Len(v) + Len(c)
  BY <1>4, <1>5, ConcatParts
<1>7. Len(v) = m + 2
  BY <1>2, <1>6, <1>a
<1>8. Len(w) = m + 4
  BY <1>2, <1>7, <1>a
<1>9. PICK q \in Nat, e \in Nat : q = p + 2 /\ e = p + m + 2
  OBVIOUS
<1>10. StandsAt(v, t, p) /\ StandsAt(c, t, e)
  <2>1. e = p + Len(v) /\ Len(t) \in Nat
    BY <1>7, <1>9
  <2> QED BY <1>5, <2>1, StandsParts
<1>11. StandsAt(o, t, p) /\ StandsAt(x, t, q)
  <2>1. q = p + Len(o) /\ Len(t) \in Nat
    BY <1>2, <1>9
  <2> QED BY <1>4, <1>10, <2>1, StandsParts
<1>12. Len(t) \in Nat
  OBVIOUS
<1>13. Opens(t, p)
  BY <1>1, <1>11, <1>12, PairStands DEF Opening2, Opens
<1>14. Closes(t, e) /\ e + 1 <= Len(t)
  BY <1>1, <1>10, <1>12, PairStands DEF Closing2, Closes
<1>15. PartIs(t, q, e - 1, x)
  <2>1. 1 <= q /\ e - 1 = q + Len(x) - 1
    BY <1>6, <1>9
  <2> QED BY <1>11, <2>1, StandsIs
<1>16. Closeless(x)
  <2>1. PICK a \in Nat, b \in Nat : a = Len(pad) /\ b = Len(k)
    OBVIOUS
  <2>2. Len(x) = a + b + a /\ PaddedAt(x, pad, k, a, b)
    BY <1>3, <2>1, PaddedParts
  <2> DEFINE Close(z) == z = "}"
  <2>4. /\ \A j \in 1..a : ~Close(pad[j])
        /\ \A j \in 1..b : ~Close(k[j])
    BY <2>1 DEF Closeless, Lacks
  <2> HIDE DEF Close
  <2>5. /\ \A j \in 1..a : ~Close(x[j])
        /\ \A j \in 1..b : ~Close(x[a + j])
        /\ \A j \in 1..a : ~Close(x[a + b + j])
    BY <2>2, <2>4 DEF PaddedAt
  <2>3. ASSUME NEW j \in 1..(a + b + a)  PROVE ~Close(x[j])
    <3>1. CASE j <= a
      <4>1. j \in 1..a
        BY <3>1
      <4> QED BY <2>5, <4>1
    <3>2. CASE a < j /\ j <= a + b
      <4>1. PICK i \in 1..b : j = a + i
        <5>1. j - a \in 1..b /\ j = a + (j - a)
          BY <3>2
        <5> QED BY <5>1
      <4> QED BY <2>5, <4>1
    <3>3. CASE a + b < j
      <4>1. PICK i \in 1..a : j = a + b + i
        <5>1. j - a - b \in 1..a /\ j = a + b + (j - a - b)
          BY <3>3
        <5> QED BY <5>1
      <4> QED BY <2>5, <4>1
    <3> QED BY <3>1, <3>2, <3>3
  <2> QED BY <2>2, <2>3 DEF Closeless, Lacks, Close
<1>17. CloselessPart(t, q, e - 1)
  <2>1. e - 1 = q + m - 1
    BY <1>9
  <2> QED BY <1>6, <1>11, <1>16, <2>1, StandsWithout DEF CloselessPart, Closeless
<1>18. Braced(t, p, e)
  BY <1>9, <1>13, <1>14, <1>17 DEF Braced
<1>19. Trim(x) = k
  BY <1>3, TrimOfPadding
<1>20. p + 2 <= e
  BY <1>9
<1>21. p + Len(w) = e + 2
  BY <1>8, <1>9
<1>22. RendersAs(t, data, p, ValueOf(data, Trim(x)), p + Len(w))
  BY <1>9, <1>14, <1>15, <1>18, <1>20, <1>21, RenderKey
<1> QED BY <1>19, <1>22

\* Text renders to itself.
LEMMA TextSegment ==
    ASSUME NEW C, NEW t \in Seq(C), NEW data, Values(data, C),
           NEW w \in Seq(C), Len(w) = 1, Plain(w, 1),
           NEW p \in Nat, 1 <= p, StandsAt(w, t, p)
    PROVE  RendersAs(t, data, p, w, p + Len(w))
<1>1. PICK n \in Nat : n = Len(t)
  OBVIOUS
<1>2. p + 1 <= n + 1 /\ \A k \in 1..1 : t[p + k - 1] = w[k]
  BY <1>1 DEF StandsAt
<1>3. t[p] = w[1]
  <2>1. 1 \in 1..1 /\ p + 1 - 1 = p
    OBVIOUS
  <2> QED BY <1>2, <2>1
<1>4. p \in 1..Len(t)
  BY <1>1, <1>2
<1>5. w = <<w[1]>>
  OBVIOUS
<1>6. Plain(t, p)
  BY <1>3 DEF Plain
<1>7. RenderFrom(t, data)[p] = <<t[p]>> \o RenderFrom(t, data)[p + 1]
  BY <1>4, <1>6, RenderText
<1> QED BY <1>3, <1>5, <1>7 DEF RendersAs

\* So do braces that are never closed, where nothing follows.
LEMMA OpenSegment ==
    ASSUME NEW C, BracesIn(C), NEW t \in Seq(C), NEW data,
           NEW k \in Seq(C), Closeless(k), NEW w, w = OpenText(k),
           NEW p \in Nat, 1 <= p, StandsAt(w, t, p), p + Len(w) = Len(t) + 1
    PROVE  RendersAs(t, data, p, w, p + Len(w))
<1>1. PICK o \in Seq(C) : o = Opening2
  BY TwoBraces
<1>2. Len(o) = 2
  BY <1>1, TwoBraces
<1>3. PICK m \in Nat, n \in Nat : m = Len(k) /\ n = Len(t)
  OBVIOUS
<1>4. w = o \o k
  BY <1>1 DEF OpenText
<1>a. w \in Seq(C) /\ Len(w) = Len(o) + Len(k)
  BY <1>4, ConcatParts
<1>5. Len(w) = m + 2
  BY <1>2, <1>3, <1>a
<1>6. PICK q \in Nat : q = p + 2
  OBVIOUS
<1>7. StandsAt(o, t, p) /\ StandsAt(k, t, q)
  <2>1. q = p + Len(o)
    BY <1>2, <1>6
  <2> QED BY <1>3, <1>4, <2>1, StandsParts
<1>8. Opens(t, p) /\ p + 1 <= n
  BY <1>1, <1>3, <1>7, PairStands DEF Opening2, Opens
<1>9. CloselessPart(t, q, n)
  <2>1. n = q + m - 1
    BY <1>3, <1>5, <1>6
  <2> QED BY <1>3, <1>7, <2>1, StandsWithout DEF CloselessPart, Closeless
<1>10. Unclosed(t, p)
  BY <1>3, <1>6, <1>8, <1>9 DEF Unclosed
<1>11. RenderFrom(t, data)[p] = SubSeq(t, p, n)
  <2>1. p \in Nat \ {0}
    OBVIOUS
  <2> QED BY <1>3, <1>8, <1>10, <2>1, RenderOpen
<1>12. PartIs(t, p, n, w)
  <2>0. p + (m + 2) = n + 1
    BY <1>3, <1>5
  <2>1. n = p + Len(w) - 1
    BY <1>5, <2>0
  <2> QED BY <1>a, <2>1, StandsIs
<1>13. RenderFrom(t, data)[p + Len(w)] = <<>>
  BY <1>3, RenderEnd
<1>14. w \o <<>> = w
  BY <1>a, ConcatEmptySeq
<1> QED BY <1>11, <1>12, <1>13, <1>14 DEF RendersAs, PartIs
-----------------------------------------------------------------------------
(* A whole template. *)

\* Each of the texts W, where it stands in what they are joined to, renders to
\* its counterpart in M.
EachRenders(W, M, data) ==
    \A n \in 1..Len(W) :
        RendersAs(Joined(W), data, Start(W, n), M[n], Start(W, n + 1))

\* What the first n texts render to, and then the rest.
LEMMA RenderUpTo ==
    ASSUME NEW C, NEW W \in Seq(Seq(C)), NEW M \in Seq(Seq(C)), Len(M) = Len(W),
           NEW data, Values(data, C), EachRenders(W, M, data)
    PROVE  \A n \in 0..Len(W) :
              RendersAs(Joined(W), data, 1, JoinedUpTo(M)[n], Start(W, n + 1))
<1> DEFINE Done(n) == RendersAs(Joined(W), data, 1, JoinedUpTo(M)[n], Start(W, n + 1))
           T == {n \in Nat : n <= Len(W) /\ ~Done(n)}
<1>0. Len(W) \in Nat
  OBVIOUS
<1> SUFFICES ASSUME T # {}  PROVE FALSE
  BY <1>0
<1>1. PICK n \in T : \A k \in T : n <= k
  BY LeastNatural
<1>2. n \in Nat /\ n <= Len(W) /\ ~Done(n)
  BY <1>1
<1>3. PICK t \in Seq(C) : t = Joined(W)
  BY <1>0, JoinedType DEF Joined
<1>4. \A i \in 1..(Len(t) + 2) : RenderFrom(t, data)[i] \in Seq(C)
  BY RenderType
<1>5. Done(0)
  <2>1. JoinedUpTo(M)[0] = <<>> /\ JoinedUpTo(W)[0] = <<>>
    BY <1>0, JoinedStep
  <2>2. Start(W, 0 + 1) = 1
    BY <2>1 DEF Start
  <2>3. PICK r \in Seq(C) : r = RenderFrom(t, data)[1]
    <3>1. 1 \in 1..(Len(t) + 2)
      OBVIOUS
    <3> QED BY <1>4, <3>1
  <2>4. <<>> \o r = r
    BY ConcatEmptySeq
  <2> QED BY <1>3, <2>1, <2>2, <2>3, <2>4 DEF RendersAs
<1>6. CASE n # 0
  <2>1. n - 1 \in Nat /\ n - 1 <= Len(W) /\ ~(n <= n - 1) /\ n \in 1..Len(W) /\ (n - 1) + 1 = n
    BY <1>0, <1>2, <1>6
  <2>2. Done(n - 1)
    BY <1>1, <2>1
  <2>3. PICK l \in Seq(C) : l = JoinedUpTo(M)[n - 1]
    <3>1. n - 1 \in 0..Len(M)
      BY <1>0, <2>1
    <3> QED BY <3>1, JoinedType
  <2>4. PICK v \in Seq(C) : v = M[n]
    BY <2>1
  <2>5. JoinedUpTo(M)[n] = l \o v
    BY <1>0, <2>1, <2>3, <2>4, JoinedStep
  <2>6. PICK f \in Seq(C) : f = RenderFrom(t, data)[Start(W, n + 1)]
    <3>1. PICK p \in Nat \ {0} : p = Start(W, n)
      BY <2>1, JoinedParts
    <3>2. PICK w \in Seq(C) : w = W[n]
      BY <2>1
    <3>3. PICK a \in Nat : a = Len(w)
      OBVIOUS
    <3>4. Start(W, n + 1) = p + a /\ p + a <= Len(t) + 1
      BY <1>3, <2>1, <3>1, <3>2, <3>3, JoinedParts DEF StandsAt
    <3>5. p + a \in 1..(Len(t) + 2)
      BY <3>4
    <3> QED BY <1>4, <3>4, <3>5
  <2>7. RenderFrom(t, data)[1] = l \o RenderFrom(t, data)[Start(W, n)]
    BY <1>3, <2>1, <2>2, <2>3 DEF RendersAs
  <2>8. RenderFrom(t, data)[Start(W, n)] = v \o f
    BY <1>3, <2>1, <2>4, <2>6 DEF EachRenders, RendersAs
  <2>9. Regroups(l, v, f)
    BY ConcatThree
  <2>10. RenderFrom(t, data)[1] = (l \o v) \o f
    BY <2>7, <2>8, <2>9 DEF Regroups
  <2>11. Done(n)
    BY <1>3, <2>5, <2>6, <2>10 DEF RendersAs
  <2> QED BY <1>2, <2>11
<1> QED BY <1>2, <1>5, <1>6

\* So the whole renders to what its texts render to.
LEMMA RenderAll ==
    ASSUME NEW C, NEW W \in Seq(Seq(C)), NEW M \in Seq(Seq(C)), Len(M) = Len(W),
           NEW data, Values(data, C), EachRenders(W, M, data)
    PROVE  Render(Joined(W), data) = Joined(M)
<1>0. PICK m \in Nat : m = Len(W) /\ m \in 0..Len(W)
  OBVIOUS
<1>1. PICK t \in Seq(C) : t = Joined(W)
  BY <1>0, JoinedType DEF Joined
<1>2. PICK j \in Seq(C) : j = Joined(M)
  BY <1>0, JoinedType DEF Joined
<1>3. RendersAs(t, data, 1, j, Start(W, m + 1))
  BY <1>0, <1>1, <1>2, RenderUpTo DEF Joined
<1>4. Start(W, m + 1) = Len(t) + 1
  <2>1. (m + 1) - 1 = m
    BY <1>0
  <2> QED BY <1>0, <1>1, <2>1 DEF Start, Joined
<1>5. RenderFrom(t, data)[Len(t) + 1] = <<>>
  BY RenderEnd
<1>6. j \o <<>> = j
  BY ConcatEmptySeq
<1>7. RenderFrom(t, data)[1] = j
  BY <1>3, <1>4, <1>5, <1>6 DEF RendersAs
<1> QED BY <1>1, <1>2, <1>7 DEF Render
-----------------------------------------------------------------------------
(* Drafts. *)

\* The characters that drafts and what they render to are written with.
ValueChars(data) == UNION {CharsOf(data[k].text) : k \in DOMAIN data}

CharsFor(data) ==
    Ink \cup Blank \cup {"{", "}"} \cup (UNION {CharsOf(k) : k \in Name}) \cup ValueChars(data)

\* They hold the characters of every part.
LEMMA CharsForParts ==
    ASSUME NEW data
    PROVE  /\ Ink \subseteq CharsFor(data) /\ Blank \subseteq CharsFor(data)
           /\ BracesIn(CharsFor(data))
           /\ \A k \in Name : CharsOf(k) \subseteq CharsFor(data)
           /\ \A k \in DOMAIN data : CharsOf(data[k].text) \subseteq CharsFor(data)
<1>1. /\ Ink \subseteq CharsFor(data) /\ Blank \subseteq CharsFor(data)
      /\ {"{", "}"} \subseteq CharsFor(data) /\ ValueChars(data) \subseteq CharsFor(data)
  BY Zenon DEF CharsFor
<1>2. BracesIn(CharsFor(data))
  BY <1>1 DEF BracesIn
<1>3. ASSUME NEW k \in Name  PROVE CharsOf(k) \subseteq CharsFor(data)
  BY DEF CharsFor
<1>4. ASSUME NEW k \in DOMAIN data  PROVE CharsOf(data[k].text) \subseteq CharsFor(data)
  <2>1. CharsOf(data[k].text) \subseteq ValueChars(data)
    BY DEF ValueChars
  <2> QED BY <1>1, <2>1, Zenon
<1> QED BY <1>1, <1>2, <1>3, <1>4

\* The values of supplied data are texts of these characters.
LEMMA DataValues ==
    ASSUME NEW data \in Data
    PROVE  Values(data, CharsFor(data))
<1> DEFINE C == CharsFor(data)
<1>1. \A k \in DOMAIN data : data[k].text \in Seq(CharsOf(data[k].text))
  BY DraftingAssumption
<1>2. \A k \in DOMAIN data : CharsOf(data[k].text) \subseteq C
  BY CharsForParts
<1> HIDE DEF C
<1>3. \A k \in DOMAIN data : data[k].text \in Seq(C)
  BY <1>1, <1>2, SeqMonotonic
<1>4. <<>> \in Seq(C)
  OBVIOUS
<1>5. ASSUME NEW k  PROVE ValueOf(data, k) \in Seq(C)
  BY <1>3, <1>4 DEF ValueOf, JsonScalar
<1> QED BY <1>5 DEF Values, C

\* The keys authors refer to.
LEMMA Names ==
    ASSUME NEW k \in Name, NEW data
    PROVE  k \in Seq(CharsFor(data)) /\ Trim(k) = k /\ Closeless(k)
<1>1. k \in Seq(CharsOf(k)) /\ Trim(k) = k /\ CharsOf(k) \cap {"{", "}"} = {}
  BY DraftingAssumption
<1>2. CharsOf(k) \subseteq CharsFor(data)
  BY CharsForParts
<1>3. k \in Seq(CharsFor(data))
  BY <1>1, <1>2, SeqMonotonic
<1>4. \A i \in 1..Len(k) : k[i] \in CharsOf(k)
  BY <1>1, ElementOfSeq
<1>5. Closeless(k)
  BY <1>1, <1>4 DEF Closeless, Lacks
<1> QED BY <1>1, <1>3, <1>5

\* One character of S.
LEMMA Singles ==
    ASSUME NEW S, NEW w \in Word(S, 1)
    PROVE  w \in Seq(S) /\ Len(w) = 1 /\ w[1] \in S
<1>1. PICK n \in 1..1 : w \in [1..n -> S]
  BY DEF Word
<1>2. n = 1
  BY <1>1
<1>3. w \in [1..1 -> S]
  BY <1>1, <1>2
<1> QED BY <1>3

\* The blanks around a key.
LEMMA Pads ==
    ASSUME NEW pad \in {<<>>} \cup Word(Blank, 1), NEW data
    PROVE  pad \in Seq(CharsFor(data)) /\ Blanks(pad) /\ Closeless(pad)
<1>1. pad \in Seq(Blank)
  <2>1. \A w \in Word(Blank, 1) : w \in Seq(Blank)
    BY Singles
  <2>2. <<>> \in Seq(Blank)
    OBVIOUS
  <2> QED BY <2>1, <2>2
<1>2. pad \in Seq(CharsFor(data))
  BY <1>1, CharsForParts, SeqMonotonic
<1>3. \A i \in 1..Len(pad) : pad[i] \in Blank
  BY <1>1, ElementOfSeq
<1>4. DOMAIN pad = 1..Len(pad)
  BY <1>1, LenProperties
<1>5. "}" \notin Blank
  BY DraftingAssumption
<1> QED BY <1>2, <1>3, <1>4, <1>5 DEF Blanks, Closeless, Lacks

\* A segment is text, a placeholder, or braces left open.
TextLike(s)  == s.kind = "text" /\ s.chars \in Word(Ink, 1)
KeyLike(s)   == s.kind = "key" /\ s.chars \in Name /\ s.pad \in {<<>>} \cup Word(Blank, 1)
OpenLike(s)  == s.kind = "open" /\ s.chars \in Name

\* There is no other segment.
LEMMA SegmentKinds ==
    ASSUME NEW s \in Segment
    PROVE  TextLike(s) \/ KeyLike(s) \/ OpenLike(s)
BY DEF Segment, TextLike, KeyLike, OpenLike

\* How each is written, and what it means.
LEMMA WrittenIs ==
    ASSUME NEW s
    PROVE  /\ TextLike(s) => Written(s) = s.chars /\ Meant(s) = s.chars
           /\ KeyLike(s)  => Written(s) = KeyText(s.pad, s.chars)
                             /\ Meant(s) = ValueOf(supplied, s.chars)
           /\ OpenLike(s) => Written(s) = OpenText(s.chars) /\ Meant(s) = OpenText(s.chars)
BY DEF TextLike, KeyLike, OpenLike, Written, Meant, KeyText, OpenText, Opening2, Closing2
\* Wherever a segment stands in a template, it renders to what it means.
LEMMA SegmentRenders ==
    ASSUME supplied \in Data, NEW s \in Segment, NEW C, C = CharsFor(supplied),
           NEW t \in Seq(C), NEW p \in Nat, 1 <= p, StandsAt(Written(s), t, p),
           OpenLike(s) => p + Len(Written(s)) = Len(t) + 1
    PROVE  RendersAs(t, supplied, p, Meant(s), p + Len(Written(s)))
<1>1. Values(supplied, C) /\ BracesIn(C)
  BY DataValues, CharsForParts
<1>2. CASE TextLike(s)
  <2>1. PICK w \in Seq(Ink) : w = s.chars /\ Len(w) = 1 /\ w[1] \in Ink
    BY <1>2, Singles DEF TextLike
  <2>2. w \in Seq(C)
    BY CharsForParts, SeqMonotonic
  <2>3. Plain(w, 1)
    BY <2>1, DraftingAssumption DEF Plain
  <2>4. Written(s) = w /\ Meant(s) = w
    BY <1>2, <2>1, WrittenIs
  <2> QED BY <1>1, <2>1, <2>2, <2>3, <2>4, TextSegment
<1>3. CASE KeyLike(s)
  <2>1. PICK k \in Seq(C) : k = s.chars /\ Trim(k) = k /\ Closeless(k)
    BY <1>3, Names DEF KeyLike
  <2>2. PICK pad \in Seq(C) : pad = s.pad /\ Blanks(pad) /\ Closeless(pad)
    BY <1>3, Pads DEF KeyLike
  <2>3. Written(s) = KeyText(pad, k) /\ Meant(s) = ValueOf(supplied, k)
    BY <1>3, <2>1, <2>2, WrittenIs
  <2> QED BY <1>1, <2>1, <2>2, <2>3, KeySegment
<1>4. CASE OpenLike(s)
  <2>1. PICK k \in Seq(C) : k = s.chars /\ Closeless(k)
    BY <1>4, Names DEF OpenLike
  <2>2. Written(s) = OpenText(k) /\ Meant(s) = OpenText(k)
    BY <1>4, <2>1, WrittenIs
  <2>3. PICK w : w = OpenText(k)
    OBVIOUS
  <2>4. p + Len(w) = Len(t) + 1
    BY <1>4, <2>2, <2>3
  <2> QED BY <1>1, <2>1, <2>2, <2>3, <2>4, OpenSegment
<1> QED BY <1>2, <1>3, <1>4, SegmentKinds

\* What is written and what is meant are texts.
LEMMA SegmentType ==
    ASSUME supplied \in Data, NEW s \in Segment
    PROVE  Written(s) \in Seq(CharsFor(supplied)) /\ Meant(s) \in Seq(CharsFor(supplied))
<1>1. PICK C : C = CharsFor(supplied)
  OBVIOUS
<1>2. PICK o \in Seq(C), c \in Seq(C) : o = Opening2 /\ c = Closing2
  BY <1>1, CharsForParts, TwoBraces
<1>3. CASE TextLike(s)
  <2>1. s.chars \in Seq(Ink)
    BY <1>3, Singles DEF TextLike
  <2>2. s.chars \in Seq(C)
    BY <1>1, <2>1, CharsForParts, SeqMonotonic
  <2> QED BY <1>1, <1>3, <2>2, WrittenIs
<1>4. CASE KeyLike(s)
  <2>1. PICK k \in Seq(C) : k = s.chars
    BY <1>1, <1>4, Names DEF KeyLike
  <2>2. PICK pad \in Seq(C) : pad = s.pad
    BY <1>1, <1>4, Pads DEF KeyLike
  <2>3. KeyText(pad, k) \in Seq(C)
    <3>1. o \o pad \o k \o pad \o c \in Seq(C)
      OBVIOUS
    <3> QED BY <1>2, <3>1 DEF KeyText
  <2>4. ValueOf(supplied, k) \in Seq(C)
    BY <1>1, DataValues DEF Values
  <2> QED BY <1>1, <1>4, <2>1, <2>2, <2>3, <2>4, WrittenIs
<1>5. CASE OpenLike(s)
  <2>1. PICK k \in Seq(C) : k = s.chars
    BY <1>1, <1>5, Names DEF OpenLike
  <2>2. OpenText(k) \in Seq(C)
    BY <1>2 DEF OpenText
  <2> QED BY <1>1, <1>5, <2>1, <2>2, WrittenIs
<1> QED BY <1>3, <1>4, <1>5, SegmentKinds

\* Nothing follows braces that were left open.
WellFormed(d) ==
    /\ d \in Seq(Segment)
    /\ \A n \in 1..Len(d) : OpenLike(d[n]) => n = Len(d)

\* A well-formed draft renders to what was meant.
LEMMA DraftRenders ==
    ASSUME supplied \in Data, WellFormed(draft)
    PROVE  Render(AsWritten, supplied) = AsMeant
<1>1. PICK C : C = CharsFor(supplied)
  OBVIOUS
<1>2. PICK m \in Nat : m = Len(draft) /\ DOMAIN draft = 1..m
  BY LenProperties DEF WellFormed
<1>3. \A n \in 1..m : draft[n] \in Segment
  BY <1>2, ElementOfSeq DEF WellFormed
<1> DEFINE W == [n \in 1..m |-> Written(draft[n])]
           M == [n \in 1..m |-> Meant(draft[n])]
<1>4. \A n \in 1..m : W[n] = Written(draft[n]) /\ M[n] = Meant(draft[n])
  OBVIOUS
<1>5. W \in Seq(Seq(C)) /\ M \in Seq(Seq(C)) /\ Len(W) = m /\ Len(M) = m
  <2>1. \A n \in 1..m : Written(draft[n]) \in Seq(C) /\ Meant(draft[n]) \in Seq(C)
    BY <1>1, <1>3, SegmentType
  <2> QED BY <2>1
<1>6. AsWritten = Joined(W) /\ AsMeant = Joined(M)
  BY <1>2 DEF AsWritten, AsMeant
<1> HIDE DEF W, M
<1>7. PICK t \in Seq(C) : t = Joined(W)
  BY <1>5, JoinedType DEF Joined
<1>8. ASSUME NEW n \in 1..m
      PROVE  RendersAs(Joined(W), supplied, Start(W, n), M[n], Start(W, n + 1))
  <2>1. PICK s \in Segment : s = draft[n]
    BY <1>3
  <2>2. PICK p \in Nat \ {0} : p = Start(W, n)
    BY <1>5, JoinedParts
  <2>3. Start(W, n + 1) = p + Len(Written(s)) /\ StandsAt(Written(s), t, p)
    BY <1>4, <1>5, <1>7, <2>1, <2>2, JoinedParts
  <2>4. OpenLike(s) => p + Len(Written(s)) = Len(t) + 1
    <3>1. OpenLike(s) => n = m
      BY <1>2, <2>1 DEF WellFormed
    <3>2. Start(W, m + 1) = Len(t) + 1
      <4>1. (m + 1) - 1 = m
        OBVIOUS
      <4> QED BY <1>5, <1>7, <4>1 DEF Start, Joined
    <3> QED BY <2>3, <3>1, <3>2
  <2>5. p \in Nat /\ 1 <= p
    OBVIOUS
  <2>6. RendersAs(t, supplied, p, Meant(s), p + Len(Written(s)))
    BY <1>1, <2>3, <2>4, <2>5, SegmentRenders
  <2> QED BY <1>4, <1>7, <2>1, <2>2, <2>3, <2>6
<1>9. EachRenders(W, M, supplied)
  BY <1>5, <1>8 DEF EachRenders
<1>10. Values(supplied, C)
  BY <1>1, DataValues
<1> QED BY <1>5, <1>6, <1>9, <1>10, RenderAll
-----------------------------------------------------------------------------
(* The table of templates. *)

\* Every stored template is the draft as it was written.
StoredAsWritten ==
    \A i \in DOMAIN templates :
        templates[i] \in [topic : Topic, body : {AsWritten}, status : {"active"},
                          deleted : BOOLEAN]

DraftInv == supplied \in Data /\ WellFormed(draft) /\ StoredAsWritten

\* The empty draft is well formed, and nothing is stored.
LEMMA DraftStart == DraftInit => DraftInv
<1> SUFFICES ASSUME DraftInit  PROVE DraftInv
  OBVIOUS
<1>1. DOMAIN templates = {}
  BY DEF DraftInit, Table!TemplatesInit
<1>2. draft \in Seq(Segment) /\ Len(draft) = 0 /\ supplied \in Data
  BY DEF DraftInit
<1>3. WellFormed(draft)
  BY <1>2 DEF WellFormed
<1> QED BY <1>1, <1>2, <1>3 DEF DraftInv, StoredAsWritten

\* Composing keeps a draft well formed; saving stores it, and retiring keeps it, as it is.
LEMMA DraftStep ==
    ASSUME DraftInv, [DraftNext]_drafting
    PROVE  DraftInv'
<1>1. supplied' = supplied /\ supplied \in Data
  BY DEF DraftInv, DraftNext, Compose, Save, Retire, drafting
<1>2. ASSUME NEW s \in Segment, Compose(s)  PROVE DraftInv'
  <2>1. DOMAIN templates' = {}
    BY <1>2 DEF Compose
  <2>2. PICK d \in Seq(Segment) : d = draft
    BY DEF DraftInv, WellFormed
  <2>3. \A n \in 1..Len(d) : ~OpenLike(d[n])
    <3>1. \A n \in DOMAIN d : d[n].kind # "open"
      BY <1>2, <2>2 DEF Compose
    <3>2. DOMAIN d = 1..Len(d)
      BY LenProperties
    <3> QED BY <3>1, <3>2 DEF OpenLike
  <2>4. PICK e \in Seq(Segment) : e = Append(d, s) /\ draft' = e
    BY <1>2, <2>2, AppendProperties DEF Compose
  <2>5. Len(e) = Len(d) + 1 /\ \A n \in 1..Len(d) : e[n] = d[n]
    BY <2>4, AppendProperties
  <2>6. ASSUME NEW n \in 1..Len(e), OpenLike(e[n])  PROVE n = Len(e)
    <3>1. n \notin 1..Len(d)
      BY <2>3, <2>5, <2>6
    <3> QED BY <2>5, <3>1
  <2>7. WellFormed(e)
    BY <2>6 DEF WellFormed
  <2> QED BY <1>1, <2>1, <2>4, <2>7 DEF DraftInv, StoredAsWritten
<1>3. draft' = draft => AsWritten' = AsWritten /\ WellFormed(draft)'
  BY DEF DraftInv, AsWritten
<1>4. ASSUME NEW i \in TemplateId, NEW topic \in Topic, Save(i, topic)  PROVE DraftInv'
  <2>1. draft' = draft
    BY <1>4 DEF Save
  <2>2. PICK row : row = Table!NewRow(topic, AsWritten, "active")
    OBVIOUS
  <2>3. DOMAIN templates = {} /\ templates' = Table!Stored(i, row)
    BY <1>4, <2>2 DEF Save, Table!CreateTemplate, Table!Write
  <2>4. DOMAIN templates' = {i} /\ templates'[i] = row
    BY <2>3 DEF Table!Stored
  <2>5. row \in [topic : Topic, body : {AsWritten}, status : {"active"}, deleted : BOOLEAN]
    BY <2>2 DEF Table!NewRow
  <2> QED BY <1>1, <1>3, <2>1, <2>4, <2>5 DEF DraftInv, StoredAsWritten
<1>5. ASSUME NEW i \in TemplateId, Retire(i)  PROVE DraftInv'
  <2>1. draft' = draft
    BY <1>5 DEF Retire
  <2>2. PICK row : row = [templates[i] EXCEPT !.deleted = TRUE]
    OBVIOUS
  <2>3. i \in DOMAIN templates /\ templates' = Table!Stored(i, row)
    BY <1>5, <2>2 DEF Retire, Table!SoftDelete, Table!Write
  <2>4. row \in [topic : Topic, body : {AsWritten}, status : {"active"}, deleted : BOOLEAN]
    BY <2>2, <2>3 DEF DraftInv, StoredAsWritten
  <2>5. \A j \in DOMAIN templates' :
            templates'[j] \in [topic : Topic, body : {AsWritten}, status : {"active"}, deleted : BOOLEAN]
    BY <2>3, <2>4 DEF DraftInv, StoredAsWritten, Table!Stored
  <2> QED BY <1>1, <1>3, <2>1, <2>5 DEF DraftInv, StoredAsWritten
<1>6. CASE UNCHANGED drafting
  BY <1>1, <1>3, <1>6 DEF drafting, DraftInv, StoredAsWritten
<1> QED BY <1>2, <1>4, <1>5, <1>6 DEF DraftNext

\* So the table holds drafts as they were written, always.
LEMMA DraftInvariance == DraftSpec => []DraftInv
<1>1. DraftInit => DraftInv
  BY DraftStart
<1>2. DraftInv /\ [DraftNext]_drafting => DraftInv'
  BY DraftStep
<1> QED BY <1>1, <1>2, PTL DEF DraftSpec

(***************************************************************************)
(* render_template_by_id answers with what the author meant, and refuses a *)
(* template unknown or retired: whatever was composed, of however many     *)
(* segments, keys and blanks, and whatever JSON was supplied, values that  *)
(* look like placeholders included.                                        *)
(***************************************************************************)
THEOREM RenderingIsFaithful == DraftSpec => []RendersAsMeant
<1>1. ASSUME DraftInv  PROVE RendersAsMeant
  <2>1. Render(AsWritten, supplied) = AsMeant
    BY <1>1, DraftRenders DEF DraftInv
  <2>2. ASSUME NEW i \in TemplateId
        PROVE  RenderTemplateById(i) =
                 IF i \in DOMAIN templates /\ ~templates[i].deleted THEN {AsMeant} ELSE {}
    <3>1. CASE i \in DOMAIN templates /\ ~templates[i].deleted
      <4>1. templates[i].body = AsWritten
        BY <1>1, <3>1 DEF DraftInv, StoredAsWritten
      <4>2. Table!FindById(i) = {AsWritten}
        BY <3>1, <4>1 DEF Table!FindById
      <4> QED BY <2>1, <3>1, <4>2 DEF RenderTemplateById
    <3>2. CASE ~(i \in DOMAIN templates /\ ~templates[i].deleted)
      <4>1. Table!FindById(i) = {}
        BY <3>2 DEF Table!FindById
      <4> QED BY <3>2, <4>1 DEF RenderTemplateById
    <3> QED BY <3>1, <3>2
  <2> QED BY <2>2 DEF RendersAsMeant
<1>2. DraftInv => RendersAsMeant
  BY <1>1
<1> QED BY <1>2, DraftInvariance, PTL
=============================================================================
