------------------------ MODULE AddressSpellingProofs -----------------------
(***************************************************************************)
(* Proofs about the dedup key: whatever alphabet, however long an address  *)
(* and however it is respelled, normalize_recipient_address gives back the *)
(* canonical address the caller meant.                                     *)
(***************************************************************************)
EXTENDS AddressSpelling, CharactersProofs

-----------------------------------------------------------------------------
(* The digits of a text. *)

\* One step of the recursion that collects them.
NextDigits(s, f, n) == IF n = 0 THEN <<>>
                         ELSE IF s[n] \in Digit THEN Append(f[n - 1], s[n])
                         ELSE f[n - 1]

\* The recursion has a solution up to every position.
LEMMA DigitsExist ==
    ASSUME NEW s, NEW m \in Nat
    PROVE  \E f : f = [n \in 0..m |-> NextDigits(s, f, n)]
<1> DEFINE Solved(k) == \E f : f = [n \in 0..k |-> NextDigits(s, f, n)]
           T == {k \in Nat : ~Solved(k)}
<1> SUFFICES ASSUME T # {}  PROVE FALSE
  OBVIOUS
<1>1. PICK k \in T : \A j \in T : k <= j
  BY LeastNatural
<1>2. CASE k = 0
  <2> DEFINE f == [n \in 0..0 |-> <<>>]
  <2>1. f = [n \in 0..0 |-> NextDigits(s, f, n)]
    BY DEF NextDigits
  <2>2. Solved(0)
    BY <2>1
  <2> QED BY <1>2, <2>2
<1>3. CASE k # 0
  <2>1. k - 1 \in Nat /\ k - 1 \notin T /\ k \in Nat
    BY <1>1, <1>3
  <2>2. PICK f : f = [n \in 0..(k - 1) |-> NextDigits(s, f, n)]
    BY <2>1
  <2> DEFINE g == [n \in 0..k |-> IF n = k THEN NextDigits(s, f, k) ELSE f[n]]
  <2>3. ASSUME NEW n \in 0..k  PROVE g[n] = NextDigits(s, g, n)
    <3>1. CASE n = k
      BY <1>3, <2>1, <3>1 DEF NextDigits
    <3>2. CASE n # k
      <4>1. f[n] = NextDigits(s, f, n)
        BY <2>1, <2>2, <3>2
      <4>2. n = 0 \/ g[n - 1] = f[n - 1]
        BY <2>1, <3>2
      <4> QED BY <2>1, <3>2, <4>1, <4>2 DEF NextDigits
    <3> QED BY <3>1, <3>2
  <2>4. g = [n \in 0..k |-> NextDigits(s, g, n)]
    BY <2>3
  <2> QED BY <1>1, <2>4
<1> QED BY <1>2, <1>3

\* DigitsUpTo is the solution of its recursion.
LEMMA DigitsRecursion ==
    ASSUME NEW s, Len(s) \in Nat
    PROVE  DigitsUpTo(s) = [n \in 0..Len(s) |-> NextDigits(s, DigitsUpTo(s), n)]
<1> DEFINE Solves(f) == f = [n \in 0..Len(s) |-> NextDigits(s, f, n)]
<1>1. DigitsUpTo(s) = CHOOSE f : Solves(f)
  BY DEF DigitsUpTo, NextDigits
<1>2. \E f : Solves(f)
  BY DigitsExist
<1> HIDE DEF Solves
<1>3. Solves(DigitsUpTo(s))
  BY <1>1, <1>2
<1> QED BY <1>3 DEF Solves

\* How it goes from one position to the next.
LEMMA DigitsStep ==
    ASSUME NEW S, NEW s \in Seq(S)
    PROVE  /\ DigitsUpTo(s)[0] = <<>>
           /\ \A n \in 1..Len(s) :
                 DigitsUpTo(s)[n] = IF s[n] \in Digit THEN Append(DigitsUpTo(s)[n - 1], s[n])
                                      ELSE DigitsUpTo(s)[n - 1]
<1>1. Len(s) \in Nat
  OBVIOUS
<1> DEFINE f == DigitsUpTo(s)
<1>2. f = [n \in 0..Len(s) |-> NextDigits(s, f, n)]
  BY <1>1, DigitsRecursion
<1> HIDE DEF f
<1>3. \A n \in 0..Len(s) : f[n] = NextDigits(s, f, n)
  BY <1>2
<1>4. f[0] = <<>>
  BY <1>1, <1>3 DEF NextDigits
<1>5. ASSUME NEW n \in 1..Len(s)
      PROVE  f[n] = IF s[n] \in Digit THEN Append(f[n - 1], s[n]) ELSE f[n - 1]
  BY <1>1, <1>3 DEF NextDigits
<1> QED BY <1>4, <1>5 DEF f

\* A stretch without a digit adds none.
LEMMA NoDigitsBetween ==
    ASSUME NEW S, NEW s \in Seq(S), NEW a \in 0..Len(s), NEW b \in a..Len(s),
           \A k \in (a + 1)..b : s[k] \notin Digit
    PROVE  DigitsUpTo(s)[b] = DigitsUpTo(s)[a]
<1> DEFINE T == {n \in Nat : n \in a..b /\ DigitsUpTo(s)[n] # DigitsUpTo(s)[a]}
<1>0. Len(s) \in Nat /\ a \in Nat /\ b \in Nat
  OBVIOUS
<1> SUFFICES ASSUME T # {}  PROVE FALSE
  BY <1>0
<1>1. PICK n \in T : \A k \in T : n <= k
  BY LeastNatural
<1>2. n \in Nat /\ n \in (a + 1)..b /\ n - 1 \in Nat /\ n - 1 \in a..b
  BY <1>0, <1>1
<1>3. DigitsUpTo(s)[n - 1] = DigitsUpTo(s)[a]
  BY <1>1, <1>2
<1>4. DigitsUpTo(s)[n] = DigitsUpTo(s)[n - 1]
  BY <1>0, <1>2, DigitsStep
<1> QED BY <1>1, <1>3, <1>4

\* s from i + 1 to u reads as t does from j + 1 to v.
ReadsAs(s, i, u, t, j, v) ==
    /\ u - i = v - j
    /\ \A k \in (i + 1)..u, l \in (j + 1)..v : l - j = k - i => t[l] = s[k]

\* Two texts that read the same over a stretch collect the same digits over it.
LEMMA SameStretch ==
    ASSUME NEW S, NEW s \in Seq(S), NEW t \in Seq(S),
           NEW i \in 0..Len(s), NEW u \in i..Len(s), NEW j \in 0..Len(t), NEW v \in j..Len(t),
           ReadsAs(s, i, u, t, j, v),
           DigitsUpTo(t)[j] = DigitsUpTo(s)[i]
    PROVE  DigitsUpTo(t)[v] = DigitsUpTo(s)[u]
<1> DEFINE T == {k \in Nat : k \in i..u /\ \E l \in j..v :
                                 l - j = k - i /\ DigitsUpTo(t)[l] # DigitsUpTo(s)[k]}
<1>0. /\ Len(s) \in Nat /\ Len(t) \in Nat /\ i \in Nat /\ j \in Nat /\ u \in Nat /\ v \in Nat
      /\ u - i = v - j
  BY DEF ReadsAs
<1> SUFFICES ASSUME DigitsUpTo(t)[v] # DigitsUpTo(s)[u]  PROVE FALSE
  OBVIOUS
<1>a. u \in i..u /\ v \in j..v
  BY <1>0
<1>b. u \in T
  BY <1>0, <1>a
<1>1. PICK k \in T : \A n \in T : k <= n
  BY <1>b, LeastNatural
<1>2. k \in i..u
  OBVIOUS
<1>3. PICK l \in j..v : l - j = k - i /\ DigitsUpTo(t)[l] # DigitsUpTo(s)[k]
  OBVIOUS
<1>4. k # i
  BY <1>0, <1>3
<1>5. /\ k \in 1..Len(s) /\ l \in 1..Len(t) /\ k \in (i + 1)..u /\ l \in (j + 1)..v
      /\ k - 1 \in i..u /\ l - 1 \in j..v /\ (l - 1) - j = (k - 1) - i /\ k - 1 \in Nat
  BY <1>0, <1>2, <1>3, <1>4
<1>6. k - 1 \notin T
  BY <1>1, <1>5
<1>7. DigitsUpTo(t)[l - 1] = DigitsUpTo(s)[k - 1]
  BY <1>5, <1>6
<1>8. t[l] = s[k]
  BY <1>3, <1>5 DEF ReadsAs
<1>9. DigitsUpTo(t)[l] = IF t[l] \in Digit THEN Append(DigitsUpTo(t)[l - 1], t[l])
                           ELSE DigitsUpTo(t)[l - 1]
  BY <1>5, DigitsStep
<1>10. DigitsUpTo(s)[k] = IF s[k] \in Digit THEN Append(DigitsUpTo(s)[k - 1], s[k])
                            ELSE DigitsUpTo(s)[k - 1]
  BY <1>5, DigitsStep
<1> QED BY <1>3, <1>7, <1>8, <1>9, <1>10

\* A text of digits is its digits.
LEMMA DigitsOfDigits ==
    ASSUME NEW s \in Seq(Digit)
    PROVE  DigitsIn(s) = s
<1> DEFINE T == {n \in Nat : n <= Len(s) /\ DigitsUpTo(s)[n] # SubSeq(s, 1, n)}
<1>0. Len(s) \in Nat /\ SubSeq(s, 1, Len(s)) = s
  BY SubSeqFull
<1> SUFFICES ASSUME T # {}  PROVE FALSE
  BY <1>0 DEF DigitsIn
<1>1. PICK n \in T : \A k \in T : n <= k
  BY LeastNatural
<1>2. n \in Nat /\ n <= Len(s) /\ DigitsUpTo(s)[n] # SubSeq(s, 1, n)
  BY <1>1
<1>3. n # 0
  <2>1. DigitsUpTo(s)[0] = <<>> /\ SubSeq(s, 1, 0) = <<>>
    BY DigitsStep, SubSeqEmpty
  <2> QED BY <1>2, <2>1
<1>4. n - 1 \in Nat /\ n - 1 <= Len(s) /\ n - 1 \notin T /\ n \in 1..Len(s)
  BY <1>0, <1>1, <1>2, <1>3
<1>5. DigitsUpTo(s)[n - 1] = SubSeq(s, 1, n - 1)
  BY <1>4
<1>6. s[n] \in Digit
  BY <1>4, ElementOfSeq
<1>7. DigitsUpTo(s)[n] = Append(SubSeq(s, 1, n - 1), s[n])
  BY <1>4, <1>5, <1>6, DigitsStep
<1>8. \A i \in 1..(n - 1) : s[i] \in Digit
  BY <1>4, ElementOfSeq
<1>9. SubSeq(s, 1, n - 1) \in Seq(Digit)
  BY <1>4, <1>8, SubSeqProperties
<1>10. Append(SubSeq(s, 1, n - 1), s[n]) = SubSeq(s, 1, n - 1) \o <<s[n]>>
  BY <1>6, <1>9, AppendIsConcat
<1>11. SubSeq(s, 1, n) = SubSeq(s, 1, n - 1) \o <<s[n]>>
  BY <1>0, <1>4, SubSeqRecursiveSecond
<1> QED BY <1>2, <1>7, <1>10, <1>11

\* Neither does a plus before them change them.
LEMMA DigitsAfterPlus ==
    ASSUME NEW s \in Seq(Digit), "+" \notin Digit
    PROVE  DigitsIn(<<"+">> \o s) = s
<1> DEFINE C == Digit \cup {"+"}
           t == <<"+">> \o s
<1>1. s \in Seq(C) /\ <<"+">> \in Seq(C) /\ Len(<<"+">>) = 1 /\ Len(s) \in Nat
  OBVIOUS
<1>2. t \in Seq(C) /\ Len(t) = 1 + Len(s)
  BY <1>1, ConcatProperties
<1>3. t[1] = "+" /\ \A k \in 1..Len(s) : t[1 + k] = s[k]
  OBVIOUS
<1> HIDE DEF t, C
<1>4. DigitsUpTo(t)[1] = DigitsUpTo(t)[0]
  BY <1>1, <1>2, <1>3, DigitsStep
<1>5. DigitsUpTo(t)[1] = DigitsUpTo(s)[0]
  BY <1>1, <1>2, <1>4, DigitsStep
<1>6. DigitsUpTo(t)[Len(t)] = DigitsUpTo(s)[Len(s)]
  <2>1. ReadsAs(s, 0, Len(s), t, 1, Len(t))
    BY <1>1, <1>2, <1>3 DEF ReadsAs
  <2>2. /\ 0 \in 0..Len(s) /\ 1 \in 0..Len(t) /\ Len(s) \in 0..Len(s) /\ Len(t) \in 1..Len(t)
    BY <1>1, <1>2
  <2> QED BY <1>1, <1>2, <1>5, <2>1, <2>2, SameStretch
<1> QED BY <1>6, DigitsOfDigits DEF DigitsIn, t

\* The digits of a part of a text that follows on no digits.
LEMMA DigitsOfPart ==
    ASSUME NEW S, NEW s \in Seq(S), NEW t \in Seq(S),
           NEW i \in 0..Len(s), NEW u \in i..Len(s), Len(t) = u - i,
           \A l \in 1..Len(t) : t[l] = s[i + l],
           DigitsUpTo(s)[i] = <<>>
    PROVE  DigitsIn(t) = DigitsUpTo(s)[u]
<1>0. Len(s) \in Nat /\ Len(t) \in Nat /\ i \in Nat /\ u \in Nat /\ i <= u
  OBVIOUS
<1>1. PICK j \in 0..Len(t) : j = 0
  BY <1>0
<1>2. PICK v \in j..Len(t) : v = Len(t)
  BY <1>0, <1>1
<1>3. ASSUME NEW k \in (i + 1)..u, NEW l \in (j + 1)..v, l - j = k - i
      PROVE  t[l] = s[k]
  <2>1. l \in 1..Len(t) /\ k = i + l
    BY <1>0, <1>1, <1>2, <1>3
  <2> QED BY <2>1
<1>4. ReadsAs(s, i, u, t, j, v)
  BY <1>0, <1>1, <1>2, <1>3 DEF ReadsAs
<1>5. DigitsUpTo(t)[j] = DigitsUpTo(s)[i]
  BY <1>1, DigitsStep
<1>6. DigitsUpTo(t)[v] = DigitsUpTo(s)[u]
  BY <1>4, <1>5, SameStretch
<1> QED BY <1>2, <1>6 DEF DigitsIn

\* White space at the ends holds no digits.
LEMMA TrimKeepsDigits ==
    ASSUME NEW S, NEW s \in Seq(S), Digit \cap Blank = {}
    PROVE  DigitsIn(Trim(s)) = DigitsIn(s)
<1>0. DOMAIN s = 1..Len(s) /\ Len(s) \in Nat
  OBVIOUS
<1>1. CASE Blanks(s)
  <2>1. \A k \in 1..Len(s) : s[k] \notin Digit
    BY <1>0, <1>1 DEF Blanks
  <2>2. DigitsUpTo(s)[Len(s)] = DigitsUpTo(s)[0]
    BY <1>0, <2>1, NoDigitsBetween
  <2>3. <<>> \in Seq(S) /\ Len(<<>>) = 0
    OBVIOUS
  <2> QED BY <1>1, <2>2, <2>3, TrimOfBlanks, DigitsStep DEF DigitsIn
<1>2. ASSUME NEW a \in DOMAIN s, NEW b \in DOMAIN s, Inked(s, a, b)
      PROVE  DigitsIn(Trim(s)) = DigitsIn(s)
  <2> DEFINE t == SubSeq(s, a, b)
             m == (b - a) + 1
  <2>1. Trim(s) = t /\ a <= b /\ a \in 1..Len(s) /\ b \in 1..Len(s)
    BY <1>2, TrimIsInked
  <2>2. m \in Nat /\ a \in Nat /\ b \in Nat /\ a # 0 /\ b <= Len(s)
    BY <1>0, <2>1
  <2>3. \A k \in a..b : s[k] \in S
    BY <1>0, <2>1
  <2>4. t \in Seq(S) /\ Len(t) = m /\ \A k \in 1..m : t[k] = s[a + k - 1]
    BY <1>0, <2>1, <2>3, SubSeqProperties
  <2> HIDE DEF t
  <2>5. PICK i \in 0..Len(s) : i = a - 1
    BY <1>0, <2>2
  <2>6. DigitsUpTo(s)[i] = DigitsUpTo(s)[0]
    <3>1. \A k \in (0 + 1)..i : s[k] \notin Digit
      BY <1>2, <2>5 DEF Inked
    <3>2. 0 \in 0..Len(s) /\ i \in 0..i
      BY <1>0, <2>5
    <3> QED BY <2>5, <3>1, <3>2, NoDigitsBetween
  <2>7. DigitsIn(t) = DigitsUpTo(s)[b]
    <3>1. b \in i..Len(s) /\ Len(t) = b - i
      BY <1>0, <2>1, <2>2, <2>4, <2>5
    <3>2. \A l \in 1..Len(t) : t[l] = s[i + l]
      <4>1. \A l \in 1..m : a + l - 1 = i + l
        BY <2>2, <2>5
      <4> QED BY <2>4, <4>1
    <3>3. DigitsUpTo(s)[i] = <<>>
      BY <2>6, DigitsStep
    <3>4. s \in Seq(S) /\ t \in Seq(S) /\ i \in 0..Len(s)
      BY <2>4
    <3> QED BY ONLY <3>1, <3>2, <3>3, <3>4, DigitsOfPart
  <2>8. DigitsUpTo(s)[Len(s)] = DigitsUpTo(s)[b]
    <3>1. \A k \in (b + 1)..Len(s) : s[k] \notin Digit
      BY <1>2 DEF Inked
    <3>2. b \in 0..Len(s) /\ Len(s) \in b..Len(s)
      BY <1>0, <2>1
    <3> QED BY <3>1, <3>2, NoDigitsBetween
  <2> QED BY <2>1, <2>7, <2>8 DEF DigitsIn
<1> QED BY <1>1, <1>2, InkedOrBlank

\* And nothing but digits is collected.
LEMMA DigitsAreDigits ==
    ASSUME NEW S, NEW s \in Seq(S)
    PROVE  DigitsIn(s) \in Seq(Digit)
<1> DEFINE T == {n \in Nat : n <= Len(s) /\ DigitsUpTo(s)[n] \notin Seq(Digit)}
<1>0. Len(s) \in Nat
  OBVIOUS
<1> SUFFICES ASSUME T # {}  PROVE FALSE
  BY <1>0 DEF DigitsIn
<1>1. PICK n \in T : \A k \in T : n <= k
  BY LeastNatural
<1>2. n \in Nat /\ n <= Len(s) /\ DigitsUpTo(s)[n] \notin Seq(Digit)
  BY <1>1
<1>3. n # 0
  <2>1. DigitsUpTo(s)[0] = <<>> /\ <<>> \in Seq(Digit)
    BY DigitsStep
  <2> QED BY <1>2, <2>1
<1>4. n - 1 \in Nat /\ n - 1 \notin T /\ n - 1 <= Len(s) /\ n \in 1..Len(s)
  BY <1>0, <1>1, <1>2, <1>3
<1>5. DigitsUpTo(s)[n - 1] \in Seq(Digit)
  BY <1>4
<1>6. DigitsUpTo(s)[n] = IF s[n] \in Digit THEN Append(DigitsUpTo(s)[n - 1], s[n])
                           ELSE DigitsUpTo(s)[n - 1]
  BY <1>4, DigitsStep
<1> QED BY <1>2, <1>5, <1>6, AppendProperties

-----------------------------------------------------------------------------
(* One character more in a text. *)

\* t is s with c inserted after its first i characters.
Inserted(t, s, i, c) ==
    /\ Len(t) = Len(s) + 1
    /\ t[i + 1] = c
    /\ \A k \in 1..i : t[k] = s[k]
    /\ \A k \in (i + 1)..Len(s) : t[k + 1] = s[k]

\* What Pad and Punctuate write has that form, and stays over its alphabet.
LEMMA InsertInserts ==
    ASSUME NEW S, NEW s \in Seq(S), NEW c \in S, NEW i \in 0..Len(s)
    PROVE  Insert(s, i, c) \in Seq(S) /\ Inserted(Insert(s, i, c), s, i, c)
<1> DEFINE l == SubSeq(s, 1, i)
           r == SubSeq(s, i + 1, Len(s))
           t == (l \o <<c>>) \o r
<1>0. Len(s) \in Nat /\ i \in Nat /\ i <= Len(s) /\ \A k \in 1..Len(s) : s[k] \in S
  OBVIOUS
<1>1. l \in Seq(S) /\ Len(l) = i /\ \A k \in 1..i : l[k] = s[k]
  <2>1. \A k \in 1..i : s[k] \in S
    BY <1>0
  <2>2. /\ SubSeq(s, 1, i) \in Seq(S)
        /\ Len(SubSeq(s, 1, i)) = IF 1 <= i THEN i - 1 + 1 ELSE 0
        /\ \A k \in 1..(i - 1 + 1) : SubSeq(s, 1, i)[k] = s[1 + k - 1]
    BY <1>0, <2>1, SubSeqProperties
  <2> QED BY <1>0, <2>2
<1>2. r \in Seq(S) /\ Len(r) = Len(s) - i /\ \A k \in 1..(Len(s) - i) : r[k] = s[i + k]
  <2>1. \A k \in (i + 1)..Len(s) : s[k] \in S
    BY <1>0
  <2>2. /\ SubSeq(s, i + 1, Len(s)) \in Seq(S)
        /\ Len(SubSeq(s, i + 1, Len(s))) =
              IF i + 1 <= Len(s) THEN Len(s) - (i + 1) + 1 ELSE 0
        /\ \A k \in 1..(Len(s) - (i + 1) + 1) :
              SubSeq(s, i + 1, Len(s))[k] = s[(i + 1) + k - 1]
    BY <1>0, <2>1, SubSeqProperties
  <2> QED BY <1>0, <2>2
<1> HIDE DEF l, r
<1>3. <<c>> \in Seq(S) /\ Len(<<c>>) = 1 /\ <<c>>[1] = c
  OBVIOUS
<1>4. /\ l \o <<c>> \in Seq(S) /\ Len(l \o <<c>>) = i + 1
      /\ \A k \in 1..i : (l \o <<c>>)[k] = s[k]
      /\ (l \o <<c>>)[i + 1] = c
  BY <1>0, <1>1, <1>3, ConcatProperties
<1>5. /\ t \in Seq(S) /\ Len(t) = Len(s) + 1
      /\ \A k \in 1..(i + 1) : t[k] = (l \o <<c>>)[k]
      /\ \A k \in 1..(Len(s) - i) : t[i + 1 + k] = r[k]
  BY <1>0, <1>2, <1>4, ConcatProperties
<1> HIDE DEF t
<1>6. t[i + 1] = c /\ \A k \in 1..i : t[k] = s[k]
  BY <1>0, <1>4, <1>5
<1>7. ASSUME NEW k \in (i + 1)..Len(s)  PROVE t[k + 1] = s[k]
  <2>1. PICK n \in 1..(Len(s) - i) : n = k - i
    BY <1>0
  <2>2. t[i + 1 + n] = r[n] /\ r[n] = s[i + n]
    BY <1>2, <1>5
  <2>3. i + 1 + n = k + 1 /\ i + n = k
    BY <1>0, <2>1
  <2> QED BY <2>2, <2>3
<1>8. Inserted(t, s, i, c)
  BY <1>5, <1>6, <1>7 DEF Inserted
<1> QED BY <1>5, <1>8 DEF Insert, t, l, r

\* Padding inserts a character at one of the ends.
LEMMA PadInserts ==
    ASSUME NEW S, NEW s \in Seq(S), NEW c \in S
    PROVE  /\ <<c>> \o s \in Seq(S) /\ Inserted(<<c>> \o s, s, 0, c)
           /\ Append(s, c) \in Seq(S) /\ Inserted(Append(s, c), s, Len(s), c)
<1>0. Len(s) \in Nat
  OBVIOUS
<1>1. <<c>> \in Seq(S) /\ Len(<<c>>) = 1 /\ <<c>>[1] = c
  OBVIOUS
<1> DEFINE t == <<c>> \o s
<1>2. t \in Seq(S) /\ Len(t) = Len(s) + 1
      /\ \A k \in 1..(1 + Len(s)) : t[k] = IF k <= 1 THEN <<c>>[k] ELSE s[k - 1]
  BY <1>0, <1>1, ConcatProperties
<1> HIDE DEF t
<1>3. t[1] = c /\ \A k \in 1..Len(s) : t[k + 1] = s[k]
  BY <1>0, <1>1, <1>2
<1>4. Inserted(t, s, 0, c)
  BY <1>0, <1>2, <1>3 DEF Inserted
<1>5. Append(s, c) \in Seq(S) /\ Inserted(Append(s, c), s, Len(s), c)
  BY <1>0, AppendProperties DEF Inserted
<1> QED BY <1>2, <1>4, <1>5 DEF t

\* A character that is no digit leaves the digits alone.
LEMMA InsertKeepsDigits ==
    ASSUME NEW S, NEW s \in Seq(S), NEW t \in Seq(S), NEW i \in 0..Len(s),
           NEW c, c \notin Digit, Inserted(t, s, i, c)
    PROVE  DigitsIn(t) = DigitsIn(s)
<1>0. Len(s) \in Nat /\ Len(t) \in Nat /\ i \in Nat /\ i <= Len(s) /\ Len(t) = Len(s) + 1
  BY DEF Inserted
<1>1. PICK z \in 0..Len(s) : z = 0
  BY <1>0
<1>2. DigitsUpTo(t)[i] = DigitsUpTo(s)[i]
  <2>1. ReadsAs(s, z, i, t, z, i)
    BY <1>0, <1>1 DEF Inserted, ReadsAs
  <2>2. DigitsUpTo(t)[z] = DigitsUpTo(s)[z]
    BY <1>1, DigitsStep
  <2>3. /\ s \in Seq(S) /\ z \in 0..Len(s) /\ i \in z..Len(s)
        /\ t \in Seq(S) /\ z \in 0..Len(t) /\ i \in z..Len(t)
    BY <1>0, <1>1
  <2> QED BY <2>1, <2>2, <2>3, SameStretch
<1>3. PICK j \in 0..Len(t) : j = i + 1
  BY <1>0
<1>4. DigitsUpTo(t)[j] = DigitsUpTo(s)[i]
  <2>1. t[j] \notin Digit /\ j \in 1..Len(t) /\ j - 1 = i
    BY <1>0, <1>3 DEF Inserted
  <2> QED BY <1>2, <2>1, DigitsStep
<1>5. PICK u \in i..Len(s), v \in j..Len(t) : u = Len(s) /\ v = Len(t)
  BY <1>0, <1>3
<1>6. DigitsUpTo(t)[v] = DigitsUpTo(s)[u]
  <2>1. ReadsAs(s, i, u, t, j, v)
    <3>1. ASSUME NEW k \in (i + 1)..u, NEW l \in (j + 1)..v, l - j = k - i
          PROVE  t[l] = s[k]
      <4>1. l = k + 1 /\ k \in (i + 1)..Len(s)
        BY <1>0, <1>3, <1>5, <3>1
      <4> QED BY <4>1 DEF Inserted
    <3> QED BY <1>0, <1>3, <1>5, <3>1 DEF ReadsAs
  <2> QED BY <1>4, <2>1, SameStretch
<1> QED BY <1>5, <1>6 DEF DigitsIn

\* A part read at a distance d is the same part.
LEMMA SubSeqShifted ==
    ASSUME NEW S, NEW s \in Seq(S), NEW t \in Seq(S), NEW d \in Nat,
           NEW a \in 1..Len(s), NEW b \in a..Len(s), b + d <= Len(t),
           \A k \in a..b : t[k + d] = s[k]
    PROVE  SubSeq(t, a + d, b + d) = SubSeq(s, a, b)
<1>0. /\ Len(s) \in Nat /\ Len(t) \in Nat /\ a \in Int /\ b \in Int
      /\ a + d \in Int /\ b + d \in Int /\ 1 <= a /\ a <= b /\ b <= Len(s)
  OBVIOUS
<1>1. PICK m \in Nat : m = b - a + 1
  BY <1>0
<1>2. \A k \in a..b : s[k] \in S
  BY <1>0
<1>3. \A k \in (a + d)..(b + d) : t[k] \in S
  BY <1>0
<1> DEFINE l == SubSeq(t, a + d, b + d)
           r == SubSeq(s, a, b)
<1>4. r \in Seq(S) /\ Len(r) = m /\ \A k \in 1..m : r[k] = s[a + k - 1]
  BY <1>0, <1>1, <1>2, SubSeqProperties
<1>5. l \in Seq(S) /\ Len(l) = m /\ \A k \in 1..m : l[k] = t[(a + d) + k - 1]
  BY <1>0, <1>1, <1>3, SubSeqProperties
<1> HIDE DEF l, r
<1>6. ASSUME NEW k \in 1..m  PROVE l[k] = r[k]
  <2>1. PICK n \in a..b : n = a + k - 1
    BY <1>0, <1>1
  <2>2. (a + d) + k - 1 = n + d
    BY <1>0, <2>1
  <2> QED BY <1>4, <1>5, <2>1, <2>2
<1>7. l = r
  BY <1>4, <1>5, <1>6, SeqEqual
<1> QED BY <1>7 DEF l, r

\* White space at either end is trimmed away.
LEMMA TrimOfPadded ==
    ASSUME NEW S, NEW s \in Seq(S), NEW t \in Seq(S), NEW i \in 0..Len(s),
           i = 0 \/ i = Len(s), NEW c \in Blank, Inserted(t, s, i, c)
    PROVE  Trim(t) = Trim(s)
<1>0. Len(s) \in Nat /\ Len(t) \in Nat /\ Len(t) = Len(s) + 1 /\ i \in Nat /\ i <= Len(s)
  BY DEF Inserted
<1>a. DOMAIN s = 1..Len(s) /\ DOMAIN t = 1..Len(t)
  OBVIOUS
<1>b. t[i + 1] \in Blank
  BY DEF Inserted
<1>1. CASE Blanks(s)
  <2>0. \A k \in 1..Len(s) : s[k] \in Blank
    BY <1>a, <1>1 DEF Blanks
  <2>1. ASSUME NEW k \in 1..Len(t)  PROVE t[k] \in Blank
    <3>1. CASE k \in 1..i
      BY <1>0, <2>0, <3>1 DEF Inserted
    <3>2. CASE k = i + 1
      BY <1>b, <3>2
    <3>3. CASE k \in (i + 2)..Len(t)
      <4>1. PICK n \in (i + 1)..Len(s) : k = n + 1 /\ n \in 1..Len(s)
        BY <1>0, <3>3
      <4>2. t[n + 1] = s[n]
        BY DEF Inserted
      <4> QED BY <2>0, <4>1, <4>2
    <3> QED BY <1>0, <3>1, <3>2, <3>3
  <2> QED BY <1>a, <1>1, <2>1, TrimOfBlanks DEF Blanks
<1>2. ASSUME NEW a \in 1..Len(s), NEW b \in 1..Len(s), Inked(s, a, b)
      PROVE  Trim(t) = Trim(s)
  <2>a. Trim(s) = SubSeq(s, a, b) /\ a <= b
    BY <1>2, TrimIsInked
  <2>0. a \in Nat /\ b \in Nat /\ 1 <= a /\ a <= b /\ b <= Len(s)
    BY <1>0, <2>a
  <2>1. PICK d \in 0..1 : d = IF i = 0 THEN 1 ELSE 0
    OBVIOUS
  <2>2. \A k \in 1..Len(s) : t[k + d] = s[k]
    BY <1>0, <2>1 DEF Inserted
  <2>3. \A k \in 1..Len(t) : k \in (d + 1)..(Len(s) + d) \/ t[k] \in Blank
    BY <1>0, <1>b, <2>1
  <2>4. ASSUME NEW k \in 1..(a + d - 1)  PROVE t[k] \in Blank
    <3>1. CASE k <= d
      BY <1>0, <2>0, <2>3, <3>1
    <3>2. CASE k > d
      <4>1. k - d \in 1..(a - 1) /\ k - d \in 1..Len(s) /\ (k - d) + d = k
        BY <1>0, <2>0, <3>2
      <4> QED BY <1>2, <2>2, <4>1 DEF Inked
    <3> QED BY <2>0, <3>1, <3>2
  <2>5. ASSUME NEW k \in (b + d + 1)..Len(t)  PROVE t[k] \in Blank
    <3>1. CASE k > Len(s) + d
      BY <1>0, <2>0, <2>3, <3>1
    <3>2. CASE k <= Len(s) + d
      <4>1. k - d \in (b + 1)..Len(s) /\ k - d \in 1..Len(s) /\ (k - d) + d = k
        BY <1>0, <2>0, <3>2
      <4> QED BY <1>2, <2>2, <4>1 DEF Inked
    <3> QED BY <1>0, <2>0, <3>1, <3>2
  <2>6. Inked(t, a + d, b + d)
    <3>1. t[a + d] \notin Blank /\ t[b + d] \notin Blank
      BY <1>2, <2>2 DEF Inked
    <3>2. a + d \in 1..Len(t) /\ b + d \in 1..Len(t)
      BY <1>0, <2>0
    <3>3. a + d \in DOMAIN t /\ b + d \in DOMAIN t
      BY <1>a, <3>2
    <3>4. \A k \in 1..(a + d - 1) : t[k] \in Blank
      BY <2>4
    <3>5. \A k \in (b + d + 1)..Len(t) : t[k] \in Blank
      BY <2>5
    <3> QED BY ONLY <3>1, <3>3, <3>4, <3>5 DEF Inked
  <2>7. Trim(t) = SubSeq(t, a + d, b + d)
    BY <2>6, TrimIsInked
  <2>8. SubSeq(t, a + d, b + d) = SubSeq(s, a, b)
    <3>1. b \in a..Len(s) /\ b + d <= Len(t) /\ d \in Nat
      BY <1>0, <2>0
    <3>2. \A k \in a..b : t[k + d] = s[k]
      BY <1>0, <2>0, <2>2
    <3> QED BY <2>0, <3>1, <3>2, SubSeqShifted
  <2> QED BY <2>a, <2>7, <2>8
<1> QED BY <1>a, <1>1, <1>2, InkedOrBlank

\* A capital for a letter leaves the mailbox as it was.
LEMMA CapitalOfMailbox ==
    ASSUME NEW S, NEW s \in Seq(S), NEW c \in S, c \in DOMAIN Lower,
           NEW i \in 1..Len(s), s[i] = Lower[c]
    PROVE  /\ [s EXCEPT ![i] = c] \in Seq(S)
           /\ Lowercase(Trim([s EXCEPT ![i] = c])) = Lowercase(Trim(s))
<1> DEFINE t == [s EXCEPT ![i] = c]
<1>a. DOMAIN s = 1..Len(s) /\ Len(s) \in Nat
  OBVIOUS
<1>b. c \notin Blank /\ Lower[c] \notin Blank /\ Lower[c] \notin DOMAIN Lower
  BY SpellingAssumption
<1>1. t \in Seq(S) /\ Len(t) = Len(s)
  BY <1>a, ExceptSeq
<1>2. \A k \in 1..Len(s) : t[k] = IF k = i THEN c ELSE s[k]
  BY <1>a
<1> HIDE DEF t
<1>3. \A k \in 1..Len(s) : t[k] \in Blank <=> s[k] \in Blank
  BY <1>b, <1>2
<1>c. DOMAIN t = 1..Len(s)
  BY <1>1
<1>4. CASE Blanks(s)
  <2>1. Blanks(t)
    BY <1>a, <1>c, <1>3, <1>4 DEF Blanks
  <2> QED BY <1>1, <1>4, <2>1, TrimOfBlanks DEF t
<1>5. ASSUME NEW a \in 1..Len(s), NEW b \in 1..Len(s), Inked(s, a, b)
      PROVE  Lowercase(Trim(t)) = Lowercase(Trim(s))
  <2>1. Trim(s) = SubSeq(s, a, b) /\ a <= b
    BY <1>5, TrimIsInked
  <2>0. a \in Int /\ b \in Int /\ 1 <= a /\ a <= b /\ b <= Len(s)
    BY <1>a, <2>1
  <2>2. Inked(t, a, b)
    <3>1. a \in DOMAIN t /\ b \in DOMAIN t
      BY <1>c
    <3>2. t[a] \notin Blank /\ t[b] \notin Blank
      BY <1>3, <1>5 DEF Inked
    <3>3. \A k \in 1..(a - 1) : k \in 1..Len(s) /\ t[k] \in Blank
      BY <1>a, <1>3, <1>5, <2>0 DEF Inked
    <3>4. \A k \in (b + 1)..Len(t) : k \in 1..Len(s) /\ t[k] \in Blank
      BY <1>a, <1>1, <1>3, <1>5, <2>0 DEF Inked
    <3> QED BY ONLY <3>1, <3>2, <3>3, <3>4 DEF Inked
  <2>3. Trim(t) = SubSeq(t, a, b)
    BY <1>1, <2>2, TrimIsInked
  <2>4. PICK m \in Nat : m = b - a + 1
    BY <2>0
  <2> DEFINE l == SubSeq(t, a, b)
             r == SubSeq(s, a, b)
  <2>5. r \in Seq(S) /\ Len(r) = m /\ \A k \in 1..m : r[k] = s[a + k - 1]
    <3>1. \A k \in a..b : s[k] \in S
      BY <2>0
    <3> QED BY <2>0, <2>4, <3>1, SubSeqProperties
  <2>6. l \in Seq(S) /\ Len(l) = m /\ \A k \in 1..m : l[k] = t[a + k - 1]
    <3>1. \A k \in a..b : t[k] \in S
      BY <1>1, <2>0
    <3> QED BY <2>0, <2>4, <3>1, SubSeqProperties
  <2> HIDE DEF l, r
  <2>7. ASSUME NEW k \in 1..m
        PROVE  (IF l[k] \in DOMAIN Lower THEN Lower[l[k]] ELSE l[k])
                  = (IF r[k] \in DOMAIN Lower THEN Lower[r[k]] ELSE r[k])
    <3>1. PICK n \in 1..Len(s) : n = a + k - 1
      BY <1>a, <2>0, <2>4
    <3>2. l[k] = t[n] /\ r[k] = s[n]
      BY <2>5, <2>6, <3>1
    <3> QED BY <1>b, <1>2, <3>2
  <2>8. DOMAIN l = 1..m /\ DOMAIN r = 1..m
    BY <2>5, <2>6
  <2>9. Lowercase(l) = Lowercase(r)
    BY <2>7, <2>8 DEF Lowercase
  <2> QED BY <2>1, <2>3, <2>9 DEF l, r
<1> QED BY <1>a, <1>1, <1>4, <1>5, InkedOrBlank DEF t

-----------------------------------------------------------------------------
(* Every spelling stays a spelling of what was meant. *)

\* All that a spelling may be written with.
Alphabet == Digit \cup Blank \cup Punctuation \cup Structural \cup DOMAIN Lower \cup {"+"}

\* A plus opens the text, white space aside.
PlusFirst(s) == \E a \in 1..Len(s) : s[a] = "+" /\ \A k \in 1..(a - 1) : s[k] \in Blank

NoPlus(s) == \A k \in 1..Len(s) : s[k] # "+"

SpeltAsMeant(p) ==
    IF channel = "email" THEN Lowercase(Trim(spelled[p])) = meant[p]
      ELSE /\ DigitsIn(spelled[p]) = DigitsIn(meant[p])
           /\ IF meant[p][1] = "+" THEN PlusFirst(spelled[p]) ELSE NoPlus(spelled[p])

(***************************************************************************)
(* The inductive invariant: a mailbox is never more than capitals and      *)
(* outer white space away from the one meant; a number keeps the digits    *)
(* of the one meant, in their order, and opens with a plus exactly if it   *)
(* does.                                                                   *)
(***************************************************************************)
SpellingInv ==
    /\ meant \in [{1, 2} -> CanonicalAddress(channel)]
    /\ spelled \in [{1, 2} -> Seq(Alphabet)]
    /\ \A p \in {1, 2} : SpeltAsMeant(p)

\* The texts of bounded length are texts of at least one character.
LEMMA WordsAreTexts ==
    ASSUME NEW S, NEW n \in Nat, NEW w \in Word(S, n)
    PROVE  w \in Seq(S) /\ Len(w) \in Nat \ {0}
<1>1. PICK k \in 1..n : w \in [1..k -> S]
  BY DEF Word
<1>2. w \in Seq(S) /\ Len(w) = k
  BY <1>1, SeqDef
<1> QED BY <1>2

\* A canonical number is two digits or more, or a plus and then digits.
LEMMA CanonicalNumbers ==
    ASSUME NEW ch, ch # "email", NEW m \in CanonicalAddress(ch)
    PROVE  \E d \in Seq(Digit) : \/ m = d /\ Len(d) >= 2
                                 \/ m = <<"+">> \o d /\ Len(d) >= 1
<1>0. MaxCanonical \in Nat /\ MaxCanonical - 1 \in Nat
  BY SpellingAssumption
<1>1. CASE m \in Word(Digit, MaxCanonical) /\ Len(m) >= 2
  BY <1>0, <1>1, WordsAreTexts
<1>2. ASSUME NEW d \in Word(Digit, MaxCanonical - 1), m = <<"+">> \o d
      PROVE  d \in Seq(Digit) /\ Len(d) >= 1
  BY <1>0, WordsAreTexts
<1>3. \/ m \in Word(Digit, MaxCanonical) /\ Len(m) >= 2
      \/ \E d \in Word(Digit, MaxCanonical - 1) : m = <<"+">> \o d
  BY DEF CanonicalAddress
<1> QED BY <1>1, <1>2, <1>3

\* A canonical address is a text, and not an empty one.
LEMMA CanonicalTexts ==
    ASSUME NEW ch, NEW m \in CanonicalAddress(ch)
    PROVE  m \in Seq(Alphabet) /\ m # <<>>
<1>1. CASE ch = "email"
  <2>1. m \in Word(Structural, MaxCanonical) /\ MaxCanonical \in Nat
    BY <1>1, SpellingAssumption DEF CanonicalAddress
  <2>2. m \in Seq(Structural) /\ Len(m) \in Nat \ {0}
    BY <2>1, WordsAreTexts
  <2> QED BY <2>2 DEF Alphabet
<1>2. CASE ch # "email"
  <2>1. PICK d \in Seq(Digit) : \/ m = d /\ Len(d) >= 2
                                \/ m = <<"+">> \o d /\ Len(d) >= 1
    BY <1>2, CanonicalNumbers
  <2>2. d \in Seq(Alphabet) /\ <<"+">> \in Seq(Alphabet)
    BY DEF Alphabet
  <2>3. <<"+">> \o d \in Seq(Alphabet) /\ Len(<<"+">> \o d) = 1 + Len(d)
    BY <2>2, ConcatProperties
  <2>4. CASE m = d /\ Len(d) >= 2
    BY <2>2, <2>4
  <2>5. CASE m = <<"+">> \o d
    <3>1. m \in Seq(Alphabet) /\ Len(m) = 1 + Len(d) /\ Len(d) \in Nat
      BY <2>3, <2>5
    <3>2. Len(m) # 0
      BY <3>1
    <3> QED BY <3>1, <3>2
  <2> QED BY <2>1, <2>4, <2>5
<1> QED BY <1>1, <1>2

\* The canonical spelling is one of the spellings.
LEMMA SpellingInit_Inv == SpellingInit => SpellingInv
<1> SUFFICES ASSUME SpellingInit  PROVE SpellingInv
  OBVIOUS
<1>1. meant \in [{1, 2} -> CanonicalAddress(channel)] /\ spelled = meant
  BY DEF SpellingInit
<1>2. spelled \in [{1, 2} -> Seq(Alphabet)]
  BY <1>1, CanonicalTexts
<1>3. ASSUME NEW p \in {1, 2}  PROVE SpeltAsMeant(p)
  <2>1. PICK m \in CanonicalAddress(channel) : m = meant[p] /\ m = spelled[p]
    BY <1>1
  <2>2. CASE channel = "email"
    <3>1. m \in Word(Structural, MaxCanonical) /\ MaxCanonical \in Nat
      BY <2>2, SpellingAssumption DEF CanonicalAddress
    <3>2. m \in Seq(Structural) /\ Len(m) \in Nat \ {0}
      BY <3>1, WordsAreTexts
    <3>3. \A k \in 1..Len(m) : m[k] \in Structural
      BY <3>2
    <3>4. \A k \in 1..Len(m) : m[k] \notin Blank /\ m[k] \notin DOMAIN Lower
      BY <3>3, SpellingAssumption
    <3>5. Trim(m) = m
      BY <3>2, <3>4, TrimOfTrimmed
    <3>6. m = [k \in 1..Len(m) |-> m[k]] /\ DOMAIN m = 1..Len(m)
      BY <3>2
    <3>7. Lowercase(m) = m
      BY <3>4, <3>6 DEF Lowercase
    <3> QED BY <2>1, <2>2, <3>5, <3>7 DEF SpeltAsMeant
  <2>3. CASE channel # "email"
    <3>1. PICK d \in Seq(Digit) : \/ m = d /\ Len(d) >= 2
                                  \/ m = <<"+">> \o d /\ Len(d) >= 1
      BY <2>3, CanonicalNumbers
    <3>2. CASE m = d /\ Len(d) >= 2
      <4>1. \A k \in 1..Len(m) : m[k] \in Digit
        BY <3>2
      <4>2. NoPlus(m) /\ m[1] # "+"
        BY <3>2, <4>1, SpellingAssumption DEF NoPlus
      <4> QED BY <2>1, <2>3, <4>2 DEF SpeltAsMeant
    <3>3. CASE m = <<"+">> \o d /\ Len(d) >= 1
      <4>1. m[1] = "+" /\ Len(m) = 1 + Len(d)
        BY <3>3
      <4>2. PlusFirst(m)
        <5>1. 1 \in 1..Len(m) /\ \A k \in 1..(1 - 1) : m[k] \in Blank
          BY <4>1
        <5> QED BY <4>1, <5>1 DEF PlusFirst
      <4> QED BY <2>1, <2>3, <4>1, <4>2 DEF SpeltAsMeant
    <3> QED BY <3>1, <3>2, <3>3
  <2> QED BY <2>2, <2>3
<1> QED BY <1>1, <1>2, <1>3 DEF SpellingInv

\* The facts about the plus that a step must keep, for a character inserted.
LEMMA InsertKeepsPlus ==
    ASSUME NEW S, NEW s \in Seq(S), NEW t \in Seq(S), NEW i \in 0..Len(s),
           NEW c, c # "+", Inserted(t, s, i, c),
           c \in Blank \/ \A k \in (i + 1)..Len(s) : s[k] # "+"
    PROVE  (PlusFirst(s) => PlusFirst(t)) /\ (NoPlus(s) => NoPlus(t))
<1>0. Len(s) \in Nat /\ Len(t) \in Nat /\ Len(t) = Len(s) + 1 /\ i \in Nat /\ i <= Len(s)
  BY DEF Inserted
<1>1. ASSUME NEW a \in 1..Len(s), s[a] = "+", \A k \in 1..(a - 1) : s[k] \in Blank
      PROVE  PlusFirst(t)
  <2>1. CASE a <= i
    <3>1. a \in 1..Len(t) /\ a \in 1..i /\ \A k \in 1..(a - 1) : k \in 1..i
      BY <1>0, <2>1
    <3>2. t[a] = "+" /\ \A k \in 1..(a - 1) : t[k] \in Blank
      BY <1>1, <3>1 DEF Inserted
    <3> QED BY <3>1, <3>2 DEF PlusFirst
  <2>2. CASE a > i
    <3>1. a \in (i + 1)..Len(s) /\ a + 1 \in 1..Len(t)
      BY <1>0, <2>2
    <3>2. c \in Blank
      BY <1>1, <3>1
    <3>3. t[a + 1] = "+"
      BY <1>1, <3>1 DEF Inserted
    <3>4. ASSUME NEW k \in 1..((a + 1) - 1)  PROVE t[k] \in Blank
      <4>1. CASE k <= i
        <5>1. k \in 1..i /\ k \in 1..(a - 1)
          BY <1>0, <2>2, <4>1
        <5> QED BY <1>1, <5>1 DEF Inserted
      <4>2. CASE k = i + 1
        BY <3>2, <4>2 DEF Inserted
      <4>3. CASE k > i + 1
        <5>1. PICK n \in (i + 1)..Len(s) : k = n + 1 /\ n \in 1..(a - 1)
          BY <1>0, <4>3
        <5>2. t[n + 1] = s[n]
          BY DEF Inserted
        <5> QED BY <1>1, <5>1, <5>2
      <4> QED BY <1>0, <4>1, <4>2, <4>3
    <3> QED BY <3>1, <3>3, <3>4 DEF PlusFirst
  <2> QED BY <1>0, <2>1, <2>2
<1>2. ASSUME NoPlus(s), NEW k \in 1..Len(t)  PROVE t[k] # "+"
  <2>1. CASE k <= i
    <3>1. k \in 1..i /\ k \in 1..Len(s)
      BY <1>0, <2>1
    <3> QED BY <1>2, <3>1 DEF Inserted, NoPlus
  <2>2. CASE k = i + 1
    BY <2>2 DEF Inserted
  <2>3. CASE k > i + 1
    <3>1. PICK n \in (i + 1)..Len(s) : k = n + 1 /\ n \in 1..Len(s)
      BY <1>0, <2>3
    <3>2. t[n + 1] = s[n]
      BY DEF Inserted
    <3> QED BY <1>2, <3>1, <3>2 DEF NoPlus
  <2> QED BY <1>0, <2>1, <2>2, <2>3
<1> QED BY <1>1, <1>2 DEF PlusFirst, NoPlus

\* A spelling with one character more, of those Pad and Punctuate write.
LEMMA InsertKeepsMeaning ==
    ASSUME NEW s \in Seq(Alphabet), NEW t \in Seq(Alphabet), NEW i \in 0..Len(s),
           NEW c, Inserted(t, s, i, c),
           \/ c \in Blank /\ (i = 0 \/ i = Len(s))
           \/ /\ channel # "email" /\ c \in Blank \cup Punctuation
              /\ \A k \in (i + 1)..Len(s) : s[k] # "+",
           NEW p \in {1, 2}, s = spelled[p], SpeltAsMeant(p),
           SpellingInv, channel' = channel, meant' = meant, spelled' = [spelled EXCEPT ![p] = t]
    PROVE  SpellingInv'
<1>1. spelled' \in [{1, 2} -> Seq(Alphabet)] /\ spelled'[p] = t
  BY DEF SpellingInv
<1>2. c # "+" /\ c \notin Digit
  BY SpellingAssumption
<1>3. SpeltAsMeant(p)'
  <2>1. CASE channel = "email"
    <3>1. Trim(t) = Trim(s)
      BY <2>1, TrimOfPadded
    <3> QED BY <1>1, <2>1, <3>1 DEF SpeltAsMeant
  <2>2. CASE channel # "email"
    <3>1. DigitsIn(t) = DigitsIn(s)
      BY <1>2, InsertKeepsDigits
    <3>2. (PlusFirst(s) => PlusFirst(t)) /\ (NoPlus(s) => NoPlus(t))
      BY <1>2, InsertKeepsPlus
    <3> QED BY <1>1, <2>2, <3>1, <3>2 DEF SpeltAsMeant
  <2> QED BY <2>1, <2>2
<1>4. ASSUME NEW q \in {1, 2}, q # p  PROVE SpeltAsMeant(q)'
  BY <1>4 DEF SpellingInv, SpeltAsMeant
<1> QED BY <1>1, <1>3, <1>4 DEF SpellingInv

\* Respelling an address keeps what the norm looks at.
LEMMA SpellingNext_Inv == SpellingInv /\ [SpellingNext]_spellings => SpellingInv'
<1> SUFFICES ASSUME SpellingInv, [SpellingNext]_spellings  PROVE SpellingInv'
  OBVIOUS
<1>1. CASE UNCHANGED spellings
  BY <1>1 DEF spellings, SpellingInv, SpeltAsMeant
<1>2. ASSUME NEW p \in {1, 2}, NEW c \in Blank, Pad(p, c)  PROVE SpellingInv'
  <2> DEFINE s == spelled[p]
  <2>1. s \in Seq(Alphabet) /\ c \in Alphabet /\ Len(s) \in Nat /\ SpeltAsMeant(p)
    BY DEF SpellingInv, Alphabet
  <2>2. PICK t : /\ t = <<c>> \o s \/ t = Append(s, c)
                 /\ spelled' = [spelled EXCEPT ![p] = t]
                 /\ channel' = channel /\ meant' = meant
    BY <1>2 DEF Pad, Respell
  <2> HIDE DEF s
  <2>3. \E i \in 0..Len(s) : (i = 0 \/ i = Len(s)) /\ Inserted(t, s, i, c)
    <3>1. Inserted(t, s, 0, c) \/ Inserted(t, s, Len(s), c)
      BY <2>1, <2>2, PadInserts
    <3>2. 0 \in 0..Len(s) /\ Len(s) \in 0..Len(s)
      BY <2>1
    <3> QED BY <3>1, <3>2
  <2>4. t \in Seq(Alphabet)
    BY <2>1, <2>2, PadInserts
  <2> QED BY <2>1, <2>2, <2>3, <2>4, InsertKeepsMeaning DEF s
<1>3. ASSUME NEW p \in {1, 2}, NEW c \in DOMAIN Lower, Capitalize(p, c)
      PROVE  SpellingInv'
  <2> DEFINE s == spelled[p]
  <2>1. s \in Seq(Alphabet) /\ c \in Alphabet /\ DOMAIN s = 1..Len(s) /\ SpeltAsMeant(p)
    BY DEF SpellingInv, Alphabet
  <2>2. PICK i \in DOMAIN s : s[i] = Lower[c] /\ Respell(p, [s EXCEPT ![i] = c])
    BY <1>3 DEF Capitalize
  <2> DEFINE t == [s EXCEPT ![i] = c]
  <2>3. t \in Seq(Alphabet) /\ Lowercase(Trim(t)) = Lowercase(Trim(s))
    BY <2>1, <2>2, CapitalOfMailbox
  <2>4. spelled' = [spelled EXCEPT ![p] = t] /\ channel' = channel /\ meant' = meant
    BY <2>2 DEF Respell
  <2>5. channel = "email"
    BY <1>3 DEF Capitalize
  <2> HIDE DEF t
  <2>6. spelled' \in [{1, 2} -> Seq(Alphabet)] /\ spelled'[p] = t
    BY <2>3, <2>4 DEF SpellingInv
  <2>7. SpeltAsMeant(p)'
    BY <2>1, <2>3, <2>4, <2>5, <2>6 DEF SpeltAsMeant
  <2>8. ASSUME NEW q \in {1, 2}, q # p  PROVE SpeltAsMeant(q)'
    BY <2>4, <2>8 DEF SpellingInv, SpeltAsMeant
  <2> QED BY <2>4, <2>6, <2>7, <2>8 DEF SpellingInv
<1>4. ASSUME NEW p \in {1, 2}, NEW c \in Blank \cup Punctuation, Punctuate(p, c)
      PROVE  SpellingInv'
  <2> DEFINE s == spelled[p]
  <2>1. s \in Seq(Alphabet) /\ c \in Alphabet /\ SpeltAsMeant(p)
    BY DEF SpellingInv, Alphabet
  <2>2. PICK i \in 0..Len(s) : /\ "+" \notin {s[k] : k \in (i + 1)..Len(s)}
                               /\ Respell(p, Insert(s, i, c))
    BY <1>4 DEF Punctuate
  <2> DEFINE t == Insert(s, i, c)
  <2>3. t \in Seq(Alphabet) /\ Inserted(t, s, i, c)
    BY <2>1, InsertInserts
  <2>4. spelled' = [spelled EXCEPT ![p] = t] /\ channel' = channel /\ meant' = meant
    BY <2>2 DEF Respell
  <2>5. channel # "email" /\ \A k \in (i + 1)..Len(s) : s[k] # "+"
    BY <1>4, <2>2 DEF Punctuate
  <2> HIDE DEF t
  <2> QED BY <2>1, <2>3, <2>4, <2>5, InsertKeepsMeaning
<1> QED BY <1>1, <1>2, <1>3, <1>4 DEF SpellingNext

\* Trim gives a text that opens with a plus exactly if it was the first ink.
LEMMA HeadOfTrim ==
    ASSUME NEW S, NEW s \in Seq(S), "+" \notin Blank
    PROVE  /\ PlusFirst(s) => Trim(s) # <<>> /\ Head(Trim(s)) = "+"
           /\ NoPlus(s) => (Trim(s) # <<>> => Head(Trim(s)) # "+")
<1>a. DOMAIN s = 1..Len(s) /\ Len(s) \in Nat
  OBVIOUS
<1>1. CASE Blanks(s)
  <2>1. ~PlusFirst(s)
    BY <1>a, <1>1 DEF Blanks, PlusFirst
  <2> QED BY <1>1, <2>1, TrimOfBlanks
<1>2. ASSUME NEW a \in 1..Len(s), NEW b \in 1..Len(s), Inked(s, a, b)
      PROVE  /\ PlusFirst(s) => Trim(s) # <<>> /\ Head(Trim(s)) = "+"
             /\ NoPlus(s) => (Trim(s) # <<>> => Head(Trim(s)) # "+")
  <2>1. Trim(s) = SubSeq(s, a, b) /\ a <= b
    BY <1>2, TrimIsInked
  <2>2. \A k \in a..b : s[k] \in S
    BY <1>a, <2>1
  <2>3. PICK m \in Nat : m = b - a + 1
    BY <1>a, <2>1
  <2>4. Trim(s) \in Seq(S) /\ Len(Trim(s)) = m /\ m >= 1 /\ Trim(s)[1] = s[a]
    <3>1. /\ SubSeq(s, a, b) \in Seq(S)
          /\ Len(SubSeq(s, a, b)) = IF a <= b THEN b - a + 1 ELSE 0
          /\ \A k \in 1..(b - a + 1) : SubSeq(s, a, b)[k] = s[a + k - 1]
      BY <1>a, <2>2, SubSeqProperties
    <3>2. 1 \in 1..(b - a + 1) /\ a + 1 - 1 = a
      BY <1>a, <2>1
    <3> QED BY <2>1, <2>3, <3>1, <3>2
  <2>5. Trim(s) # <<>> /\ Head(Trim(s)) = s[a]
    BY <2>4
  <2>6. PlusFirst(s) => s[a] = "+"
    <3> SUFFICES ASSUME NEW k \in 1..Len(s), s[k] = "+", \A j \in 1..(k - 1) : s[j] \in Blank
                 PROVE  s[a] = "+"
      BY DEF PlusFirst
    <3>1. s[a] \notin Blank /\ \A j \in 1..(a - 1) : s[j] \in Blank
      BY <1>2 DEF Inked
    <3>2. a = k \/ a \in 1..(k - 1) \/ k \in 1..(a - 1)
      BY <1>a
    <3> QED BY <3>1, <3>2
  <2>7. NoPlus(s) => s[a] # "+"
    BY DEF NoPlus
  <2> QED BY <2>5, <2>6, <2>7
<1> QED BY <1>a, <1>1, <1>2, InkedOrBlank

-----------------------------------------------------------------------------
(* The theorems. *)

\* The key of every spelling is the canonical address that was meant.
KeyIsMeant == \A p \in {1, 2} : Key(p) = meant[p] /\ meant[p] # <<>>

\* What is kept is enough for the norm to give back what was meant.
LEMMA KeyFromInv == SpellingInv => KeyIsMeant
<1> SUFFICES ASSUME SpellingInv, NEW p \in {1, 2}
             PROVE  Key(p) = meant[p] /\ meant[p] # <<>>
  BY DEF KeyIsMeant
<1> DEFINE s == spelled[p]
           m == meant[p]
           x == Trim(s)
<1>0. s \in Seq(Alphabet) /\ m \in CanonicalAddress(channel) /\ SpeltAsMeant(p)
  BY DEF SpellingInv
<1>1. m # <<>>
  BY <1>0, CanonicalTexts
<1>2. CASE channel = "email"
  BY <1>0, <1>1, <1>2 DEF SpeltAsMeant, Key, NormalizeAddress
<1>3. CASE channel # "email"
  <2> HIDE DEF s, m
  <2>1. PICK d \in Seq(Digit) : \/ m = d /\ Len(d) >= 2
                                \/ m = <<"+">> \o d /\ Len(d) >= 1
    BY <1>0, <1>3, CanonicalNumbers
  <2>2. DigitsIn(m) = d
    BY <2>1, DigitsOfDigits, DigitsAfterPlus, SpellingAssumption
  <2>3. DigitsIn(x) = d
    <3>1. DigitsIn(x) = DigitsIn(s)
      BY <1>0, TrimKeepsDigits, SpellingAssumption
    <3> QED BY <1>0, <1>3, <2>2, <3>1 DEF SpeltAsMeant, s, m
  <2>4. Key(p) = PhoneNumber(x)
    BY <1>3 DEF Key, NormalizeAddress, s
  <2>5. CASE m = d /\ Len(d) >= 2
    <3>1. m[1] # "+"
      BY <2>5, SpellingAssumption
    <3>2. NoPlus(s)
      BY <1>0, <1>3, <3>1 DEF SpeltAsMeant, s, m
    <3>3. x # <<>> => Head(x) # "+"
      BY <1>0, <3>2, HeadOfTrim, SpellingAssumption
    <3> HIDE DEF x
    <3>4. <<>> \o DigitsIn(x) = d
      BY <2>3
    <3>5. PhoneNumber(x) = IF Len(d) <= 1 THEN <<>> ELSE d
      BY <3>3, <3>4 DEF PhoneNumber
    <3> QED BY <1>1, <2>4, <2>5, <3>5 DEF m
  <2>6. CASE m = <<"+">> \o d /\ Len(d) >= 1
    <3>1. m[1] = "+" /\ Len(m) = 1 + Len(d)
      BY <2>6
    <3>2. PlusFirst(s)
      BY <1>0, <1>3, <3>1 DEF SpeltAsMeant, s, m
    <3>3. x # <<>> /\ Head(x) = "+"
      BY <1>0, <3>2, HeadOfTrim, SpellingAssumption
    <3> HIDE DEF x
    <3>4. PhoneNumber(x) = IF Len(m) <= 1 THEN <<>> ELSE m
      BY <2>3, <2>6, <3>3 DEF PhoneNumber
    <3> QED BY <1>1, <2>4, <2>6, <3>1, <3>4 DEF m
  <2> QED BY <2>1, <2>5, <2>6 DEF m
<1> QED BY <1>2, <1>3

(***************************************************************************)
(* The dedup key of notify is the canonical address its caller meant,      *)
(* however long, and however often it was padded, capitalized or           *)
(* punctuated.                                                             *)
(***************************************************************************)
THEOREM KeysAreCanonical == SpellingSpec => []KeyIsMeant
<1>1. SpellingSpec => []SpellingInv
  BY SpellingInit_Inv, SpellingNext_Inv, PTL DEF SpellingSpec
<1> QED BY <1>1, KeyFromInv, PTL

(***************************************************************************)
(* One recipient, spelled by two callers in any two ways, has one dedup    *)
(* key, which is never the empty one that notify refuses.                  *)
(***************************************************************************)
THEOREM OneRecipientOneKey == SpellingSpec => []SpellingsCollapse
<1>1. KeyIsMeant => SpellingsCollapse
  BY DEF KeyIsMeant, SpellingsCollapse
<1> QED BY <1>1, KeysAreCanonical, PTL

(***************************************************************************)
(* Two recipients have two keys, whatever the spellings: the normalization *)
(* strips nothing that tells addresses apart.                              *)
(***************************************************************************)
THEOREM OneKeyOneRecipient == SpellingSpec => []RecipientsStayApart
<1>1. KeyIsMeant => RecipientsStayApart
  BY DEF KeyIsMeant, RecipientsStayApart
<1> QED BY <1>1, KeysAreCanonical, PTL

\* Numbers in their norm are left alone.
LEMMA NormsOfNumbers ==
    ASSUME NEW d \in Seq(Digit), NEW y,
           \/ y = <<>>
           \/ y = d /\ Len(d) >= 2
           \/ y = <<"+">> \o d /\ Len(d) >= 1
    PROVE  Trim(y) = y /\ PhoneNumber(y) = y
<1>1. CASE y = <<>>
  <2>1. <<>> \in Seq(Digit) /\ Blanks(<<>>)
    BY DEF Blanks
  <2>2. Trim(<<>>) = <<>> /\ DigitsIn(<<>>) = <<>>
    BY <2>1, TrimOfBlanks, DigitsOfDigits
  <2>3. PhoneNumber(<<>>) = <<>>
    BY <2>2 DEF PhoneNumber
  <2> QED BY <1>1, <2>2, <2>3
<1>2. CASE y = d /\ Len(d) >= 2
  <2>1. d # <<>> /\ d[1] \in Digit /\ d[Len(d)] \in Digit /\ Head(d) = d[1]
    BY <1>2
  <2>2. d[1] \notin Blank /\ d[Len(d)] \notin Blank /\ Head(d) # "+"
    BY <2>1, SpellingAssumption
  <2>3. Trim(d) = d
    BY <2>1, <2>2, TrimOfTrimmed
  <2>4. <<>> \o DigitsIn(d) = d
    BY DigitsOfDigits
  <2>5. PhoneNumber(d) = IF Len(d) <= 1 THEN <<>> ELSE d
    BY <2>2, <2>4 DEF PhoneNumber
  <2> QED BY <1>2, <2>3, <2>5
<1>3. CASE y = <<"+">> \o d /\ Len(d) >= 1
  <2> DEFINE C == Digit \cup {"+"}
  <2>1. d \in Seq(C) /\ <<"+">> \in Seq(C) /\ Len(<<"+">>) = 1 /\ Len(d) \in Nat
    OBVIOUS
  <2>2. y \in Seq(C) /\ Len(y) = 1 + Len(d)
    BY <1>3, <2>1, ConcatProperties
  <2>3. y[1] = "+" /\ y[1 + Len(d)] = d[Len(d)] /\ d[Len(d)] \in Digit
    BY <1>3
  <2>4. y # <<>> /\ Head(y) = "+"
    BY <2>2, <2>3
  <2>5. y[1] \notin Blank /\ y[Len(y)] \notin Blank
    BY <2>2, <2>3, SpellingAssumption
  <2>6. Trim(y) = y
    BY <2>2, <2>4, <2>5, TrimOfTrimmed
  <2>7. DigitsIn(y) = d
    BY <1>3, DigitsAfterPlus, SpellingAssumption
  <2>8. PhoneNumber(y) = IF Len(y) <= 1 THEN <<>> ELSE y
    BY <1>3, <2>4, <2>7 DEF PhoneNumber
  <2>9. Len(y) >= 2
    <3>1. Len(d) >= 1
      BY <1>3
    <3> QED BY <2>1, <2>2, <3>1
  <2>10. ~ (Len(y) <= 1)
    BY <2>2, <2>9
  <2> QED BY ONLY <2>6, <2>8, <2>10
<1> QED BY <1>1, <1>2, <1>3

(***************************************************************************)
(* A stored address is its own norm, whatever text it came from: an event  *)
(* redelivered with the address that was recorded meets the same key.      *)
(***************************************************************************)
THEOREM NormalizationIsIdempotent ==
    ASSUME NEW S, NEW ch, NEW raw \in Seq(S)
    PROVE  NormalizeAddress(ch, NormalizeAddress(ch, raw)) = NormalizeAddress(ch, raw)
<1> DEFINE x == Trim(raw)
<1>1. CASE Blanks(raw)
  <2>1. x = <<>>
    BY <1>1, TrimOfBlanks
  <2>2. <<>> \in Seq(S) /\ Blanks(<<>>)
    BY DEF Blanks
  <2>3. Trim(<<>>) = <<>>
    BY <2>2, TrimOfBlanks
  <2>4. Lowercase(<<>>) = <<>>
    BY DEF Lowercase
  <2>5. PhoneNumber(<<>>) = <<>>
    <3>1. DigitsIn(<<>>) = <<>>
      BY <2>2, DigitsStep DEF DigitsIn
    <3> QED BY <3>1 DEF PhoneNumber
  <2> QED BY <2>1, <2>3, <2>4, <2>5 DEF NormalizeAddress
<1>2. ASSUME NEW a \in 1..Len(raw), NEW b \in 1..Len(raw), Inked(raw, a, b)
      PROVE  NormalizeAddress(ch, NormalizeAddress(ch, raw)) = NormalizeAddress(ch, raw)
  <2>1. CASE ch = "email"
    <3>1. x \in Seq(S) /\ Len(x) \in Nat \ {0} /\ x[1] \notin Blank /\ x[Len(x)] \notin Blank
      BY <1>2, TrimHasInkedEnds
    <3> HIDE DEF x
    <3> DEFINE y == Lowercase(x)
               C == S \cup {Lower[c] : c \in DOMAIN Lower}
    <3>2. DOMAIN x = 1..Len(x)
      BY <3>1
    <3>3. y = [k \in 1..Len(x) |-> IF x[k] \in DOMAIN Lower THEN Lower[x[k]] ELSE x[k]]
      BY <3>2 DEF Lowercase
    <3>4. y \in Seq(C) /\ Len(y) = Len(x)
      <4>1. \A k \in 1..Len(x) :
               (IF x[k] \in DOMAIN Lower THEN Lower[x[k]] ELSE x[k]) \in C
        BY <3>1
      <4> QED BY <3>1, <3>3, <4>1
    <3>5. \A k \in 1..Len(x) : y[k] \notin DOMAIN Lower /\ (y[k] \in Blank <=> x[k] \in Blank)
      <4>1. \A k \in 1..Len(x) :
               y[k] = IF x[k] \in DOMAIN Lower THEN Lower[x[k]] ELSE x[k]
        BY <3>3
      <4> HIDE DEF y
      <4> QED BY <4>1, SpellingAssumption
    <3>6. Trim(y) = y
      <4>1. y # <<>> /\ y[1] \notin Blank /\ y[Len(y)] \notin Blank
        BY <3>1, <3>4, <3>5
      <4> HIDE DEF y, C
      <4> QED BY <3>4, <4>1, TrimOfTrimmed
    <3> HIDE DEF y
    <3>7. y = [k \in 1..Len(x) |-> y[k]] /\ DOMAIN y = 1..Len(x)
      BY <3>4
    <3>8. Lowercase(y) = y
      BY <3>5, <3>7 DEF Lowercase
    <3> QED BY <2>1, <3>6, <3>8 DEF NormalizeAddress, x, y
  <2>2. CASE ch # "email"
    <3> DEFINE y == PhoneNumber(x)
    <3>1. x \in Seq(S)
      BY <1>2, TrimHasInkedEnds
    <3> HIDE DEF x
    <3>2. PICK d : d = DigitsIn(x) /\ d \in Seq(Digit)
      BY <3>1, DigitsAreDigits
    <3>3. \/ y = <<>>
          \/ y = d /\ Len(d) >= 2
          \/ y = <<"+">> \o d /\ Len(d) >= 1
      <4>1. CASE x # <<>> /\ Head(x) = "+"
        <5>1. y = IF Len(<<"+">> \o d) <= 1 THEN <<>> ELSE <<"+">> \o d
          BY <3>2, <4>1 DEF PhoneNumber
        <5>2. Len(<<"+">> \o d) = 1 + Len(d) /\ Len(d) \in Nat
          BY <3>2
        <5> QED BY <5>1, <5>2
      <4>2. CASE ~ (x # <<>> /\ Head(x) = "+")
        <5>1. <<>> \o d = d /\ Len(d) \in Nat
          BY <3>2
        <5>2. y = IF Len(d) <= 1 THEN <<>> ELSE d
          BY <3>2, <4>2, <5>1 DEF PhoneNumber
        <5> QED BY <5>1, <5>2
      <4> QED BY <4>1, <4>2
    <3> HIDE DEF y
    <3>4. Trim(y) = y /\ PhoneNumber(y) = y
      BY <3>2, <3>3, NormsOfNumbers
    <3> QED BY <2>2, <3>4 DEF NormalizeAddress, x, y
  <2> QED BY <2>1, <2>2
<1> QED BY <1>1, <1>2, InkedOrBlank
=============================================================================
