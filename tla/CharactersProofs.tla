-------------------------- MODULE CharactersProofs --------------------------
(***************************************************************************)
(* What trim does to every text, and the least-number principle the        *)
(* inductions over positions rest on.                                      *)
(***************************************************************************)
EXTENDS Characters, SequenceTheorems, WellFoundedInduction, TLAPS

(***************************************************************************)
(* A non-empty set of naturals has a least member.  An induction is a      *)
(* proof that the set of its counterexamples has none.                     *)
(***************************************************************************)
LEMMA LeastNatural ==
    ASSUME NEW T \in SUBSET Nat, T # {}
    PROVE  \E m \in T : \A n \in T : m <= n
<1> DEFINE R == {ss \in Nat \X Nat : ss[1] < ss[2]}
<1>1. IsWellFoundedOn(R, Nat)
  BY NatLessThanWellFounded DEF OpToRel
<1> HIDE DEF R
<1>2. PICK m \in T : \A n \in T : ~ (<<n, m>> \in R)
  BY <1>1, WFMin
<1>3. ASSUME NEW n \in T  PROVE m <= n
  <2>1. <<n, m>> \notin R
    BY <1>2
  <2> QED BY <2>1 DEF R
<1> QED BY <1>3

\* A non-empty set of positions of a sequence of length n has a greatest member.
LEMMA GreatestPosition ==
    ASSUME NEW n \in Nat, NEW T \in SUBSET (1..n), T # {}
    PROVE  \E m \in T : \A k \in T : m >= k
<1> DEFINE U == {n - k : k \in T}
<1>1. U \in SUBSET Nat
  OBVIOUS
<1>0. U # {}
  <2>1. PICK k \in T : TRUE
    OBVIOUS
  <2>2. n - k \in U
    OBVIOUS
  <2> QED BY <2>2
<1>2. PICK u \in U : \A v \in U : u <= v
  BY <1>0, <1>1, LeastNatural
<1>3. PICK m \in T : u = n - m
  OBVIOUS
<1>4. ASSUME NEW k \in T  PROVE m >= k
  <2>1. u <= n - k
    BY <1>2
  <2> QED BY <1>3, <2>1
<1> QED BY <1>4

\* The part of a text from its first to its last character that is no white space.
Inked(s, a, b) ==
    /\ a \in DOMAIN s /\ b \in DOMAIN s
    /\ s[a] \notin Blank /\ \A k \in 1..(a - 1) : s[k] \in Blank
    /\ s[b] \notin Blank /\ \A k \in (b + 1)..Len(s) : s[k] \in Blank

Blanks(s) == \A k \in DOMAIN s : s[k] \in Blank

\* Every text is white space or has such a part.
LEMMA InkedOrBlank ==
    ASSUME NEW S, NEW s \in Seq(S)
    PROVE  Blanks(s) \/ \E a, b \in DOMAIN s : Inked(s, a, b)
<1> DEFINE ink == {i \in DOMAIN s : s[i] \notin Blank}
<1>1. DOMAIN s = 1..Len(s) /\ Len(s) \in Nat
  BY LenProperties
<1>2. CASE ink = {}
  BY <1>2 DEF Blanks
<1>3. CASE ink # {}
  <2>1. ink \in SUBSET Nat /\ ink \in SUBSET (1..Len(s))
    BY <1>1
  <2>2. PICK a \in ink : \A k \in ink : a <= k
    BY <1>3, <2>1, LeastNatural
  <2>3. PICK b \in ink : \A k \in ink : b >= k
    BY <1>1, <1>3, <2>1, GreatestPosition
  <2>4. \A k \in 1..(a - 1) : s[k] \in Blank
    BY <1>1, <2>2
  <2>5. \A k \in (b + 1)..Len(s) : s[k] \in Blank
    BY <1>1, <2>3
  <2> QED BY <1>1, <2>2, <2>3, <2>4, <2>5 DEF Inked
<1> QED BY <1>2, <1>3

\* Trim keeps exactly that part.
LEMMA TrimIsInked ==
    ASSUME NEW S, NEW s \in Seq(S), NEW a, NEW b, Inked(s, a, b)
    PROVE  Trim(s) = SubSeq(s, a, b) /\ a <= b /\ a \in 1..Len(s) /\ b \in 1..Len(s)
<1> DEFINE ink == {i \in DOMAIN s : s[i] \notin Blank}
<1>1. DOMAIN s = 1..Len(s) /\ Len(s) \in Nat
  BY LenProperties
<1>2. a \in ink /\ b \in ink /\ ink \subseteq Nat
  BY <1>1 DEF Inked
<1>3. \A i \in ink : a <= i /\ b >= i
  BY <1>1 DEF Inked
<1> HIDE DEF ink
<1>4. (CHOOSE i \in ink : \A j \in ink : i <= j) = a
  <2> DEFINE c == CHOOSE i \in ink : \A j \in ink : i <= j
  <2>1. c \in ink /\ \A j \in ink : c <= j
    BY <1>2, <1>3
  <2> HIDE DEF c
  <2>2. c <= a /\ a <= c /\ a \in Nat /\ c \in Nat
    BY <1>2, <1>3, <2>1
  <2>3. c = a
    BY <2>2
  <2> QED BY <2>3 DEF c
<1>5. (CHOOSE i \in ink : \A j \in ink : i >= j) = b
  <2> DEFINE c == CHOOSE i \in ink : \A j \in ink : i >= j
  <2>1. c \in ink /\ \A j \in ink : c >= j
    BY <1>2, <1>3
  <2> HIDE DEF c
  <2>2. c >= b /\ b >= c /\ b \in Nat /\ c \in Nat
    BY <1>2, <1>3, <2>1
  <2>3. c = b
    BY <2>2
  <2> QED BY <2>3 DEF c
<1>6. ink # {}
  BY <1>2
<1>7. Trim(s) = SubSeq(s, a, b)
  BY <1>4, <1>5, <1>6 DEF Trim, ink
<1> QED BY <1>1, <1>2, <1>3, <1>7 DEF ink

\* Of white space trim leaves nothing.
LEMMA TrimOfBlanks ==
    ASSUME NEW S, NEW s \in Seq(S), Blanks(s)
    PROVE  Trim(s) = <<>>
BY DEF Trim, Blanks

\* A text without white space at its ends is left as it is.
LEMMA TrimOfTrimmed ==
    ASSUME NEW S, NEW s \in Seq(S), s # <<>>,
           s[1] \notin Blank, s[Len(s)] \notin Blank
    PROVE  Trim(s) = s
<1>1. DOMAIN s = 1..Len(s) /\ Len(s) \in Nat \ {0}
  BY LenProperties, EmptySeq
<1>2. Inked(s, 1, Len(s))
  BY <1>1 DEF Inked
<1> QED BY <1>2, TrimIsInked, SubSeqFull

\* A trimmed text has no white space at its ends.
LEMMA TrimHasInkedEnds ==
    ASSUME NEW S, NEW s \in Seq(S), NEW a \in 1..Len(s), NEW b \in 1..Len(s), Inked(s, a, b)
    PROVE  /\ Trim(s) \in Seq(S) /\ Len(Trim(s)) \in Nat \ {0}
           /\ Trim(s)[1] = s[a] /\ Trim(s)[Len(Trim(s))] = s[b]
           /\ Trim(s)[1] \notin Blank /\ Trim(s)[Len(Trim(s))] \notin Blank
<1>0. Len(s) \in Nat
  OBVIOUS
<1>1. Trim(s) = SubSeq(s, a, b) /\ a <= b
  BY TrimIsInked
<1>2. a \in Int /\ b \in Int /\ \A k \in a..b : s[k] \in S
  BY <1>0, <1>1
<1>3. PICK m \in Nat \ {0} : m = b - a + 1
  BY <1>1, <1>2
<1>4. Trim(s) \in Seq(S) /\ Len(Trim(s)) = m /\ \A k \in 1..m : Trim(s)[k] = s[a + k - 1]
  BY <1>1, <1>2, <1>3, SubSeqProperties
<1>5. Trim(s)[1] = s[a] /\ Trim(s)[m] = s[b]
  <2>1. 1 \in 1..m /\ m \in 1..m /\ a + 1 - 1 = a /\ a + m - 1 = b
    BY <1>2, <1>3
  <2> QED BY <1>4, <2>1
<1> QED BY <1>3, <1>4, <1>5 DEF Inked

\* Two texts, one after the other.
LEMMA ConcatParts ==
    ASSUME NEW C, NEW l \in Seq(C), NEW r \in Seq(C), NEW t, t = l \o r
    PROVE  /\ t \in Seq(C) /\ Len(l) \in Nat /\ Len(r) \in Nat
           /\ Len(t) = Len(l) + Len(r)
           /\ \A k \in 1..Len(l) : t[k] = l[k]
           /\ \A k \in 1..Len(r) : t[Len(l) + k] = r[k]
<1>1. Len(l) \in Nat /\ Len(r) \in Nat
  OBVIOUS
<1>2. /\ t \in Seq(C) /\ Len(t) = Len(l) + Len(r)
      /\ \A k \in 1..(Len(l) + Len(r)) : t[k] = IF k <= Len(l) THEN l[k] ELSE r[k - Len(l)]
  BY ConcatProperties
<1>3. ASSUME NEW k \in 1..Len(r)  PROVE t[Len(l) + k] = r[k]
  <2>1. PICK i \in 1..(Len(l) + Len(r)) : i = Len(l) + k
    BY <1>1
  <2>2. ~ (i <= Len(l)) /\ i - Len(l) = k
    BY <1>1, <2>1
  <2> QED BY <1>2, <2>1, <2>2
<1>4. ASSUME NEW k \in 1..Len(l)  PROVE t[k] = l[k]
  <2>1. k \in 1..(Len(l) + Len(r)) /\ k <= Len(l)
    BY <1>1
  <2> QED BY <1>2, <2>1
<1> QED BY <1>1, <1>2, <1>3, <1>4

\* The same white space on both sides of a text.
Padded(pad, k) == (pad \o k) \o pad

\* Where each of the three stands, of lengths p, n and p.
PaddedAt(x, pad, k, p, n) ==
    /\ \A j \in 1..p : x[j] = pad[j]
    /\ \A j \in 1..n : x[p + j] = k[j]
    /\ \A j \in 1..p : x[p + n + j] = pad[j]

\* The three parts of a padded text stand in it one after the other.
LEMMA PaddedParts ==
    ASSUME NEW S, NEW pad \in Seq(S), NEW k \in Seq(S), NEW x, x = Padded(pad, k),
           NEW p \in Nat, NEW n \in Nat, p = Len(pad), n = Len(k)
    PROVE  x \in Seq(S) /\ Len(x) = p + n + p /\ PaddedAt(x, pad, k, p, n)
<1>1. PICK y : y = pad \o k
  OBVIOUS
<1>2. /\ y \in Seq(S) /\ Len(y) = p + n
      /\ \A j \in 1..p : y[j] = pad[j]
      /\ \A j \in 1..Len(k) : y[Len(pad) + j] = k[j]
  BY <1>1, ConcatParts
<1>3. y \in Seq(S) /\ x = y \o pad
  BY <1>1, <1>2 DEF Padded
<1>4. /\ x \in Seq(S) /\ Len(x) = Len(y) + Len(pad)
      /\ \A j \in 1..Len(y) : x[j] = y[j]
      /\ \A j \in 1..Len(pad) : x[Len(y) + j] = pad[j]
  BY <1>3, ConcatParts
<1>5. ASSUME NEW j \in 1..p  PROVE x[j] = pad[j]
  <2>1. j \in 1..Len(y)
    BY <1>2
  <2> QED BY <1>2, <1>4, <2>1
<1>6. ASSUME NEW j \in 1..n  PROVE x[p + j] = k[j]
  <2>1. PICK i \in 1..Len(y) : i = p + j
    BY <1>2
  <2> QED BY <1>2, <1>4, <2>1
<1>7. ASSUME NEW j \in 1..p  PROVE x[p + n + j] = pad[j]
  BY <1>2, <1>4
<1> QED BY <1>2, <1>4, <1>5, <1>6, <1>7 DEF PaddedAt

\* A text between white space is what trim keeps.
LEMMA TrimOfPadding ==
    ASSUME NEW S, NEW pad \in Seq(S), Blanks(pad), NEW k \in Seq(S), Trim(k) = k,
           NEW x, x = Padded(pad, k)
    PROVE  Trim(x) = k
<1>0. PICK p \in Nat, n \in Nat : p = Len(pad) /\ n = Len(k) /\ DOMAIN pad = 1..p /\ DOMAIN k = 1..n
  BY LenProperties
<1>a. x \in Seq(S) /\ Len(x) = p + n + p /\ PaddedAt(x, pad, k, p, n)
  BY <1>0, PaddedParts
<1>1. /\ x \in Seq(S) /\ Len(x) = p + n + p
      /\ \A j \in 1..p : x[j] = pad[j]
      /\ \A j \in 1..n : x[p + j] = k[j]
      /\ \A j \in 1..p : x[p + n + j] = pad[j]
  BY <1>a DEF PaddedAt
<1>2. DOMAIN x = 1..(p + n + p)
  BY <1>1, LenProperties
<1>3. \A j \in 1..p : pad[j] \in Blank
  BY <1>0 DEF Blanks
<1>4. CASE Blanks(k)
  <2>1. k = <<>> /\ n = 0
    BY <1>0, <1>4, TrimOfBlanks, EmptySeq
  <2>2. ASSUME NEW j \in 1..(p + n + p)  PROVE x[j] \in Blank
    <3>1. CASE j <= p
      <4>1. j \in 1..p
        BY <3>1
      <4> QED BY <1>1, <1>3, <4>1
    <3>2. CASE ~(j <= p)
      <4>1. PICK i \in 1..p : j = p + n + i
        <5>1. j - p \in 1..p /\ j = p + n + (j - p)
          BY <2>1, <3>2
        <5> QED BY <5>1
      <4> QED BY <1>1, <1>3, <4>1
    <3> QED BY <3>1, <3>2
  <2>3. Blanks(x)
    BY <1>2, <2>2 DEF Blanks
  <2> QED BY <1>1, <2>1, <2>3, TrimOfBlanks
<1>5. ASSUME NEW a \in DOMAIN k, NEW b \in DOMAIN k, Inked(k, a, b)  PROVE Trim(x) = k
  <2>1. Trim(k) = SubSeq(k, a, b) /\ a <= b /\ a \in 1..n /\ b \in 1..n
    BY <1>0, <1>5, TrimIsInked
  <2>2. a = 1 /\ b = n
    <3>1. a \in Int /\ b \in Int /\ \A i \in a..b : k[i] \in S
      <4>1. \A i \in 1..n : k[i] \in S
        BY <1>0, ElementOfSeq
      <4> QED BY <2>1, <4>1
    <3>2. Len(SubSeq(k, a, b)) = b - a + 1
      BY <2>1, <3>1, SubSeqProperties
    <3>3. b - a + 1 = n
      BY <1>0, <2>1, <3>2
    <3> QED BY <2>1, <3>3
  <2>3. k[1] \notin Blank /\ k[n] \notin Blank /\ n >= 1
    BY <1>5, <2>1, <2>2 DEF Inked
  <2>4. PICK c \in Nat, d \in Nat : c = p + 1 /\ d = p + n
    OBVIOUS
  <2>5. x[c] = k[1] /\ x[d] = k[n]
    <3>1. 1 \in 1..n /\ n \in 1..n
      BY <2>3
    <3> QED BY <1>1, <2>4, <3>1
  <2>6. \A j \in 1..(c - 1) : x[j] \in Blank
    <3>1. c - 1 = p
      BY <2>4
    <3> QED BY <1>1, <1>3, <3>1
  <2>7. ASSUME NEW j \in (d + 1)..(p + n + p)  PROVE x[j] \in Blank
    <3>1. PICK i \in 1..p : j = p + n + i
      <4>1. j - d \in 1..p /\ j = p + n + (j - d)
        BY <2>4
      <4> QED BY <4>1
    <3> QED BY <1>1, <1>3, <3>1
  <2>8. c \in 1..(p + n + p) /\ d \in 1..(p + n + p)
    BY <2>3, <2>4
  <2>9. Inked(x, c, d)
    BY <1>1, <1>2, <2>3, <2>5, <2>6, <2>7, <2>8 DEF Inked
  <2>10. Trim(x) = SubSeq(x, c, d)
    BY <1>1, <2>9, TrimIsInked
  <2>11. \A i \in c..d : x[i] \in S
    <3>1. \A i \in 1..(p + n + p) : x[i] \in S
      BY <1>1, ElementOfSeq
    <3> QED BY <2>8, <3>1
  <2>12. /\ SubSeq(x, c, d) \in Seq(S) /\ Len(SubSeq(x, c, d)) = n
         /\ \A i \in 1..n : SubSeq(x, c, d)[i] = x[c + i - 1]
    <3>1. d - c + 1 = n /\ c <= d
      BY <2>3, <2>4
    <3> QED BY <2>11, <3>1, SubSeqProperties
  <2>13. ASSUME NEW i \in 1..n  PROVE SubSeq(x, c, d)[i] = k[i]
    <3>1. c + i - 1 = p + i
      BY <2>4
    <3> QED BY <1>1, <2>12, <3>1
  <2>14. SubSeq(x, c, d) = k
    BY <1>0, <2>12, <2>13, SeqEqual
  <2> QED BY <2>10, <2>14
<1> QED BY <1>4, <1>5, InkedOrBlank
=============================================================================
