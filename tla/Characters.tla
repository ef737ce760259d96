----------------------------- MODULE Characters -----------------------------
(* Texts as sequences of characters, for the two functions that look inside. *)
EXTENDS Naturals, Sequences

CONSTANTS
    Blank            \* the white space that trim strips

\* The texts of up to n characters of S, the empty one left out.
Word(S, n) == UNION {[1..k -> S] : k \in 1..n}

Trim(raw) ==
    LET ink == {i \in DOMAIN raw : raw[i] \notin Blank} IN
    IF ink = {} THEN <<>>
      ELSE SubSeq(raw, CHOOSE i \in ink : \A j \in ink : i <= j,
                       CHOOSE i \in ink : \A j \in ink : i >= j)
=============================================================================
