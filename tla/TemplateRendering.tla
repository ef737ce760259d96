------------------------- MODULE TemplateRendering --------------------------
(***************************************************************************)
(* render: the {{key}} substitution of the write engine.  A template is a  *)
(* sequence of characters; data maps keys to JSON values, and maps nothing *)
(* where the JSON given is no object.                                      *)
(***************************************************************************)
EXTENDS Characters

\* A string as it is, null as nothing, anything else as its JSON text.
JsonScalar(v) == IF v.kind = "null" THEN <<>> ELSE v.text

ValueOf(data, key) == IF key \in DOMAIN data THEN JsonScalar(data[key]) ELSE <<>>

\* Where two braces c stand in t at or after position i.
Pairs(t, c, i) == {j \in i..(Len(t) - 1) : t[j] = c /\ t[j + 1] = c}

Leftmost(S)  == CHOOSE j \in S : \A k \in S : j <= k
Rightmost(S) == CHOOSE j \in S : \A k \in S : j >= k

\* The placeholder whose braces open at a ends at the first pair that closes.
\* Variant: at the last one.
CloseLast(t, a)  == Rightmost(Pairs(t, "}", a + 2))
CloseFirst(t, a) == Leftmost(Pairs(t, "}", a + 2))

\* What t renders to from each position on.  What an opened pair leaves unclosed
\* stays as it is written.
RenderFrom(t, data) ==
    LET from[i \in 1..(Len(t) + 2)] ==
          IF Pairs(t, "{", i) = {} \/ Pairs(t, "}", Leftmost(Pairs(t, "{", i)) + 2) = {}
            THEN SubSeq(t, i, Len(t))
            ELSE LET a == Leftmost(Pairs(t, "{", i))
                     b == CloseFirst(t, a)
                 IN SubSeq(t, i, a - 1)
                      \o ValueOf(data, Trim(SubSeq(t, a + 2, b - 1)))
                      \o from[b + 2]
    IN from

Render(t, data) == RenderFrom(t, data)[1]
=============================================================================
