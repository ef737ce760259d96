-------------------------- MODULE RecipientAddress --------------------------
(***************************************************************************)
(* normalize_recipient_address: the canonical form of a recipient address, *)
(* which is the dedup key of a notification.  An address is a sequence of  *)
(* characters, and <<>> the answer for what is no address.                 *)
(***************************************************************************)
EXTENDS Characters

CONSTANTS
    Digit,           \* the digits
    Lower            \* the ASCII letters' lower case: a function on the capitals

Lowercase(s) == [i \in DOMAIN s |-> IF s[i] \in DOMAIN Lower THEN Lower[s[i]] ELSE s[i]]

\* The digits among the first n characters of s, in their order.
DigitsUpTo(s) ==
    LET upto[n \in 0..Len(s)] == IF n = 0 THEN <<>>
                                 ELSE IF s[n] \in Digit THEN Append(upto[n - 1], s[n])
                                 ELSE upto[n - 1]
    IN upto

DigitsIn(s) == DigitsUpTo(s)[Len(s)]

\* An optional leading plus, then the digits; a lone character is no number.
PhoneNumber(s) ==
    LET plus == IF s # <<>> /\ Head(s) = "+" THEN <<"+">> ELSE <<>>
        out  == plus \o DigitsIn(s)
    IN IF Len(out) <= 1 THEN <<>> ELSE out

\* Variants: the norm of phone numbers for every channel; no trim first.
AsPhoneNumber(channel, raw) == PhoneNumber(Trim(raw))
Untrimmed(channel, raw) ==
    IF channel = "email" THEN Lowercase(raw) ELSE PhoneNumber(raw)

NormalizeAddress(channel, raw) ==
    IF channel = "email" THEN Lowercase(Trim(raw)) ELSE PhoneNumber(Trim(raw))
=============================================================================
