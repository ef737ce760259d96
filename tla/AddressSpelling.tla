-------------------------- MODULE AddressSpelling ---------------------------
(***************************************************************************)
(* Two callers spell the addresses of the recipients they mean, starting   *)
(* from the canonical form and varying it as the comment on                *)
(* normalize_recipient_address says people do: white space around it,      *)
(* capitals in an e-mail address, punctuation among a number's digits.     *)
(***************************************************************************)
EXTENDS RecipientAddress

CONSTANTS
    Channel,
    Structural,      \* the characters an e-mail address is made of, lower case
    Punctuation,     \* what people put between the digits of a number
    MaxCanonical,    \* bound on the length of a canonical address
    MaxSpelled       \* bound on the length of a spelling

VARIABLES channel, meant, spelled

spellings == <<channel, meant, spelled>>

ASSUME SpellingAssumption ==
    /\ "+" \notin Digit \cup Blank \cup Punctuation
    /\ Digit \cap (Blank \cup Punctuation) = {}
    /\ Structural \cap (Blank \cup DOMAIN Lower) = {}
    /\ \A c \in DOMAIN Lower : Lower[c] \in Structural /\ c \notin Blank
    /\ MaxCanonical \in Nat \ {0} /\ MaxSpelled \in Nat

\* What a caller may mean: international numbers, national ones of two digits
\* and more, and mailboxes.
CanonicalAddress(ch) ==
    IF ch = "email" THEN Word(Structural, MaxCanonical)
      ELSE {s \in Word(Digit, MaxCanonical) : Len(s) >= 2}
             \cup {<<"+">> \o s : s \in Word(Digit, MaxCanonical - 1)}

Insert(s, i, c) == SubSeq(s, 1, i) \o <<c>> \o SubSeq(s, i + 1, Len(s))

Respell(p, s) ==
    /\ Len(s) <= MaxSpelled
    /\ spelled' = [spelled EXCEPT ![p] = s]
    /\ UNCHANGED <<channel, meant>>

Pad(p, c) ==
    \/ Respell(p, <<c>> \o spelled[p])
    \/ Respell(p, Append(spelled[p], c))

Capitalize(p, c) ==
    /\ channel = "email"
    /\ \E i \in DOMAIN spelled[p] :
          spelled[p][i] = Lower[c] /\ Respell(p, [spelled[p] EXCEPT ![i] = c])

\* Not before the plus: a number starts with its plus or has none.
Punctuate(p, c) ==
    /\ channel # "email"
    /\ \E i \in 0..Len(spelled[p]) :
          /\ "+" \notin {spelled[p][k] : k \in (i + 1)..Len(spelled[p])}
          /\ Respell(p, Insert(spelled[p], i, c))

SpellingInit ==
    /\ channel \in Channel
    /\ meant \in [{1, 2} -> CanonicalAddress(channel)]
    /\ spelled = meant

SpellingNext ==
    \E p \in {1, 2} :
        \/ \E c \in Blank : Pad(p, c)
        \/ \E c \in DOMAIN Lower : Capitalize(p, c)
        \/ \E c \in Blank \cup Punctuation : Punctuate(p, c)

SpellingSpec == SpellingInit /\ [][SpellingNext]_spellings

Key(p) == NormalizeAddress(channel, spelled[p])

(***************************************************************************)
(* However two callers spell one recipient, the dedup key is one and the   *)
(* same, and is never the empty one that notify refuses.                   *)
(***************************************************************************)
SpellingsCollapse == meant[1] = meant[2] => Key(1) = Key(2) /\ Key(1) # <<>>

(***************************************************************************)
(* Two recipients never share a key, however they are spelled: a dot more  *)
(* in a mailbox, or a plus before a number, is another recipient.          *)
(***************************************************************************)
RecipientsStayApart == meant[1] # meant[2] => Key(1) # Key(2)
=============================================================================
