------------------------ MODULE MCNotificationWrite -------------------------
(***************************************************************************)
(* Small instances of NotificationWrite for TLC.  Recipients are addresses *)
(* as callers spell them, normalized as the code does (RecipientAddress):  *)
(* home and Home are one number, work another, nobody has no digits.       *)
(***************************************************************************)
EXTENDS NotificationWrite, NotifChannel, HttpRoutes, TLC

CONSTANTS q1, q2, b1, b2

home   == <<"+", "6">>
Home   == <<" ", "+", "-", "6">>
work   == <<"+", "8">>
nobody == <<"+", "-">>
inbox  == <<"a", "@">>

Norm == INSTANCE RecipientAddress WITH
    Digit <- {"6", "8"}, Blank <- {" "}, Lower <- [c \in {"A"} |-> "a"]

MCEventType == {"due"}
MCChannel   == {"sms"}
MCTopic     == <<"due", "sms">>
MCRecipient == {home, Home, work, nobody}
MCAddress   == {home, work}
MCNoAddress == <<>>
MCNormalize ==
    [x \in MCChannel \X MCRecipient |-> Norm!NormalizeAddress(x[1], x[2])]

MCTopicOf   == [q \in Request |-> MCTopic]

\* One event; q2 redelivers it under another spelling of the recipient, beside an
\* address that is none.
OneEvent    == [q \in Request |-> 1]
Respelled   == [q \in Request |-> IF q = q1 THEN <<home>> ELSE <<Home, nobody>>]
OneEach     == [q \in Request |-> <<home>>]
Pair        == [q \in Request |-> <<home, work>>]
NoneUnstorable == {}

\* One event on two phone channels, of which only sms dedups on the key: q1 meets
\* a row that no text makes short enough to store, q2 escalates its first recipient.
PhoneChannels == {"sms", "whatsapp"}
ByChannel     == [q \in Request |-> <<"due", IF q = q1 THEN "sms" ELSE "whatsapp">>]
Escalated     == [q \in Request |-> IF q = q1 THEN <<home, work>> ELSE <<Home>>]
SecondTooLong == {<<q1, b, work>> : b \in Body}
PhoneNormalize ==
    [x \in PhoneChannels \X MCRecipient |-> Norm!NormalizeAddress(x[1], x[2])]
Poisoned    == [q \in Request |-> <<home, nobody, work>>]

\* One mailbox, by e-mail over the queue port.
ByEmail     == [q \in Request |-> <<"due", "email">>]
Mailbox     == {inbox}
ToMailbox   == [q \in Request |-> <<inbox>>]
QueueNormalize ==
    [x \in QueueChannel \X Mailbox |-> Norm!NormalizeAddress(x[1], x[2])]
QueueAddress == {inbox}

\* Nothing tells one template id from another, nor one text from another.
TemplatesAlike == Permutations(TemplateId) \cup Permutations(Body)
=============================================================================
