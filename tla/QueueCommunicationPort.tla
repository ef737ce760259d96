----------------------- MODULE QueueCommunicationPort -----------------------
(***************************************************************************)
(* The queue-backed gateway QueueCommunicationPort: dispatch stages a mail *)
(* through message_post, a text through the sms queue's enqueue, and       *)
(* rejects any other channel.  The queues belong to another crate; a call  *)
(* may fail, stage its row and lose the answer, or, for e-mail, post a     *)
(* message without a mail row.  Only the sms queue is given the            *)
(* idempotency key, as the id of the notification the text serves.         *)
(***************************************************************************)
EXTENDS Naturals, Sequences, NotifChannel

CONSTANTS
    Caller,          \* the engine's tasks that call dispatch
    Key,             \* idempotency keys
    Uuid,            \* those that parse as the id of a notification
    Content,         \* address, subject and body
    DispatchRequest, \* the requests the engine makes
    SmsDedups,       \* does the sms queue keep one row per notification id?
    NoNotification,
    MaxCalls,        \* bound on the calls of a behaviour
    MaxFaults        \* bound on lost answers and dead callers

\* A key names one notification, whose channel and content never change: the
\* engine dispatches envelopes of stored rows (NotificationWrite!RepeatsAreCopies).
ASSUME QueueAssumption ==
    /\ DispatchRequest \subseteq [key : Key, channel : QueueChannel, content : Content]
    /\ \A q, r \in DispatchRequest : q.key = r.key => q = r
    /\ Uuid \subseteq Key /\ NoNotification \notin Key
    /\ SmsDedups \in BOOLEAN
    /\ MaxCalls \in Nat /\ MaxFaults \in Nat

VARIABLES
    mails,           \* the mail queue's rows: contents
    texts,           \* the sms queue's rows: contents with the notification served
    hand,            \* caller -> the set of at most one request it is dispatching
    pc, got,         \* caller -> where the call is, and the row id it was given
    acks,            \* the acknowledgements given so far, <<request, row id>>
    calls, qfaults

portVars == <<mails, texts, hand, pc, got, acks, calls, qfaults>>

Text == [notification : Uuid \cup {NoNotification}, content : Content]

\* Variant: unwrap_or_default, a key that does not parse becomes the nil id.
NilId(key) == IF key \in Uuid THEN key ELSE "nil"
\* req.idempotency_key.parse().ok()
NotificationId(key) == IF key \in Uuid THEN key ELSE NoNotification

PortInit ==
    /\ mails = <<>> /\ texts = <<>>
    /\ hand = [c \in Caller |-> {}]
    /\ pc = [c \in Caller |-> "idle"]
    /\ got = [c \in Caller |-> 0]
    /\ acks = {} /\ calls = 0 /\ qfaults = 0

At(c, label, q) == pc[c] = label /\ hand[c] = {q}

Goto(c, label, id) ==
    /\ pc' = [pc EXCEPT ![c] = label]
    /\ got' = [got EXCEPT ![c] = id]
    /\ UNCHANGED <<hand, calls>>

Fault == qfaults < MaxFaults /\ qfaults' = qfaults + 1

Dispatch(c, q) ==
    /\ pc[c] = "idle" /\ calls < MaxCalls
    /\ pc' = [pc EXCEPT ![c] = "staging"]
    /\ hand' = [hand EXCEPT ![c] = {q}]
    /\ calls' = calls + 1
    /\ UNCHANGED <<mails, texts, got, acks, qfaults>>

\* The last arm of the match: the channel is not composed.
NotComposed(c, q) ==
    /\ At(c, "staging", q) /\ q.channel \notin Transported
    /\ Goto(c, "answered", 0)
    /\ UNCHANGED <<mails, texts, acks, qfaults>>

PostMail(c, q) ==
    /\ At(c, "staging", q) /\ q.channel = "email"
    /\ mails' = Append(mails, q.content)
    /\ Goto(c, "staged", Len(mails) + 1)
    /\ UNCHANGED <<texts, acks, qfaults>>

\* message_post honoured no recipient: it answers without a mail id.
PostWithoutMail(c, q) ==
    /\ At(c, "staging", q) /\ q.channel = "email"
    /\ Goto(c, "staged", 0)
    /\ UNCHANGED <<mails, texts, acks, qfaults>>

\* The queue's rows for a notification, where it looks for them.
Queued(key) ==
    {i \in DOMAIN texts : SmsDedups /\ key \in Uuid /\ texts[i].notification = key}

\* Variants: enqueue is not given the id; the queue goes by the content.
EnqueueKeyless(c, q) ==
    /\ At(c, "staging", q) /\ q.channel = "sms"
    /\ texts' = Append(texts, [notification |-> NoNotification, content |-> q.content])
    /\ Goto(c, "staged", Len(texts) + 1)
    /\ UNCHANGED <<mails, acks, qfaults>>
EnqueueByContent(c, q) ==
    LET same == {i \in DOMAIN texts : texts[i].content = q.content} IN
    /\ At(c, "staging", q) /\ q.channel = "sms"
    /\ \/ /\ same = {}
          /\ texts' = Append(texts, [notification |-> NotificationId(q.key),
                                     content |-> q.content])
          /\ Goto(c, "staged", Len(texts) + 1)
       \/ \E i \in same : Goto(c, "staged", i) /\ UNCHANGED texts
    /\ UNCHANGED <<mails, acks, qfaults>>

Enqueue(c, q) ==
    /\ At(c, "staging", q) /\ q.channel = "sms"
    /\ \/ /\ Queued(q.key) = {}
          /\ texts' = Append(texts, [notification |-> NotificationId(q.key),
                                     content |-> q.content])
          /\ Goto(c, "staged", Len(texts) + 1)
       \/ \E i \in Queued(q.key) : Goto(c, "staged", i) /\ UNCHANGED texts
    /\ UNCHANGED <<mails, acks, qfaults>>

\* map_err: the staging failed.
StageFailed(c, q) ==
    /\ At(c, "staging", q) /\ q.channel \in Transported
    /\ Goto(c, "answered", 0)
    /\ UNCHANGED <<mails, texts, acks, qfaults>>

\* The row is staged, but the queue's answer is an error.
StageLost(c, q) ==
    /\ At(c, "staging", q)
    /\ \/ /\ q.channel = "email"
          /\ mails' = Append(mails, q.content) /\ UNCHANGED texts
       \/ /\ q.channel = "sms" /\ Queued(q.key) = {}
          /\ texts' = Append(texts, [notification |-> NotificationId(q.key),
                                     content |-> q.content])
          /\ UNCHANGED mails
    /\ Goto(c, "answered", 0)
    /\ Fault
    /\ UNCHANGED acks

\* Variant: the missing mail id is not looked at.
AnswerUnchecked(c, q) ==
    /\ At(c, "staged", q)
    /\ LET id == IF got[c] = 0 THEN Len(mails) ELSE got[c] IN
       /\ acks' = acks \cup {<<q, id>>}
       /\ Goto(c, "answered", id)
    /\ UNCHANGED <<mails, texts, qfaults>>

\* A row id is acknowledged; none is a rejection, stage_failed.
Answer(c, q) ==
    /\ At(c, "staged", q)
    /\ acks' = IF got[c] # 0 THEN acks \cup {<<q, got[c]>>} ELSE acks
    /\ Goto(c, "answered", got[c])
    /\ UNCHANGED <<mails, texts, qfaults>>

Drop(c) ==
    /\ pc' = [pc EXCEPT ![c] = "idle"]
    /\ got' = [got EXCEPT ![c] = 0]
    /\ hand' = [hand EXCEPT ![c] = {}]
    /\ UNCHANGED <<mails, texts, acks, calls>>

Return(c) == pc[c] = "answered" /\ Drop(c) /\ UNCHANGED qfaults
Die(c)    == pc[c] # "idle" /\ Drop(c) /\ Fault

PortStep(c, q) ==
    \/ Dispatch(c, q) \/ NotComposed(c, q)
    \/ PostMail(c, q) \/ PostWithoutMail(c, q) \/ Enqueue(c, q)
    \/ StageFailed(c, q) \/ StageLost(c, q) \/ Answer(c, q)

PortNext ==
    \E c \in Caller :
        \/ \E q \in DispatchRequest : PortStep(c, q)
        \/ Return(c)
        \/ Die(c)

PortSpec == PortInit /\ [][PortNext]_portVars

-----------------------------------------------------------------------------
(***************************************************************************)
(* Type correctness of both queues and of every call.                      *)
(***************************************************************************)
PortTypeOK ==
    /\ mails \in Seq(Content)
    /\ texts \in Seq(Text)
    /\ pc \in [Caller -> {"idle", "staging", "staged", "answered"}]
    /\ got \in [Caller -> Nat]
    /\ \A c \in Caller :
          IF pc[c] = "idle" THEN hand[c] = {}
                            ELSE \E q \in DispatchRequest : hand[c] = {q}
    /\ hand \in [Caller -> SUBSET DispatchRequest]
    /\ acks \subseteq DispatchRequest \X Nat
    /\ calls \in 0..MaxCalls /\ qfaults \in 0..MaxFaults

(***************************************************************************)
(* A row id identifies its notification: record_delivery correlates a      *)
(* receipt on it, so no two notifications of a channel are ever            *)
(* acknowledged with one id, equal texts to equal addresses included.      *)
(***************************************************************************)
AcksCorrelate ==
    \A a, b \in acks :
        a[1].channel = b[1].channel /\ a[2] = b[2] => a[1] = b[1]

(***************************************************************************)
(* However often the reaper dispatches a notification again, after lost    *)
(* answers and deaths, the sms queue acknowledges it with the one row it   *)
(* has: the id the row first got stays the id receipts will carry.         *)
(***************************************************************************)
OneTextPerNotification ==
    \A a, b \in acks :
        SmsDedups /\ a[1] = b[1] /\ a[1].channel = "sms" /\ a[1].key \in Uuid
            => a[2] = b[2]

-----------------------------------------------------------------------------
(* The queues implement the gateway the engine relies on.                  *)

AnswerOf(c) ==
    [state |-> IF pc[c] \notin {"staged", "answered"} THEN "none"
                 ELSE IF got[c] = 0 THEN "rejected" ELSE "accepted",
     id    |-> got[c]]

Gateway == INSTANCE ChannelGateway WITH
    Channel  <- QueueChannel,
    accepted <- [ch \in QueueChannel |->
                    IF ch = "email" THEN mails
                      ELSE IF ch = "sms" THEN [i \in DOMAIN texts |-> texts[i].content]
                                         ELSE <<>>],
    asked    <- hand,
    told     <- [c \in Caller |-> AnswerOf(c)]

(***************************************************************************)
(* Every behaviour of the queue port is one of the gateway's contract: an  *)
(* acknowledgement names a staged row with the content asked for, in       *)
(* particular never a mail that message_post did not stage.                *)
(***************************************************************************)
ImplementsGateway == Gateway!GatewaySpec
=============================================================================
