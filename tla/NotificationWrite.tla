-------------------------- MODULE NotificationWrite -------------------------
(***************************************************************************)
(* The write engine of backbone-notification: notify, dispatch_pending and *)
(* record_delivery of NotificationWriteService, run by concurrent callers  *)
(* over the notifications table, the transactional outbox, the templates   *)
(* and an external channel gateway.                                        *)
(*                                                                         *)
(* Every database statement that commits on its own, every transaction,    *)
(* every gateway call and every in-process publish is one step, so any two *)
(* callers interleave between them and a caller may die between any two.   *)
(* A notification is named by its rank of creation, which is also the      *)
(* order created_at gives list_pending; a message by the rank in which the *)
(* gateway accepted it.                                                    *)
(***************************************************************************)
EXTENDS Naturals, Sequences, FiniteSets

CONSTANTS
    Notifier,        \* callers that run notify (domain-event subscriptions)
    Sweeper,         \* callers that run dispatch_pending (scheduled reapers)
    Relay,           \* callers that run record_delivery (receipt subscriptions)
    Scoped,          \* the callers whose ambient org scope carries a company
    Request,         \* the NotifyEvent values callers pass to notify
    EventId,         \* Request -> its event_id
    EventType, Channel,
    TopicOf,         \* Request -> <<event_type, channel>>
    Recipient,       \* recipient addresses as spelled by the caller
    RecipientsOf,    \* Request -> sequence of Recipient
    Address,         \* canonical addresses
    NoAddress,       \* the empty canonical address
    Normalize,       \* <<channel, spelling>> -> canonical address or NoAddress
    Unstorable,      \* <<request, body, spelling>> whose row breaks a column CHECK
    Composed,        \* channels the gateway has a transport for
    Keyed,           \* channels whose transport dedups on the idempotency key
    Rejection,       \* reasons a dispatch is rejected with
    Bounce,          \* reasons a message is reported undelivered with
    Overlong,        \* the reasons failure_reason's CHECK refuses
    Limit,           \* the limit dispatch_pending is called with
    MaxFaults,       \* bound on crashes, database errors and lost answers
    MaxReports,      \* bound on the outcomes the provider reports
    TemplateId, Body, Malformed, Surface, UniqueTopic, MaxTemplateWrites,
    NoRequest, NoBody, NoReason

VARIABLES
    rows,            \* notification.notifications
    outbox,          \* notification.outbox_events
    templates, writes,
    messages,        \* what the gateway accepted, each sent to its address
    reports,         \* the outcomes the provider reported, <<message, outcome>>
    published,       \* events handed to the in-process sink
    completed,       \* requests a notify call answered Ok for, with a template
    skipped,         \* requests a notify call answered Ok for, with none
    faults,
    pc, req, tmpl, todo, batch, cur, answer, event   \* each caller's call

store    == <<rows, outbox>>
gateway  == <<messages, reports>>
broker   == <<completed, skipped>>
locals   == <<req, tmpl, todo, batch, cur, answer, event>>
vars     == <<rows, outbox, templates, writes, messages, reports, published,
              completed, skipped, faults, pc, locals>>

Worker == Notifier \cup Sweeper \cup Relay
Topic  == EventType \X Channel

Table == INSTANCE NotificationTemplates

-----------------------------------------------------------------------------
ASSUME RequestAssumption ==
    /\ EventId \in [Request -> Nat]
    /\ TopicOf \in [Request -> Topic]
    /\ RecipientsOf \in [Request -> Seq(Recipient)]
    /\ NoRequest \notin Request

ASSUME AddressAssumption ==
    /\ Normalize \in [Channel \X Recipient -> Address \cup {NoAddress}]
    /\ NoAddress \notin Address

ASSUME GatewayAssumption ==
    /\ Composed \subseteq Channel /\ Keyed \subseteq Channel
    /\ NoReason \notin Rejection \cup Bounce
    /\ Rejection # {}
    /\ "delivered" \notin Bounce

ASSUME BoundAssumption ==
    /\ Limit \in Nat \ {0}
    /\ MaxFaults \in Nat
    /\ MaxReports \in Nat
    /\ MaxTemplateWrites \in Nat

-----------------------------------------------------------------------------
Status  == {"pending", "sent", "delivered", "undelivered", "failed"}
Outcome == {"delivered"} \cup Bounce
Kind    == {"NotificationDispatched", "NotificationFailed",
            "NotificationDelivered", "NotificationUndelivered"}

\* event_id, event_type, channel, subject and body follow from req and body.
Row     == [req : Request, addr : Address, body : Body, status : Status, msg : Nat,
            reason : Rejection \cup Bounce \cup {NoReason}, deleted : BOOLEAN]
Message == [key : Nat, req : Request, addr : Address, body : Body]
Event   == [n : Nat, kind : Kind, msg : Nat]
Answer  == [msg : Nat, reason : Rejection \cup {NoReason}]

NoAnswer == [msg |-> 0, reason |-> NoReason]
NoEvent  == [n |-> 0, kind |-> "NotificationDispatched", msg |-> 0]

ChannelOf(q)    == TopicOf[q][2]
Canonical(q, r) == Normalize[<<ChannelOf(q), r>>]

\* The unique index (event_id, recipient_address); the channel is not part of it.
SlotOf(n)   == <<EventId[rows[n].req], rows[n].addr>>
\* Variant: a redelivery may claim again what was recorded as failed.
HeldUnlessFailed(e, a) ==
    \E n \in DOMAIN rows : SlotOf(n) = <<e, a>> /\ rows[n].status # "failed"
\* Variant: the unique index covers only the rows that are not deleted.
HeldUnlessDeleted(e, a) == \E n \in DOMAIN rows : SlotOf(n) = <<e, a>> /\ ~rows[n].deleted
Held(e, a)  == \E n \in DOMAIN rows : SlotOf(n) = <<e, a>>

Pending == {n \in DOMAIN rows : rows[n].status = "pending" /\ ~rows[n].deleted}

\* list_pending: the oldest k pending rows, whoever may be working on them.
\* Variant: the ranks counted from one, so that the oldest is left out.
AfterOldest(k)   == {n \in Pending : Cardinality({m \in Pending : m < n}) \in 1..k}
OldestPending(k) == {n \in Pending : Cardinality({m \in Pending : m < n}) < k}
Oldest(S)        == CHOOSE n \in S : \A m \in S : n <= m

Init ==
    /\ rows = <<>> /\ outbox = <<>>
    /\ Table!TemplatesInit
    /\ messages = <<>> /\ reports = {} /\ published = {}
    /\ completed = {} /\ skipped = {} /\ faults = 0
    /\ pc = [w \in Worker |-> "idle"]
    /\ req = [w \in Worker |-> NoRequest]
    /\ tmpl = [w \in Worker |-> NoBody]
    /\ todo = [w \in Worker |-> <<>>]
    /\ batch = [w \in Worker |-> {}]
    /\ cur = [w \in Worker |-> 0]
    /\ answer = [w \in Worker |-> NoAnswer]
    /\ event = [w \in Worker |-> NoEvent]

\* The call returns, or dies: nothing of it outlives its stack frame.
Return(w) ==
    /\ pc' = [pc EXCEPT ![w] = "idle"]
    /\ req' = [req EXCEPT ![w] = NoRequest]
    /\ tmpl' = [tmpl EXCEPT ![w] = NoBody]
    /\ todo' = [todo EXCEPT ![w] = <<>>]
    /\ batch' = [batch EXCEPT ![w] = {}]
    /\ cur' = [cur EXCEPT ![w] = 0]
    /\ answer' = [answer EXCEPT ![w] = NoAnswer]
    /\ event' = [event EXCEPT ![w] = NoEvent]

Goto(w, label) == pc' = [pc EXCEPT ![w] = label]

-----------------------------------------------------------------------------
(* notify                                                                  *)

\* find_active finds no template: every recipient is skipped and the call is Ok.
NotifySkip(w, q) ==
    /\ pc[w] = "idle" /\ w \in Notifier
    /\ Table!FindActive(TopicOf[q]) = {}
    /\ skipped' = skipped \cup {q}
    /\ UNCHANGED <<store, templates, writes, gateway, published, completed, faults, pc, locals>>

\* find_active finds one; its text is read once, for all the recipients.
NotifyBegin(w, q) ==
    /\ pc[w] = "idle" /\ w \in Notifier
    /\ \E b \in Table!FindActive(TopicOf[q]) : tmpl' = [tmpl EXCEPT ![w] = b]
    /\ req' = [req EXCEPT ![w] = q]
    /\ todo' = [todo EXCEPT ![w] = RecipientsOf[q]]
    /\ Goto(w, "claim")
    /\ UNCHANGED <<store, templates, writes, gateway, published, broker, faults,
                   batch, cur, answer, event>>

\* Variant: a recipient without an address is passed over.
ClaimRefusedSkipped(w) ==
    /\ pc[w] = "claim" /\ todo[w] # <<>>
    /\ Canonical(req[w], Head(todo[w])) = NoAddress
    /\ todo' = [todo EXCEPT ![w] = Tail(@)]
    /\ UNCHANGED <<store, templates, writes, gateway, published, broker, faults, pc,
                   req, tmpl, batch, cur, answer, event>>

\* The rendered row breaks a CHECK on the columns a claim writes.
RowRefused(w) == <<req[w], tmpl[w], Head(todo[w])>> \in Unstorable

\* The next recipient's address normalizes to nothing, or its row is refused (a
\* CHECK is tested before the conflict): `?` ends the call.
ClaimRefused(w) ==
    /\ pc[w] = "claim" /\ todo[w] # <<>>
    /\ Canonical(req[w], Head(todo[w])) = NoAddress \/ RowRefused(w)
    /\ Return(w)
    /\ UNCHANGED <<store, templates, writes, gateway, published, broker, faults>>

Claimable(w) ==
    /\ pc[w] = "claim" /\ todo[w] # <<>>
    /\ Canonical(req[w], Head(todo[w])) # NoAddress
    /\ ~RowRefused(w)

\* ON CONFLICT DO NOTHING returned no row: the recipient is deduped.
ClaimConflict(w) ==
    /\ Claimable(w)
    /\ Held(EventId[req[w]], Canonical(req[w], Head(todo[w])))
    /\ todo' = [todo EXCEPT ![w] = Tail(@)]
    /\ UNCHANGED <<store, templates, writes, gateway, published, broker, faults, pc,
                   req, tmpl, batch, cur, answer, event>>

ClaimInsert(w) ==
    LET a == Canonical(req[w], Head(todo[w])) IN
    /\ Claimable(w)
    /\ ~Held(EventId[req[w]], a)
    /\ rows' = Append(rows, [req |-> req[w], addr |-> a, body |-> tmpl[w],
                             status |-> "pending", msg |-> 0, reason |-> NoReason,
                             deleted |-> FALSE])
    /\ cur' = [cur EXCEPT ![w] = Len(rows) + 1]
    /\ todo' = [todo EXCEPT ![w] = Tail(@)]
    /\ Goto(w, "dispatch")
    /\ UNCHANGED <<outbox, templates, writes, gateway, published, broker, faults,
                   req, tmpl, batch, answer, event>>

\* Every recipient handled: Ok(outcome), and the broker drops the request.
NotifyEnd(w) ==
    /\ pc[w] = "claim" /\ todo[w] = <<>>
    /\ completed' = completed \cup {req[w]}
    /\ Return(w)
    /\ UNCHANGED <<store, templates, writes, gateway, published, skipped, faults>>

-----------------------------------------------------------------------------
(* dispatch_pending                                                        *)

SweepBegin(w) ==
    LET due == OldestPending(Limit) IN
    /\ pc[w] = "idle" /\ w \in Sweeper
    /\ due # {}
    /\ cur' = [cur EXCEPT ![w] = Oldest(due)]
    /\ batch' = [batch EXCEPT ![w] = due \ {Oldest(due)}]
    /\ Goto(w, "dispatch")
    /\ UNCHANGED <<store, templates, writes, gateway, published, broker, faults,
                   req, tmpl, todo, answer, event>>

-----------------------------------------------------------------------------
(* port.dispatch, the same for both; the gateway is another system         *)

Answered(w, m, r) ==
    /\ answer' = [answer EXCEPT ![w] = [msg |-> m, reason |-> r]]
    /\ Goto(w, "commit")
    /\ UNCHANGED <<store, templates, writes, reports, published, broker,
                   req, tmpl, todo, batch, cur, event>>

Envelope(n) == [key |-> n, req |-> rows[n].req, addr |-> rows[n].addr, body |-> rows[n].body]

\* The message the gateway holds for e's key, where the transport looks for it.
Known(e) == IF ChannelOf(e.req) \in Keyed
              THEN {m \in DOMAIN messages : messages[m].key = e.key} ELSE {}

\* e is accepted: messages' and the id the gateway answers with.
Accept(e, m) ==
    /\ ChannelOf(e.req) \in Composed
    /\ IF Known(e) # {}
         THEN m \in Known(e) /\ UNCHANGED messages
         ELSE m = Len(messages) + 1 /\ messages' = Append(messages, e)

Send(w, e) ==
    /\ pc[w] = "dispatch"
    /\ \E m \in 1..(Len(messages) + 1) : Accept(e, m) /\ Answered(w, m, NoReason)
    /\ UNCHANGED faults

\* Accepted, but the port lost the gateway's answer and reports a rejection.
SendLost(w, e) ==
    /\ pc[w] = "dispatch" /\ faults < MaxFaults
    /\ \E m \in 1..(Len(messages) + 1), r \in Rejection :
          Accept(e, m) /\ Answered(w, 0, r)
    /\ faults' = faults + 1

\* The request is built from the row as it was claimed or listed, which nothing
\* in this module changes meanwhile.
DispatchAccepted(w) == Send(w, Envelope(cur[w]))
DispatchLost(w)     == SendLost(w, Envelope(cur[w]))

DispatchRejected(w) ==
    /\ pc[w] = "dispatch"
    /\ \E r \in Rejection : Answered(w, 0, r)
    /\ UNCHANGED <<messages, faults>>

-----------------------------------------------------------------------------
(* commit_dispatched and commit_failed: one transaction, then the publish  *)

Stage(w, e) ==
    /\ outbox' = Append(outbox, e)
    /\ event' = [event EXCEPT ![w] = e]
    /\ Goto(w, "publish")

\* Variants: the UPDATE without its guard on pending; a status of its own for failures.
MarkSentUnguarded(n, m) ==
    rows' = [rows EXCEPT ![n] = [@ EXCEPT !.status = "sent", !.msg = m]]
MarkFailedUnguarded(n, r) ==
    rows' = [rows EXCEPT ![n] = [@ EXCEPT !.status = "failed", !.reason = r]]
MarkRejected(n, r) ==
    rows' = IF rows[n].status = "pending"
              THEN [rows EXCEPT ![n] = [@ EXCEPT !.status = "rejected", !.reason = r]]
              ELSE rows

\* The guarded UPDATE; matching no row is not an error, and the event is staged anyway.
MarkSent(n, m) ==
    rows' = IF rows[n].status = "pending"
              THEN [rows EXCEPT ![n] = [@ EXCEPT !.status = "sent", !.msg = m]]
              ELSE rows

MarkFailed(n, r) ==
    rows' = IF rows[n].status = "pending"
              THEN [rows EXCEPT ![n] = [@ EXCEPT !.status = "failed", !.reason = r]]
              ELSE rows

CommitDispatched(w) ==
    /\ pc[w] = "commit" /\ w \in Scoped
    /\ answer[w].msg # 0
    /\ MarkSent(cur[w], answer[w].msg)
    /\ Stage(w, [n |-> cur[w], kind |-> "NotificationDispatched", msg |-> answer[w].msg])
    /\ UNCHANGED <<templates, writes, gateway, published, broker, faults,
                   req, tmpl, todo, batch, cur, answer>>

\* The UPDATE breaks failure_reason's CHECK, if it matches a row at all.
ReasonRefused(w) == rows[cur[w]].status = "pending" /\ answer[w].reason \in Overlong

CommitFailed(w) ==
    /\ pc[w] = "commit" /\ w \in Scoped
    /\ answer[w].msg = 0
    /\ ~ReasonRefused(w)
    /\ MarkFailed(cur[w], answer[w].reason)
    /\ Stage(w, [n |-> cur[w], kind |-> "NotificationFailed", msg |-> 0])
    /\ UNCHANGED <<templates, writes, gateway, published, broker, faults,
                   req, tmpl, todo, batch, cur, answer>>

\* Variant: the event is published although its transaction rolled back.
CommitRefusedPublished(w) ==
    /\ pc[w] = "commit"
    /\ \/ w \notin Scoped
       \/ answer[w].msg = 0 /\ ReasonRefused(w)
    /\ published' = published \cup
          {[n |-> cur[w], msg |-> answer[w].msg,
            kind |-> IF answer[w].msg # 0 THEN "NotificationDispatched"
                                          ELSE "NotificationFailed"]}
    /\ Return(w)
    /\ UNCHANGED <<store, templates, writes, gateway, broker, faults>>

\* Variant: the request is acknowledged all the same.
CommitRefusedAcked(w) ==
    /\ pc[w] = "commit"
    /\ \/ w \notin Scoped
       \/ answer[w].msg = 0 /\ ReasonRefused(w)
    /\ completed' = completed \cup ({req[w]} \ {NoRequest})
    /\ Return(w)
    /\ UNCHANGED <<store, templates, writes, gateway, published, skipped, faults>>

\* NoCompanyScope, or the refused reason: the transaction rolls back, `?` ends the call.
CommitRefused(w) ==
    /\ pc[w] = "commit"
    /\ \/ w \notin Scoped
       \/ answer[w].msg = 0 /\ ReasonRefused(w)
    /\ Return(w)
    /\ UNCHANGED <<store, templates, writes, gateway, published, broker, faults>>

\* After the commit: publish in-process, then on to the call's next item, if any.
Publish(w) ==
    /\ pc[w] = "publish"
    /\ published' = published \cup {event[w]}
    /\ \/ /\ req[w] # NoRequest
          /\ Goto(w, "claim")
          /\ cur' = [cur EXCEPT ![w] = 0]
          /\ answer' = [answer EXCEPT ![w] = NoAnswer]
          /\ event' = [event EXCEPT ![w] = NoEvent]
          /\ UNCHANGED <<req, tmpl, todo, batch>>
       \/ /\ batch[w] # {}
          /\ Goto(w, "dispatch")
          /\ cur' = [cur EXCEPT ![w] = Oldest(batch[w])]
          /\ batch' = [batch EXCEPT ![w] = @ \ {Oldest(@)}]
          /\ answer' = [answer EXCEPT ![w] = NoAnswer]
          /\ event' = [event EXCEPT ![w] = NoEvent]
          /\ UNCHANGED <<req, tmpl, todo>>
       \/ /\ req[w] = NoRequest /\ batch[w] = {}
          /\ Return(w)
    /\ UNCHANGED <<store, templates, writes, gateway, broker, faults>>

-----------------------------------------------------------------------------
(* record_delivery                                                         *)

\* Variant: every row that has been sent.
CorrelatedAny(m) == {n \in DOMAIN rows : rows[n].status = "sent"}

\* The rows apply_delivery_receipt's WHERE clause matches; matching none answers
\* Ok(false) and changes nothing.
Correlated(m) == {n \in DOMAIN rows : rows[n].msg = m /\ rows[n].status = "sent"}

\* What the UPDATE makes of a row it matches, and the event it is announced with.
Received(row, o) ==
    IF o = "delivered" THEN [row EXCEPT !.status = "delivered"]
                       ELSE [row EXCEPT !.status = "undelivered", !.reason = o]

ReceiptKind(o) ==
    IF o = "delivered" THEN "NotificationDelivered" ELSE "NotificationUndelivered"

\* The UPDATE moves every row it matches, and RETURNING's first is announced.  By
\* itself the engine never gives two rows one message id (MessageIdCorrelates).
RecordDelivery(w, m, o) ==
    /\ pc[w] = "idle" /\ w \in Relay /\ w \in Scoped
    /\ <<m, o>> \in reports
    /\ o \notin Overlong
    /\ rows' = [n \in DOMAIN rows |->
                    IF n \in Correlated(m) THEN Received(rows[n], o) ELSE rows[n]]
    /\ \E n \in Correlated(m) : Stage(w, [n |-> n, kind |-> ReceiptKind(o), msg |-> 0])
    /\ UNCHANGED <<templates, writes, gateway, published, broker, faults,
                   req, tmpl, todo, batch, cur, answer>>

-----------------------------------------------------------------------------
(* Around the engine                                                       *)

\* The caller's process dies, or a statement fails and `?` ends the call.
Crash(w) ==
    /\ pc[w] # "idle" /\ faults < MaxFaults
    /\ faults' = faults + 1
    /\ Return(w)
    /\ UNCHANGED <<store, templates, writes, gateway, published, broker>>

\* The provider reports an outcome of a message it accepted; reports may disagree.
Report(m, o) ==
    /\ m \in DOMAIN messages
    /\ <<m, o>> \notin reports /\ Cardinality(reports) < MaxReports
    /\ reports' = reports \cup {<<m, o>>}
    /\ UNCHANGED <<store, templates, writes, messages, published, broker, faults, pc, locals>>

TemplateWrite ==
    /\ Table!TemplatesNext
    /\ UNCHANGED <<store, gateway, published, broker, faults, pc, locals>>

\* A step of a call under way that sends nothing.
Proceed(w) ==
    \/ ClaimRefused(w) \/ ClaimConflict(w) \/ ClaimInsert(w) \/ NotifyEnd(w)
    \/ DispatchRejected(w)
    \/ CommitDispatched(w) \/ CommitFailed(w) \/ CommitRefused(w)
    \/ Publish(w)

Step(w) == Proceed(w) \/ DispatchAccepted(w) \/ DispatchLost(w)

Deliver(q) == \E w \in Notifier : NotifySkip(w, q) \/ NotifyBegin(w, q)
Record     == \E w \in Relay, m \in DOMAIN messages, o \in Outcome : RecordDelivery(w, m, o)

Next ==
    \/ \E q \in Request : Deliver(q)
    \/ \E w \in Sweeper : SweepBegin(w)
    \/ Record
    \/ \E w \in Worker : Step(w) \/ Crash(w)
    \/ \E m \in DOMAIN messages, o \in Outcome : Report(m, o)
    \/ TemplateWrite

Spec == Init /\ [][Next]_vars
-----------------------------------------------------------------------------
(***************************************************************************)
(* Type correctness of the tables, the gateway's log and every caller's    *)
(* stack frame.                                                            *)
(***************************************************************************)
TablesTypeOK ==
    /\ rows \in Seq(Row)
    /\ outbox \in Seq(Event)
    /\ Table!TemplatesTypeOK
    /\ messages \in Seq(Message)
    /\ reports \subseteq Nat \X Outcome
    /\ published \subseteq Event
    /\ completed \subseteq Request /\ skipped \subseteq Request
    /\ faults \in 0..MaxFaults

FramesTypeOK ==
    /\ pc \in [Worker -> {"idle", "claim", "dispatch", "commit", "publish"}]
    /\ req \in [Worker -> Request \cup {NoRequest}]
    /\ tmpl \in [Worker -> Body \cup {NoBody}]
    /\ todo \in [Worker -> Seq(Recipient)]
    /\ batch \in [Worker -> SUBSET Nat]
    /\ cur \in [Worker -> Nat]
    /\ answer \in [Worker -> Answer]
    /\ event \in [Worker -> Event]

TypeOK == TablesTypeOK /\ FramesTypeOK

(***************************************************************************)
(* On a channel whose transport dedups on the idempotency key, the gateway *)
(* never holds two messages of one event for one recipient address:        *)
(* redelivered events, concurrent notify calls, a reaper that picks up a   *)
(* row still in flight, crashes anywhere and lost answers included.        *)
(***************************************************************************)
NoDoubleNotify ==
    \A i, j \in DOMAIN messages :
        /\ ChannelOf(messages[i].req) \in Keyed
        /\ EventId[messages[i].req] = EventId[messages[j].req]
        /\ messages[i].addr = messages[j].addr
        => i = j

(***************************************************************************)
(* The same of every channel, whatever its transport does with the key:    *)
(* the comment on dispatch_pending says re-driving is safe because the     *)
(* dispatch carries the notification's idempotency key.                    *)
(***************************************************************************)
OneMessagePerRecipient ==
    \A i, j \in DOMAIN messages :
        /\ EventId[messages[i].req] = EventId[messages[j].req]
        /\ messages[i].addr = messages[j].addr
        => i = j

(***************************************************************************)
(* One notification per event and recipient, on every transport: what is   *)
(* sent twice is the very same message, key, channel and text included,    *)
(* although the index leaves the channel out, a redelivery may come over   *)
(* another phone channel and the template may have changed in between.     *)
(***************************************************************************)
RepeatsAreCopies ==
    \A i, j \in DOMAIN messages :
        /\ EventId[messages[i].req] = EventId[messages[j].req]
        /\ messages[i].addr = messages[j].addr
        => messages[i] = messages[j]

Staged(n, kind) == \E i \in DOMAIN outbox : outbox[i].n = n /\ outbox[i].kind = kind

\* The outbox tells whether row n is pending, handed off or refused, ...
HandOffStaged(n) ==
    /\ rows[n].status = "pending" => \A i \in DOMAIN outbox : outbox[i].n # n
    /\ rows[n].status \in {"sent", "delivered", "undelivered"} =>
          \E i \in DOMAIN outbox :
             outbox[i] = [n |-> n, kind |-> "NotificationDispatched", msg |-> rows[n].msg]
    /\ rows[n].status = "failed" => Staged(n, "NotificationFailed")

\* ... and nothing of a receipt the row has not been moved by.
ReceiptsTrue(n) ==
    /\ Staged(n, "NotificationDelivered") => rows[n].status = "delivered"
    /\ Staged(n, "NotificationUndelivered") => rows[n].status = "undelivered"

\* A receipt that moved row n is announced.
ReceiptStaged(n) ==
    /\ rows[n].status = "delivered" => Staged(n, "NotificationDelivered")
    /\ rows[n].status = "undelivered" => Staged(n, "NotificationUndelivered")

OutboxCovers(n) == HandOffStaged(n) /\ ReceiptsTrue(n) /\ ReceiptStaged(n)

(***************************************************************************)
(* commit_dispatched, commit_failed and record_delivery move a row and     *)
(* stage its event in one transaction: at every instant the outbox tells   *)
(* of every state a row has reached, the message id included, and of       *)
(* nothing for a row still pending.                                        *)
(***************************************************************************)
OutboxCoversState == \A n \in DOMAIN rows : OutboxCovers(n)

(***************************************************************************)
(* A failed notification is one the gateway refused: no message of it is   *)
(* on its way to the recipient.                                            *)
(***************************************************************************)
FailedIsNotHandedOff ==
    \A n \in DOMAIN rows :
        rows[n].status = "failed" => \A m \in DOMAIN messages : messages[m].key # n

\* Row n's message is its own, and so are the reports it was moved by.
OwnsMessage(n) ==
    /\ rows[n].status \in {"sent", "delivered", "undelivered"} =>
          rows[n].msg \in DOMAIN messages /\ messages[rows[n].msg] = Envelope(n)
    /\ rows[n].status = "delivered" => <<rows[n].msg, "delivered">> \in reports
    /\ rows[n].status = "undelivered" => <<rows[n].msg, rows[n].reason>> \in reports

\* No other row has the message id of row n.
SharesNoMessage(n) ==
    rows[n].status \in {"sent", "delivered", "undelivered"} =>
        \A k \in DOMAIN rows : rows[k].msg = rows[n].msg => k = n

(***************************************************************************)
(* A row's message_id correlates: it is a message the gateway accepted for *)
(* this very notification, no two rows share it, and a row is delivered or *)
(* undelivered only on a report about that message.                        *)
(***************************************************************************)
MessageIdCorrelates == \A n \in DOMAIN rows : OwnsMessage(n) /\ SharesNoMessage(n)

(***************************************************************************)
(* The in-process sink never hears of anything a crash could take back:    *)
(* what is published has been staged in the outbox.                        *)
(***************************************************************************)
PublishedIsDurable ==
    \A e \in published : \E i \in DOMAIN outbox : outbox[i] = e

(***************************************************************************)
(* Once notify has answered Ok for a request it found a template for, and  *)
(* the broker has dropped the event, every recipient has a notification on *)
(* record: none is left to a redelivery that will not come.                *)
(***************************************************************************)
CompletedIsRecorded ==
    \A q \in completed : \A i \in DOMAIN RecipientsOf[q] :
        Held(EventId[q], Canonical(q, RecipientsOf[q][i]))

-----------------------------------------------------------------------------
(* The engine implements the lifecycle of every slot.                      *)

Slot == {EventId[q] : q \in Request} \X Address

\* The row that holds slot s.
HolderOf(s) == CHOOSE n \in DOMAIN rows : SlotOf(n) = s

StateOf(s) == IF Held(s[1], s[2]) THEN rows[HolderOf(s)].status ELSE "absent"

AnnouncedOf(s) ==
    IF Held(s[1], s[2])
      THEN {k \in Kind : Staged(HolderOf(s), k)} ELSE {}

Lifecycle == INSTANCE NotificationLifecycle WITH
    Slot      <- Slot,
    state     <- [s \in Slot |-> StateOf(s)],
    announced <- [s \in Slot |-> AnnouncedOf(s)]

(***************************************************************************)
(* Every behaviour of the engine is one of the abstract lifecycle: a slot  *)
(* is claimed once, moves forward only, ends in one of its terminal states *)
(* and is announced as it moves.                                           *)
(***************************************************************************)
ImplementsLifecycle == Lifecycle!LifecycleSpec

-----------------------------------------------------------------------------
(* Liveness                                                                *)

(***************************************************************************)
(* Calls run to their end (the runtime polls every task); the broker       *)
(* redelivers an event until notify answers Ok, however often the          *)
(* subscriber is busy; the reaper runs on a schedule with an org scope.    *)
(* Nothing is assumed of the receipts: record_delivery answers Ok(false)   *)
(* for one it cannot correlate, and whether that is tried again is up to   *)
(* the composing service.                                                  *)
(***************************************************************************)
Fairness ==
    /\ \A w \in Worker : WF_vars(Step(w))
    /\ \A q \in Request : SF_vars(q \notin completed \cup skipped /\ Deliver(q))
    /\ \A w \in Sweeper : WF_vars(SweepBegin(w))

FairSpec == Spec /\ Fairness

Resolved(q, r) ==
    \E n \in DOMAIN rows :
        /\ SlotOf(n) = <<EventId[q], Canonical(q, r)>>
        /\ rows[n].status # "pending"

WellFormed(q, r) ==
    Canonical(q, r) # NoAddress /\ \A b \in Body : <<q, b, r>> \notin Unstorable

(***************************************************************************)
(* No recipient is silently never notified: each well-formed recipient of  *)
(* a request ends with a notification handed off or visibly failed,        *)
(* whatever crashes happen on the way, unless the request was answered     *)
(* with no template for it.                                                *)
(***************************************************************************)
EveryRecipientResolved ==
    \A q \in Request : \A i \in DOMAIN RecipientsOf[q] :
        LET r == RecipientsOf[q][i] IN
        WellFormed(q, r) => <>(q \in skipped \/ Resolved(q, r))
=============================================================================
