----------------------- MODULE NotificationWriteProofs ----------------------
(***************************************************************************)
(* Proofs about NotificationWrite, for every set of callers, requests and  *)
(* recipients and every value of the bounds.                               *)
(***************************************************************************)
EXTENDS NotificationWrite, SequenceTheorems, WellFoundedInduction, TLAPS

-----------------------------------------------------------------------------
(***************************************************************************)
(* The reaper works a batch off from its oldest row: a nonempty set of     *)
(* notifications has a least one.                                          *)
(***************************************************************************)
LEMMA OldestIsMember ==
    ASSUME NEW S \in SUBSET Nat, S # {}
    PROVE  Oldest(S) \in S /\ \A m \in S : Oldest(S) <= m
<1> DEFINE R == {p \in Nat \X Nat : p[1] < p[2]}
<1>1. IsWellFoundedOn(R, Nat)
  BY NatLessThanWellFounded DEF OpToRel
<1>2. PICK x \in S : \A y \in S : <<y, x>> \notin R
  <2> HIDE DEF R
  <2> QED BY <1>1, WFMin
<1>3. \A y \in S : x <= y
  <2> SUFFICES ASSUME NEW y \in S PROVE x <= y
    OBVIOUS
  <2>1. ~(<<y, x>>[1] < <<y, x>>[2])
    BY <1>2
  <2> QED BY <2>1
<1> QED BY <1>3 DEF Oldest

-----------------------------------------------------------------------------
(***************************************************************************)
(* What find_active serves is a stored text.                               *)
(***************************************************************************)
LEMMA FindActiveServesBodies ==
    ASSUME Table!TemplatesTypeOK, NEW topic
    PROVE  Table!FindActive(topic) \subseteq Body
BY DEF Table!TemplatesTypeOK, Table!FindActive, Table!Matches, Table!TemplateRow

(***************************************************************************)
(* Every write to the templates table keeps it well typed.                 *)
(***************************************************************************)
LEMMA TemplatesStayTyped ==
    ASSUME Table!TemplatesTypeOK, Table!TemplatesNext
    PROVE  Table!TemplatesTypeOK'
<1> DEFINE Typed(t) == DOMAIN t \subseteq TemplateId /\ \A j \in DOMAIN t : t[j] \in Table!TemplateRow
<1>2. ASSUME NEW t, Typed(t), Table!Write(t) PROVE Table!TemplatesTypeOK'
  BY <1>2, BoundAssumption DEF Table!TemplatesTypeOK, Table!Write
<1>3. \A i \in TemplateId, row \in Table!TemplateRow : Typed(Table!Stored(i, row))
  BY DEF Table!TemplatesTypeOK, Table!Stored
<1> HIDE DEF Typed
<1>0. "active" \in Table!TemplateStatus
  BY DEF Table!TemplateStatus
<1>4. ASSUME NEW i \in TemplateId, NEW topic \in Topic, NEW body \in Body,
             NEW status \in Table!TemplateStatus,
             Table!CreateTemplate(i, topic, body) \/ Table!CrudCreate(i, topic, body, status)
      PROVE  Table!TemplatesTypeOK'
  <2>1. \A s \in Table!TemplateStatus : Table!NewRow(topic, body, s) \in Table!TemplateRow
    BY DEF Table!NewRow, Table!TemplateRow
  <2> QED BY <1>0, <1>2, <1>3, <1>4, <2>1 DEF Table!CreateTemplate, Table!CrudCreate
<1>5. ASSUME NEW i \in TemplateId, NEW topic \in Topic, NEW body \in Body,
             NEW status \in Table!TemplateStatus, NEW named \in SUBSET Table!Field,
             \/ Table!CrudUpdate(i, topic, body, status)
             \/ Table!CrudPatch(i, named, topic, body, status)
      PROVE  Table!TemplatesTypeOK'
  <2>1. PICK row \in Table!TemplateRow : row = templates[i]
    BY <1>5 DEF Table!CrudUpdate, Table!CrudPatch, Table!Overwrite, Table!TemplatesTypeOK
  <2>2. /\ Table!Replaced(row, topic, body, status) \in Table!TemplateRow
        /\ Table!Patched(row, named, topic, body, status) \in Table!TemplateRow
    BY DEF Table!Replaced, Table!Patched, Table!TemplateRow
  <2>3. PICK new \in Table!TemplateRow : Table!Overwrite(i, new)
    BY <1>5, <2>1, <2>2 DEF Table!CrudUpdate, Table!CrudPatch
  <2> QED BY <1>2, <1>3, <2>3 DEF Table!Overwrite
<1>6. ASSUME NEW i \in TemplateId, Table!SoftDelete(i) \/ Table!Restore(i)
      PROVE  Table!TemplatesTypeOK'
  <2>1. i \in DOMAIN templates
    BY <1>6 DEF Table!SoftDelete, Table!Restore
  <2>2. \A b \in BOOLEAN : [templates[i] EXCEPT !.deleted = b] \in Table!TemplateRow
    BY <2>1 DEF Table!TemplatesTypeOK, Table!TemplateRow
  <2> QED BY <1>2, <1>3, <1>6, <2>2 DEF Table!SoftDelete, Table!Restore
<1>7. ASSUME NEW dead, Table!Remove(dead) PROVE Table!TemplatesTypeOK'
  <2>1. Typed([j \in DOMAIN templates \ dead |-> templates[j]])
    BY DEF Typed, Table!TemplatesTypeOK
  <2> QED BY <1>2, <1>7, <2>1 DEF Table!Remove
<1>8. CASE Table!EmptyTrash
  BY <1>7, <1>8 DEF Table!EmptyTrash
<1>9. ASSUME NEW i \in TemplateId, Table!Purge(i) PROVE Table!TemplatesTypeOK'
  BY <1>7, <1>9 DEF Table!Purge
<1> QED BY <1>0, <1>4, <1>5, <1>6, <1>8, <1>9 DEF Table!TemplatesNext

-----------------------------------------------------------------------------
(***************************************************************************)
(* Changing one field after another of one row keeps the table well typed, *)
(* whether or not the row exists.                                          *)
(***************************************************************************)
LEMMA RowUpdateTyped ==
    ASSUME NEW t \in Seq(Row), NEW n, NEW s \in Status, NEW m \in Nat,
           NEW r \in Rejection \cup Bounce \cup {NoReason}
    PROVE  /\ [t EXCEPT ![n] = [@ EXCEPT !.status = s, !.msg = m]] \in Seq(Row)
           /\ [t EXCEPT ![n] = [@ EXCEPT !.status = s, !.reason = r]] \in Seq(Row)
<1>1. CASE n \in 1..Len(t)
  <2>1. t[n] \in Row
    BY <1>1, ElementOfSeq
  <2>2. /\ [t[n] EXCEPT !.status = s, !.msg = m] \in Row
        /\ [t[n] EXCEPT !.status = s, !.reason = r] \in Row
    BY <2>1 DEF Row
  <2> QED BY <1>1, <2>2, ExceptSeq
<1>2. CASE n \notin 1..Len(t)
  <2>1. \A f : [t EXCEPT ![n] = f] = t
    BY <1>2, LenProperties
  <2> QED BY <2>1
<1> QED BY <1>1, <1>2

(***************************************************************************)
(* A call that returns leaves a typed stack frame.                         *)
(***************************************************************************)
LEMMA ReturnTyped ==
    ASSUME FramesTypeOK, NEW w \in Worker, Return(w)
    PROVE  FramesTypeOK'
BY EmptySeq DEF FramesTypeOK, Return, NoAnswer, NoEvent, Answer, Event, Kind

(***************************************************************************)
(* Both commits write the row within its type.                             *)
(***************************************************************************)
LEMMA MarksTyped ==
    ASSUME rows \in Seq(Row), NEW n, NEW m \in Nat, NEW r \in Rejection \cup {NoReason},
           MarkSent(n, m) \/ MarkFailed(n, r)
    PROVE  rows' \in Seq(Row)
<1>1. "sent" \in Status /\ "failed" \in Status
  BY DEF Status
<1>2. CASE MarkSent(n, m)
  <2>1. NoReason \in Rejection \cup Bounce \cup {NoReason}
    OBVIOUS
  <2> QED BY <1>1, <1>2, <2>1, RowUpdateTyped DEF MarkSent
<1>3. CASE MarkFailed(n, r)
  <2>1. r \in Rejection \cup Bounce \cup {NoReason} /\ 0 \in Nat
    OBVIOUS
  <2> QED BY <1>1, <1>3, <2>1, RowUpdateTyped DEF MarkFailed
<1> QED BY <1>2, <1>3

-----------------------------------------------------------------------------
(***************************************************************************)
(* What a call under way holds: a claiming call has a request and its      *)
(* template's text; what it dispatches or commits is a stored row, and so  *)
(* is all it has yet to sweep.                                             *)
(***************************************************************************)
FrameHolds(w) ==
    /\ pc[w] = "claim" => req[w] \in Request
    /\ req[w] \in Request => tmpl[w] \in Body
    /\ pc[w] \in {"dispatch", "commit"} => cur[w] \in DOMAIN rows
    /\ batch[w] \subseteq DOMAIN rows

FramesHold == \A w \in Worker : FrameHolds(w)

TypeInv == TypeOK /\ FramesHold

(***************************************************************************)
(* A call that returns leaves a typed frame that holds nothing.            *)
(***************************************************************************)
LEMMA ReturnKeepsFrames ==
    ASSUME FramesTypeOK, FramesHold, NEW w \in Worker, Return(w), rows' = rows
    PROVE  FramesTypeOK' /\ FramesHold'
<1>1. FramesTypeOK'
  BY EmptySeq DEF FramesTypeOK, Return, NoAnswer, NoEvent, Answer, Event, Kind
<1>2. FramesHold'
  BY RequestAssumption DEF FramesTypeOK, FramesHold, FrameHolds, Return
<1> QED BY <1>1, <1>2

(***************************************************************************)
(* The initial state is well typed.                                        *)
(***************************************************************************)
LEMMA TypeInit == Init => TypeInv
<1> SUFFICES ASSUME Init PROVE TypeInv
  OBVIOUS
<1>1. Table!TemplatesTypeOK
  BY BoundAssumption DEF Init, Table!TemplatesInit, Table!TemplatesTypeOK
<1>2. TablesTypeOK
  BY <1>1, EmptySeq, BoundAssumption DEF Init, TablesTypeOK
<1>3. FramesTypeOK
  BY EmptySeq DEF Init, FramesTypeOK, NoAnswer, NoEvent, Answer, Event, Kind
<1>4. FramesHold
  BY RequestAssumption DEF Init, FramesHold, FrameHolds
<1> QED BY <1>2, <1>3, <1>4 DEF TypeOK, TypeInv

(***************************************************************************)
(* The steps of notify that precede a dispatch keep the types.             *)
(***************************************************************************)
LEMMA TypeNotify ==
    ASSUME TypeInv, NEW w \in Worker, NEW q,
           \/ q \in Request /\ (NotifySkip(w, q) \/ NotifyBegin(w, q))
           \/ ClaimRefused(w)
           \/ ClaimConflict(w) \/ ClaimInsert(w) \/ NotifyEnd(w)
    PROVE  TypeInv'
<1> USE DEF TypeInv, TypeOK, store, gateway, broker, locals
<1>1. CASE q \in Request /\ NotifySkip(w, q)
  BY <1>1 DEF NotifySkip, TablesTypeOK, FramesTypeOK, FramesHold, FrameHolds, Table!TemplatesTypeOK
<1>2. CASE q \in Request /\ NotifyBegin(w, q)
  <2>1. TablesTypeOK'
    BY <1>2 DEF NotifyBegin, TablesTypeOK, Table!TemplatesTypeOK
  <2>2. PICK b \in Body : tmpl' = [tmpl EXCEPT ![w] = b]
    BY <1>2, FindActiveServesBodies DEF NotifyBegin, TablesTypeOK
  <2>3. q \in Request /\ RecipientsOf[q] \in Seq(Recipient)
    BY <1>2, RequestAssumption
  <2>4. FramesTypeOK'
    BY <1>2, <2>2, <2>3 DEF NotifyBegin, FramesTypeOK, Goto
  <2>5. FramesHold'
    BY <1>2, <2>2 DEF NotifyBegin, FramesTypeOK, FramesHold, FrameHolds, Goto
  <2> QED BY <2>1, <2>4, <2>5
<1>3. CASE ClaimRefused(w)
  BY <1>3, ReturnKeepsFrames DEF ClaimRefused, TablesTypeOK, Table!TemplatesTypeOK
<1>4. CASE ClaimConflict(w)
  <2>1. Tail(todo[w]) \in Seq(Recipient)
    BY <1>4, HeadTailProperties DEF ClaimConflict, Claimable, FramesTypeOK
  <2>2. TablesTypeOK'
    BY <1>4 DEF ClaimConflict, TablesTypeOK, Table!TemplatesTypeOK
  <2>3. FramesTypeOK' /\ FramesHold'
    BY <1>4, <2>1 DEF ClaimConflict, FramesTypeOK, FramesHold, FrameHolds
  <2> QED BY <2>2, <2>3
<1>5. CASE ClaimInsert(w)
  <2> DEFINE a == Canonical(req[w], Head(todo[w]))
             row == [req |-> req[w], addr |-> a, body |-> tmpl[w], status |-> "pending",
                     msg |-> 0, reason |-> NoReason, deleted |-> FALSE]
  <2>1. /\ Tail(todo[w]) \in Seq(Recipient)
        /\ Head(todo[w]) \in Recipient
    BY <1>5, HeadTailProperties DEF ClaimInsert, Claimable, FramesTypeOK
  <2>2. req[w] \in Request /\ tmpl[w] \in Body
    BY <1>5 DEF ClaimInsert, Claimable, FramesHold, FrameHolds
  <2>3. ChannelOf(req[w]) \in Channel
    BY <2>2, RequestAssumption DEF ChannelOf, Topic
  <2>4. a \in Address
    BY <1>5, <2>1, <2>3, AddressAssumption DEF ClaimInsert, Claimable, Canonical
  <2>5. row \in Row
    BY <2>2, <2>4 DEF Row, Status
  <2>6. rows' = Append(rows, row)
    BY <1>5 DEF ClaimInsert
  <2>7. rows' \in Seq(Row) /\ Len(rows') = Len(rows) + 1
    BY <2>5, <2>6, AppendProperties DEF TablesTypeOK
  <2>8. TablesTypeOK'
    BY <1>5, <2>7 DEF ClaimInsert, TablesTypeOK, Table!TemplatesTypeOK
  <2>9. Len(rows) \in Nat /\ DOMAIN rows = 1..Len(rows) /\ DOMAIN rows' = 1..(Len(rows) + 1)
    BY <2>7, LenProperties DEF TablesTypeOK
  <2>10. FramesTypeOK'
    BY <1>5, <2>1, <2>9 DEF ClaimInsert, FramesTypeOK, Goto
  <2>11. FramesHold'
    BY <1>5, <2>9 DEF ClaimInsert, FramesTypeOK, FramesHold, FrameHolds, Goto
  <2> QED BY <2>8, <2>10, <2>11
<1>6. CASE NotifyEnd(w)
  <2>1. req[w] \in Request
    BY <1>6 DEF NotifyEnd, FramesHold, FrameHolds
  <2> QED BY <1>6, <2>1, ReturnKeepsFrames DEF NotifyEnd, TablesTypeOK, Table!TemplatesTypeOK
<1> QED BY <1>1, <1>2, <1>3, <1>4, <1>5, <1>6

(***************************************************************************)
(* The steps of a dispatch keep the types: what the gateway is sent is a   *)
(* stored row, and a sweep starts at a stored row.                         *)
(***************************************************************************)
LEMMA TypeDispatch ==
    ASSUME TypeInv, NEW w \in Worker,
           \/ w \in Sweeper /\ SweepBegin(w)
           \/ DispatchAccepted(w) \/ DispatchRejected(w) \/ DispatchLost(w)
    PROVE  TypeInv'
<1> USE DEF TypeInv, TypeOK, store, gateway, broker, locals
<1>1. CASE SweepBegin(w)
  <2>1. TablesTypeOK'
    BY <1>1 DEF SweepBegin, TablesTypeOK, Table!TemplatesTypeOK
  <2>2. OldestPending(Limit) \subseteq DOMAIN rows
    BY DEF OldestPending, Pending
  <2>3. DOMAIN rows \subseteq Nat
    BY LenProperties DEF TablesTypeOK
  <2>4. Oldest(OldestPending(Limit)) \in OldestPending(Limit)
    BY <1>1, <2>2, <2>3, OldestIsMember DEF SweepBegin
  <2>5. FramesTypeOK'
    BY <1>1, <2>2, <2>3, <2>4 DEF SweepBegin, FramesTypeOK, Goto
  <2>6. FramesHold'
    BY <1>1, <2>2, <2>4 DEF SweepBegin, FramesTypeOK, FramesHold, FrameHolds, Goto
  <2> QED BY <2>1, <2>5, <2>6
<1>2. ASSUME NEW m \in Nat, NEW r \in Rejection \cup {NoReason}, Answered(w, m, r),
             messages' \in Seq(Message), faults' \in 0..MaxFaults, pc[w] = "dispatch"
      PROVE  TypeInv'
  <2>1. TablesTypeOK'
    BY <1>2 DEF Answered, TablesTypeOK, Table!TemplatesTypeOK
  <2>2. [msg |-> m, reason |-> r] \in Answer
    BY <1>2 DEF Answer
  <2>3. FramesTypeOK'
    BY <1>2, <2>2 DEF Answered, FramesTypeOK, Goto
  <2>4. FramesHold'
    BY <1>2 DEF Answered, FramesTypeOK, FramesHold, FrameHolds, Goto
  <2> QED BY <2>1, <2>3, <2>4
<1>3. Len(messages) \in Nat
  BY LenProperties DEF TablesTypeOK
<1>4. ASSUME NEW m, pc[w] = "dispatch", Accept(Envelope(cur[w]), m) PROVE messages' \in Seq(Message)
  <2>1. cur[w] \in DOMAIN rows
    BY <1>4 DEF FramesHold, FrameHolds
  <2>2. rows[cur[w]] \in Row /\ cur[w] \in Nat
    BY <2>1, LenProperties, ElementOfSeq DEF TablesTypeOK
  <2>3. Envelope(cur[w]) \in Message
    BY <2>2 DEF Envelope, Row, Message
  <2>4. messages \in Seq(Message) /\ Append(messages, Envelope(cur[w])) \in Seq(Message)
    BY <2>3, AppendProperties DEF TablesTypeOK
  <2>5. messages' = messages \/ messages' = Append(messages, Envelope(cur[w]))
    BY <1>4 DEF Accept
  <2> QED BY <2>4, <2>5
<1>5. CASE DispatchAccepted(w)
  <2>1. PICK m \in 1..(Len(messages) + 1) : Accept(Envelope(cur[w]), m) /\ Answered(w, m, NoReason)
    BY <1>5 DEF DispatchAccepted, Send
  <2>2. m \in Nat /\ pc[w] = "dispatch" /\ faults' \in 0..MaxFaults
    BY <1>3, <1>5 DEF DispatchAccepted, Send, TablesTypeOK
  <2> QED BY <1>2, <1>4, <2>1, <2>2
<1>6. CASE DispatchRejected(w)
  <2>1. PICK r \in Rejection : Answered(w, 0, r)
    BY <1>6 DEF DispatchRejected
  <2>2. messages' \in Seq(Message) /\ pc[w] = "dispatch" /\ faults' \in 0..MaxFaults
    BY <1>6 DEF DispatchRejected, TablesTypeOK
  <2> QED BY <1>2, <2>1, <2>2
<1>7. CASE DispatchLost(w)
  <2>1. PICK m \in 1..(Len(messages) + 1), r \in Rejection : Accept(Envelope(cur[w]), m) /\ Answered(w, 0, r)
    BY <1>7 DEF DispatchLost, SendLost
  <2>2. pc[w] = "dispatch" /\ faults' \in 0..MaxFaults
    BY <1>7, BoundAssumption DEF DispatchLost, SendLost, TablesTypeOK
  <2> QED BY <1>2, <1>4, <2>1, <2>2
<1> QED BY <1>1, <1>5, <1>6, <1>7

(***************************************************************************)
(* A receipt rewrites a row within its type and keeps what it identifies.  *)
(***************************************************************************)
LEMMA ReceivedIsRow ==
    ASSUME NEW row \in Row, NEW o \in Outcome
    PROVE  /\ Received(row, o) \in Row
           /\ Received(row, o).req = row.req /\ Received(row, o).addr = row.addr
           /\ Received(row, o).body = row.body /\ Received(row, o).msg = row.msg
           /\ o = "delivered" => Received(row, o).status = "delivered"
           /\ o # "delivered" =>
                 Received(row, o).status = "undelivered" /\ Received(row, o).reason = o
<1>1. CASE o = "delivered"
  <2>1. Received(row, o) = [row EXCEPT !.status = "delivered"]
    BY <1>1 DEF Received
  <2> QED BY <1>1, <2>1 DEF Row, Status
<1>2. CASE o # "delivered"
  <2>1. Received(row, o) = [row EXCEPT !.status = "undelivered", !.reason = o] /\ o \in Bounce
    BY <1>2 DEF Received, Outcome
  <2> QED BY <1>2, <2>1 DEF Row, Status
<1> QED BY <1>1, <1>2

(***************************************************************************)
(* A receipt rewrites every row that has its message id, and stages an     *)
(* event about one of them.                                                *)
(***************************************************************************)
LEMMA ReceiptMoves ==
    ASSUME rows \in Seq(Row), NEW w, NEW m, NEW o \in Outcome, RecordDelivery(w, m, o)
    PROVE  /\ rows' \in Seq(Row) /\ DOMAIN rows' = DOMAIN rows
           /\ \A n \in Correlated(m) : n \in DOMAIN rows /\ rows'[n] = Received(rows[n], o)
           /\ \A n \in DOMAIN rows \ Correlated(m) : rows'[n] = rows[n]
           /\ \E n \in Correlated(m) :
                 LET e == [n |-> n, kind |-> ReceiptKind(o), msg |-> 0] IN
                 e \in Event /\ Stage(w, e)
<1>1. DOMAIN rows = 1..Len(rows) /\ Len(rows) \in Nat
  BY LenProperties
<1>2. rows' = [n \in 1..Len(rows) |->
                  IF n \in Correlated(m) THEN Received(rows[n], o) ELSE rows[n]]
  BY <1>1 DEF RecordDelivery
<1>3. \A n \in 1..Len(rows) : rows[n] \in Row /\ Received(rows[n], o) \in Row
  BY ElementOfSeq, ReceivedIsRow
<1>4. rows' \in Seq(Row)
  BY <1>1, <1>2, <1>3, SeqDef
<1>5. \A n \in Correlated(m) : n \in 1..Len(rows) /\ n \in Nat
  BY <1>1 DEF Correlated
<1>6. PICK n \in Correlated(m) : Stage(w, [n |-> n, kind |-> ReceiptKind(o), msg |-> 0])
  BY DEF RecordDelivery
<1>7. [n |-> n, kind |-> ReceiptKind(o), msg |-> 0] \in Event
  BY <1>5 DEF Event, ReceiptKind, Kind
<1>8. /\ DOMAIN rows' = DOMAIN rows
      /\ \A k \in Correlated(m) : k \in DOMAIN rows /\ rows'[k] = Received(rows[k], o)
      /\ \A k \in DOMAIN rows \ Correlated(m) : rows'[k] = rows[k]
  BY <1>1, <1>2, <1>5
<1> QED BY <1>4, <1>6, <1>7, <1>8

(***************************************************************************)
(* The two commits and record_delivery, each with its event, keep the      *)
(* types.                                                                  *)
(***************************************************************************)
LEMMA TypeCommit ==
    ASSUME TypeInv, NEW w \in Worker,
           \/ CommitDispatched(w) \/ CommitFailed(w)
           \/ \E m \in DOMAIN messages, o \in Outcome : RecordDelivery(w, m, o)
    PROVE  TypeInv'
<1> USE DEF TypeInv, TypeOK, store, gateway, broker, locals
<1>1. ASSUME NEW e \in Event, Stage(w, e), rows' \in Seq(Row), DOMAIN rows' = DOMAIN rows,
             UNCHANGED <<templates, writes, gateway, published, broker, faults,
                         req, tmpl, todo, batch, cur, answer>>
      PROVE  TypeInv'
  <2>1. outbox' \in Seq(Event)
    BY <1>1, AppendProperties DEF Stage, TablesTypeOK
  <2>2. TablesTypeOK'
    BY <1>1, <2>1 DEF TablesTypeOK, Table!TemplatesTypeOK
  <2>3. FramesTypeOK'
    BY <1>1 DEF Stage, Goto, FramesTypeOK
  <2>4. FramesHold'
    BY <1>1 DEF Stage, Goto, FramesTypeOK, FramesHold, FrameHolds
  <2> QED BY <2>2, <2>3, <2>4
<1>2. DOMAIN rows \subseteq Nat
  BY LenProperties DEF TablesTypeOK
<1>3. CASE CommitDispatched(w)
  <2>1. rows' \in Seq(Row) /\ DOMAIN rows' = DOMAIN rows
    BY <1>3, MarksTyped DEF CommitDispatched, TablesTypeOK, FramesTypeOK, Answer, MarkSent
  <2>2. [n |-> cur[w], kind |-> "NotificationDispatched", msg |-> answer[w].msg] \in Event
    BY DEF FramesTypeOK, Answer, Event, Kind
  <2> QED BY <1>1, <1>3, <2>1, <2>2 DEF CommitDispatched
<1>4. CASE CommitFailed(w)
  <2>1. rows' \in Seq(Row) /\ DOMAIN rows' = DOMAIN rows
    BY <1>4, MarksTyped DEF CommitFailed, TablesTypeOK, FramesTypeOK, Answer, MarkFailed
  <2>2. [n |-> cur[w], kind |-> "NotificationFailed", msg |-> 0] \in Event
    BY DEF FramesTypeOK, Event, Kind
  <2> QED BY <1>1, <1>4, <2>1, <2>2 DEF CommitFailed
<1>5. ASSUME NEW m \in DOMAIN messages, NEW o \in Outcome, RecordDelivery(w, m, o)
      PROVE  TypeInv'
  <2>1. rows' \in Seq(Row) /\ DOMAIN rows' = DOMAIN rows /\ \E e \in Event : Stage(w, e)
    BY <1>5, ReceiptMoves DEF TablesTypeOK
  <2> QED BY <1>1, <1>5, <2>1 DEF RecordDelivery
<1> QED BY <1>3, <1>4, <1>5

(***************************************************************************)
(* After a publish the call goes on to a recipient or a row it holds.      *)
(***************************************************************************)
LEMMA TypePublish ==
    ASSUME TypeInv, NEW w \in Worker, Publish(w)
    PROVE  TypeInv'
<1> USE DEF TypeInv, TypeOK, store, gateway, broker
<1>1. TablesTypeOK'
  BY DEF Publish, TablesTypeOK, FramesTypeOK, Table!TemplatesTypeOK
<1>2. rows' = rows
  BY DEF Publish
<1>3. NoAnswer \in Answer /\ NoEvent \in Event
  BY DEF NoAnswer, Answer, NoEvent, Event, Kind
<1>4. CASE req[w] # NoRequest /\ Goto(w, "claim")
             /\ cur' = [cur EXCEPT ![w] = 0]
             /\ answer' = [answer EXCEPT ![w] = NoAnswer]
             /\ event' = [event EXCEPT ![w] = NoEvent]
             /\ UNCHANGED <<req, tmpl, todo, batch>>
  <2>1. FramesTypeOK'
    BY <1>3, <1>4 DEF FramesTypeOK, Goto
  <2>2. FramesHold'
    BY <1>2, <1>4 DEF FramesTypeOK, FramesHold, FrameHolds, Goto
  <2> QED BY <1>1, <2>1, <2>2
<1>5. CASE batch[w] # {} /\ Goto(w, "dispatch")
             /\ cur' = [cur EXCEPT ![w] = Oldest(batch[w])]
             /\ batch' = [batch EXCEPT ![w] = @ \ {Oldest(@)}]
             /\ answer' = [answer EXCEPT ![w] = NoAnswer]
             /\ event' = [event EXCEPT ![w] = NoEvent]
             /\ UNCHANGED <<req, tmpl, todo>>
  <2>1. batch[w] \in SUBSET Nat
    BY DEF FramesTypeOK
  <2>2. Oldest(batch[w]) \in batch[w]
    BY <1>5, <2>1, OldestIsMember
  <2>3. FramesTypeOK'
    BY <1>3, <1>5, <2>1, <2>2 DEF FramesTypeOK, Goto
  <2>4. FramesHold'
    BY <1>2, <1>5, <2>2 DEF FramesTypeOK, FramesHold, FrameHolds, Goto
  <2> QED BY <1>1, <2>3, <2>4
<1>6. CASE Return(w)
  BY <1>1, <1>2, <1>6, ReturnKeepsFrames
<1> QED BY <1>4, <1>5, <1>6 DEF Publish

(***************************************************************************)
(* Every step keeps the types.                                             *)
(***************************************************************************)
LEMMA TypeStep ==
    ASSUME TypeInv, [Next]_vars
    PROVE  TypeInv'
<1> USE DEF store, gateway, broker, locals
<1>1. ASSUME NEW w \in Worker, CommitRefused(w) \/ Crash(w) PROVE TypeInv'
  <2>1. rows' = rows /\ Return(w)
    BY <1>1 DEF CommitRefused, Crash
  <2>2. faults' \in 0..MaxFaults
    BY <1>1, BoundAssumption DEF CommitRefused, Crash, TypeInv, TypeOK, TablesTypeOK
  <2>3. TablesTypeOK'
    BY <1>1, <2>2 DEF CommitRefused, Crash, TypeInv, TypeOK, TablesTypeOK, Table!TemplatesTypeOK
  <2> QED BY <2>1, <2>3, ReturnKeepsFrames DEF TypeInv, TypeOK
<1>2. ASSUME NEW m \in DOMAIN messages, NEW o \in Outcome, Report(m, o) PROVE TypeInv'
  <2>1. m \in Nat
    BY LenProperties DEF TypeInv, TypeOK, TablesTypeOK
  <2> QED BY <1>2, <2>1 DEF Report, TypeInv, TypeOK, TablesTypeOK, FramesTypeOK, FramesHold,
                            FrameHolds, Table!TemplatesTypeOK
<1>3. CASE TemplateWrite
  <2>1. Table!TemplatesTypeOK'
    BY <1>3, TemplatesStayTyped DEF TemplateWrite, TypeInv, TypeOK, TablesTypeOK
  <2> QED BY <1>3, <2>1 DEF TemplateWrite, TypeInv, TypeOK, TablesTypeOK, FramesTypeOK,
                            FramesHold, FrameHolds
<1>4. CASE UNCHANGED vars
  BY <1>4 DEF vars, TypeInv, TypeOK, TablesTypeOK, FramesTypeOK, FramesHold, FrameHolds,
              Table!TemplatesTypeOK
<1>5. Notifier \subseteq Worker /\ Sweeper \subseteq Worker /\ Relay \subseteq Worker
  BY DEF Worker
<1>6. ASSUME NEW q \in Request, Deliver(q) PROVE TypeInv'
  BY <1>5, <1>6, TypeNotify DEF Deliver
<1>7. ASSUME NEW w \in Sweeper, SweepBegin(w) PROVE TypeInv'
  BY <1>5, <1>7, TypeDispatch
<1>8. CASE Record
  BY <1>5, <1>8, TypeCommit DEF Record
<1>9. ASSUME NEW w \in Worker, Step(w) PROVE TypeInv'
  BY <1>1, <1>9, TypeNotify, TypeDispatch, TypeCommit, TypePublish DEF Step, Proceed
<1> QED BY <1>1, <1>2, <1>3, <1>4, <1>6, <1>7, <1>8, <1>9 DEF Next

(***************************************************************************)
(* Type correctness of the write engine: the tables, the gateway's log and *)
(* every caller's frame hold what their types say in every reachable       *)
(* state, for any set of callers and any requests.                         *)
(***************************************************************************)
THEOREM TypeCorrect == Spec => []TypeOK
<1>1. Init => TypeInv
  BY TypeInit
<1>2. TypeInv /\ [Next]_vars => TypeInv'
  BY TypeStep
<1>3. TypeInv => TypeOK
  BY DEF TypeInv
<1> QED BY <1>1, <1>2, <1>3, PTL DEF Spec

-----------------------------------------------------------------------------
(* What a step can do to the store.                                        *)

\* A row of a slot nobody holds is added, pending and without a message id.
Claims(row) ==
    /\ row \in Row
    /\ row.status = "pending" /\ row.msg = 0
    /\ ~Held(EventId[row.req], row.addr)
    /\ rows' = Append(rows, row) /\ UNCHANGED outbox

\* Row n becomes row and event e of n is staged; a row that is no longer
\* pending stays as it is under a late dispatch outcome.
Advances(n, row, e) ==
    /\ n \in DOMAIN rows /\ row \in Row /\ e \in Event
    /\ rows' = [rows EXCEPT ![n] = row] /\ outbox' = Append(outbox, e)
    /\ e.n = n
    /\ row.req = rows[n].req /\ row.addr = rows[n].addr /\ row.body = rows[n].body
    /\ \/ /\ rows[n].status # "pending" /\ row = rows[n]
          /\ e.kind \in {"NotificationDispatched", "NotificationFailed"}
       \/ /\ rows[n].status = "pending" /\ row.status = "sent"
          /\ e.kind = "NotificationDispatched" /\ e.msg = row.msg
       \/ /\ rows[n].status = "pending" /\ row.status = "failed"
          /\ e.kind = "NotificationFailed"
       \/ /\ rows[n].status = "sent" /\ row.status = "delivered" /\ row.msg = rows[n].msg
          /\ e.kind = "NotificationDelivered"
       \/ /\ rows[n].status = "sent" /\ row.status = "undelivered" /\ row.msg = rows[n].msg
          /\ e.kind = "NotificationUndelivered"

(***************************************************************************)
(* The row a claim inserts is well typed: its request, its text and its    *)
(* canonical address are.                                                  *)
(***************************************************************************)
LEMMA InsertedIsRow ==
    ASSUME TypeInv, NEW w \in Worker, ClaimInsert(w)
    PROVE  [req |-> req[w], addr |-> Canonical(req[w], Head(todo[w])), body |-> tmpl[w],
            status |-> "pending", msg |-> 0, reason |-> NoReason, deleted |-> FALSE] \in Row
<1>1. Head(todo[w]) \in Recipient
  BY HeadTailProperties DEF ClaimInsert, Claimable, TypeInv, TypeOK, FramesTypeOK
<1>2. req[w] \in Request /\ tmpl[w] \in Body
  BY DEF ClaimInsert, Claimable, TypeInv, FramesHold, FrameHolds
<1>3. ChannelOf(req[w]) \in Channel
  BY <1>2, RequestAssumption DEF ChannelOf, Topic
<1>4. Canonical(req[w], Head(todo[w])) \in Address
  BY <1>1, <1>3, AddressAssumption DEF ClaimInsert, Claimable, Canonical
<1> QED BY <1>2, <1>4 DEF Row, Status

(***************************************************************************)
(* A claim that wins adds the row of a slot that was free.                 *)
(***************************************************************************)
LEMMA InsertClaims ==
    ASSUME TypeInv, NEW w \in Worker, ClaimInsert(w)
    PROVE  \E row : Claims(row)
<1> DEFINE row == [req |-> req[w], addr |-> Canonical(req[w], Head(todo[w])), body |-> tmpl[w],
                   status |-> "pending", msg |-> 0, reason |-> NoReason, deleted |-> FALSE]
<1>1. row \in Row
  BY InsertedIsRow
<1>2. Claims(row)
  BY <1>1 DEF ClaimInsert, Claims
<1> QED BY <1>2

(***************************************************************************)
(* Every dispatch outcome that is committed advances one row and stages    *)
(* its event with it.                                                      *)
(***************************************************************************)
LEMMA CommitAdvances ==
    ASSUME TypeInv, NEW w \in Worker, CommitDispatched(w) \/ CommitFailed(w)
    PROVE  \E n, row, e : Advances(n, row, e)
<1>0. \A n \in DOMAIN rows : [rows EXCEPT ![n] = rows[n]] = rows
  BY LenProperties DEF TypeInv, TypeOK, TablesTypeOK
<1>1. \A n \in DOMAIN rows : n \in Nat /\ rows[n] \in Row
  BY LenProperties, ElementOfSeq DEF TypeInv, TypeOK, TablesTypeOK
<1>2. answer[w] \in Answer
  BY DEF TypeInv, TypeOK, FramesTypeOK
<1>3. CASE CommitDispatched(w)
  <2> DEFINE n   == cur[w]
             row == IF rows[n].status = "pending"
                      THEN [rows[n] EXCEPT !.status = "sent", !.msg = answer[w].msg]
                      ELSE rows[n]
             e   == [n |-> n, kind |-> "NotificationDispatched", msg |-> answer[w].msg]
  <2>1. n \in DOMAIN rows
    BY <1>3 DEF CommitDispatched, TypeInv, FramesHold, FrameHolds
  <2> DEFINE edited == [rows[n] EXCEPT !.status = "sent", !.msg = answer[w].msg]
  <2>2. e \in Event
    BY <1>1, <1>2, <2>1 DEF Event, Kind, Answer
  <2>3. /\ edited \in Row /\ edited.status = "sent" /\ edited.msg = answer[w].msg
        /\ edited.req = rows[n].req /\ edited.addr = rows[n].addr
        /\ edited.body = rows[n].body
    <3>1. /\ rows[n] \in Row /\ answer[w].msg \in Nat
          /\ answer[w].reason \in Rejection \cup Bounce \cup {NoReason}
          /\ {"sent", "failed"} \subseteq Status
      BY <1>1, <1>2, <2>1 DEF Answer, Status
    <3>2. PICK x \in Row : x = rows[n]
      BY <3>1
    <3>3. PICK v : v = answer[w].msg
      OBVIOUS
    <3>4. edited = [x EXCEPT !.status = "sent", !.msg = v]
      BY <3>2, <3>3
    <3> HIDE DEF edited
    <3> QED BY <3>1, <3>2, <3>3, <3>4 DEF Row
  <2>4. rows' = [rows EXCEPT ![n] = row]
    <3>1. CASE rows[n].status = "pending"
      BY <1>3, <3>1 DEF CommitDispatched, MarkSent
    <3>2. CASE rows[n].status # "pending"
      BY <1>0, <1>3, <2>1, <3>2 DEF CommitDispatched, MarkSent
    <3> QED BY <3>1, <3>2
  <2>5. Advances(n, row, e)
    <3>1. CASE rows[n].status = "pending"
      <4>1. row = edited
        BY <3>1
      <4> HIDE DEF edited, row
      <4> QED BY <1>3, <2>1, <2>2, <2>3, <2>4, <3>1, <4>1 DEF CommitDispatched, Stage, Advances
    <3>2. CASE rows[n].status # "pending"
      <4>1. row = rows[n] /\ rows[n] \in Row
        BY <1>1, <2>1, <3>2
      <4> HIDE DEF row
      <4> QED BY <1>3, <2>1, <2>2, <2>4, <3>2, <4>1 DEF CommitDispatched, Stage, Advances
    <3> QED BY <3>1, <3>2
  <2> QED BY <2>5
<1>4. CASE CommitFailed(w)
  <2> DEFINE n   == cur[w]
             row == IF rows[n].status = "pending"
                      THEN [rows[n] EXCEPT !.status = "failed", !.reason = answer[w].reason]
                      ELSE rows[n]
             e   == [n |-> n, kind |-> "NotificationFailed", msg |-> 0]
  <2>1. n \in DOMAIN rows
    BY <1>4 DEF CommitFailed, TypeInv, FramesHold, FrameHolds
  <2> DEFINE edited == [rows[n] EXCEPT !.status = "failed", !.reason = answer[w].reason]
  <2>2. e \in Event
    BY <1>1, <1>2, <2>1 DEF Event, Kind, Answer
  <2>3. /\ edited \in Row /\ edited.status = "failed" /\ edited.msg = rows[n].msg
        /\ edited.req = rows[n].req /\ edited.addr = rows[n].addr
        /\ edited.body = rows[n].body
    <3>1. /\ rows[n] \in Row /\ answer[w].msg \in Nat
          /\ answer[w].reason \in Rejection \cup Bounce \cup {NoReason}
          /\ {"sent", "failed"} \subseteq Status
      BY <1>1, <1>2, <2>1 DEF Answer, Status
    <3>2. PICK x \in Row : x = rows[n]
      BY <3>1
    <3>3. PICK v : v = answer[w].reason
      OBVIOUS
    <3>4. edited = [x EXCEPT !.status = "failed", !.reason = v]
      BY <3>2, <3>3
    <3> HIDE DEF edited
    <3> QED BY <3>1, <3>2, <3>3, <3>4 DEF Row
  <2>4. rows' = [rows EXCEPT ![n] = row]
    <3>1. CASE rows[n].status = "pending"
      BY <1>4, <3>1 DEF CommitFailed, MarkFailed
    <3>2. CASE rows[n].status # "pending"
      BY <1>0, <1>4, <2>1, <3>2 DEF CommitFailed, MarkFailed
    <3> QED BY <3>1, <3>2
  <2>5. Advances(n, row, e)
    <3>1. CASE rows[n].status = "pending"
      <4>1. row = edited
        BY <3>1
      <4> HIDE DEF edited, row
      <4> QED BY <1>4, <2>1, <2>2, <2>3, <2>4, <3>1, <4>1 DEF CommitFailed, Stage, Advances
    <3>2. CASE rows[n].status # "pending"
      <4>1. row = rows[n] /\ rows[n] \in Row
        BY <1>1, <2>1, <3>2
      <4> HIDE DEF row
      <4> QED BY <1>4, <2>1, <2>2, <2>4, <3>2, <4>1 DEF CommitFailed, Stage, Advances
    <3> QED BY <3>1, <3>2
  <2> QED BY <2>5
<1> QED BY <1>3, <1>4

(***************************************************************************)
(* A step leaves the store alone, claims a slot or is one of the commits.  *)
(***************************************************************************)
LEMMA StoreChanges ==
    ASSUME TypeInv, [Next]_vars
    PROVE  \/ UNCHANGED store
           \/ \E row : Claims(row)
           \/ \E w \in Worker :
                 \/ CommitDispatched(w) \/ CommitFailed(w)
                 \/ \E m \in DOMAIN messages, o \in Outcome : RecordDelivery(w, m, o)
<1> USE DEF store
<1>1. ASSUME NEW w \in Worker, Step(w) PROVE UNCHANGED store \/ ClaimInsert(w)
                                               \/ CommitDispatched(w) \/ CommitFailed(w)
  BY <1>1 DEF Step, Proceed, ClaimRefused, ClaimConflict, NotifyEnd, DispatchAccepted, Send, DispatchRejected,
              DispatchLost, SendLost, Answered, CommitRefused, Publish
<1>2. CASE Record
  BY <1>2 DEF Record, Worker
<1>3. CASE ~Record /\ ~\E w \in Worker : Step(w)
  BY <1>3 DEF Next, vars, Deliver, NotifySkip, NotifyBegin, SweepBegin, Crash, Report, TemplateWrite
<1> QED BY <1>1, <1>2, <1>3, InsertClaims

(***************************************************************************)
(* A commit or a receipt adds no row, keeps what identifies every row, and *)
(* stages one event.                                                       *)
(***************************************************************************)
LEMMA CommitMoves ==
    ASSUME TypeInv, NEW w \in Worker,
           \/ CommitDispatched(w) \/ CommitFailed(w)
           \/ \E m \in DOMAIN messages, o \in Outcome : RecordDelivery(w, m, o)
    PROVE  /\ DOMAIN rows' = DOMAIN rows
           /\ \A n \in DOMAIN rows :
                 /\ rows'[n].req = rows[n].req /\ rows'[n].addr = rows[n].addr
                 /\ rows'[n].body = rows[n].body
           /\ \E e \in Event : outbox' = Append(outbox, e)
<1>1. CASE CommitDispatched(w) \/ CommitFailed(w)
  BY <1>1, CommitAdvances DEF Advances
<1>2. ASSUME NEW m, NEW o \in Outcome, RecordDelivery(w, m, o)
      PROVE  /\ DOMAIN rows' = DOMAIN rows
             /\ \A n \in DOMAIN rows :
                   /\ rows'[n].req = rows[n].req /\ rows'[n].addr = rows[n].addr
                   /\ rows'[n].body = rows[n].body
             /\ \E e \in Event : outbox' = Append(outbox, e)
  <2>1. \A n \in DOMAIN rows : rows[n] \in Row
    BY LenProperties, ElementOfSeq DEF TypeInv, TypeOK, TablesTypeOK
  <2>2. /\ DOMAIN rows' = DOMAIN rows
        /\ \A n \in Correlated(m) : rows'[n] = Received(rows[n], o)
        /\ \A n \in DOMAIN rows \ Correlated(m) : rows'[n] = rows[n]
        /\ \E e \in Event : Stage(w, e)
    BY <1>2, ReceiptMoves DEF TypeInv, TypeOK, TablesTypeOK
  <2>3. ASSUME NEW n \in DOMAIN rows
        PROVE  /\ rows'[n].req = rows[n].req /\ rows'[n].addr = rows[n].addr
               /\ rows'[n].body = rows[n].body
    BY <2>1, <2>2, ReceivedIsRow
  <2> QED BY <2>2, <2>3 DEF Stage
<1> QED BY <1>1, <1>2

(***************************************************************************)
(* What identifies a stored notification outlives every step: its request, *)
(* its address and the text it was claimed with.                           *)
(***************************************************************************)
LEMMA RowsPersist ==
    ASSUME TypeInv, [Next]_vars
    PROVE  \A n \in DOMAIN rows :
              /\ n \in DOMAIN rows'
              /\ rows'[n].req = rows[n].req /\ rows'[n].addr = rows[n].addr
              /\ rows'[n].body = rows[n].body
<1>1. CASE UNCHANGED store
  BY <1>1 DEF store
<1>2. ASSUME NEW row, Claims(row)
      PROVE  \A n \in DOMAIN rows : n \in DOMAIN rows' /\ rows'[n] = rows[n]
  <2>1. rows \in Seq(Row) /\ row \in Row /\ rows' = Append(rows, row)
    BY <1>2 DEF Claims, TypeInv, TypeOK, TablesTypeOK
  <2> QED BY <2>1, AppendProperties, LenProperties
<1> QED BY <1>1, <1>2, StoreChanges, CommitMoves

(***************************************************************************)
(* The outbox only grows.                                                  *)
(***************************************************************************)
LEMMA OutboxGrows ==
    ASSUME TypeInv, [Next]_vars
    PROVE  \A i \in DOMAIN outbox : i \in DOMAIN outbox' /\ outbox'[i] = outbox[i]
<1>1. ASSUME NEW e \in Event, outbox' = Append(outbox, e)
      PROVE  \A i \in DOMAIN outbox : i \in DOMAIN outbox' /\ outbox'[i] = outbox[i]
  <2>1. outbox \in Seq(Event)
    BY DEF TypeInv, TypeOK, TablesTypeOK
  <2> QED BY <1>1, <2>1, AppendProperties, LenProperties
<1>2. CASE outbox' = outbox
  BY <1>2
<1> QED BY <1>1, <1>2, StoreChanges, CommitMoves DEF store, Claims

-----------------------------------------------------------------------------
(* One notification per slot, one keyed message per notification.          *)

SlotsUnique == \A i, j \in DOMAIN rows : SlotOf(i) = SlotOf(j) => i = j

\* Every message the gateway holds is the envelope of a stored notification.
MessagesFromRows ==
    \A m \in DOMAIN messages :
        messages[m].key \in DOMAIN rows /\ messages[m] = Envelope(messages[m].key)

KeyedOnce ==
    \A i, j \in DOMAIN messages :
        ChannelOf(messages[i].req) \in Keyed /\ messages[i].key = messages[j].key => i = j

NotifyInv == SlotsUnique /\ MessagesFromRows /\ KeyedOnce

(***************************************************************************)
(* The unique index at work: a slot is claimed only while nobody holds it, *)
(* and no later step moves a row to another slot.                          *)
(***************************************************************************)
LEMMA SlotsStayUnique ==
    ASSUME TypeInv, [Next]_vars, SlotsUnique
    PROVE  SlotsUnique'
<1> USE DEF SlotsUnique, SlotOf
<1>1. CASE UNCHANGED store
  BY <1>1 DEF store
<1>2. ASSUME NEW row, Claims(row) PROVE SlotsUnique'
  <2>1. rows \in Seq(Row) /\ row \in Row /\ rows' = Append(rows, row)
    BY <1>2 DEF Claims, TypeInv, TypeOK, TablesTypeOK
  <2>2. /\ Len(rows) \in Nat /\ DOMAIN rows = 1..Len(rows)
        /\ DOMAIN rows' = 1..(Len(rows) + 1)
        /\ rows'[Len(rows) + 1] = row
        /\ \A n \in DOMAIN rows : rows'[n] = rows[n]
    BY <2>1, AppendProperties, LenProperties
  <2>3. \A n \in DOMAIN rows : SlotOf(n) # <<EventId[row.req], row.addr>>
    BY <1>2 DEF Claims, Held
  <2> QED BY <2>2, <2>3
<1>3. CASE DOMAIN rows' = DOMAIN rows
  BY <1>3, RowsPersist
<1> QED BY <1>1, <1>2, <1>3, StoreChanges, CommitMoves

(***************************************************************************)
(* The gateway's log changes only by a dispatch of a stored row, and on a  *)
(* keyed channel only when no message has that row's key.                  *)
(***************************************************************************)
LEMMA MessageSteps ==
    ASSUME TypeInv, [Next]_vars
    PROVE  \/ UNCHANGED messages
           \/ \E n \in DOMAIN rows :
                 /\ Known(Envelope(n)) = {} /\ UNCHANGED rows
                 /\ messages' = Append(messages, Envelope(n))
<1>1. ASSUME NEW w \in Worker, NEW m, pc[w] = "dispatch", Accept(Envelope(cur[w]), m), UNCHANGED rows
      PROVE  \/ UNCHANGED messages
             \/ \E n \in DOMAIN rows :
                   /\ Known(Envelope(n)) = {} /\ UNCHANGED rows
                   /\ messages' = Append(messages, Envelope(n))
  <2>1. cur[w] \in DOMAIN rows
    BY <1>1 DEF TypeInv, FramesHold, FrameHolds
  <2> QED BY <1>1, <2>1 DEF Accept
<1>2. ASSUME NEW w \in Worker, DispatchAccepted(w) \/ DispatchLost(w)
      PROVE  pc[w] = "dispatch" /\ UNCHANGED rows /\ \E m : Accept(Envelope(cur[w]), m)
  BY <1>2 DEF DispatchAccepted, Send, DispatchLost, SendLost, Answered, store
<1>3. CASE ~\E w \in Worker : DispatchAccepted(w) \/ DispatchLost(w)
  <2> USE DEF gateway
  <2>1. ASSUME NEW w \in Worker, Step(w) PROVE UNCHANGED messages
    BY <1>3, <2>1 DEF Step, Proceed, ClaimRefused, ClaimConflict, ClaimInsert, NotifyEnd, DispatchRejected,
                      CommitDispatched, CommitFailed, CommitRefused, Publish
  <2>2. CASE ~\E w \in Worker : Step(w)
    BY <2>2 DEF Next, vars, Deliver, NotifySkip, NotifyBegin, SweepBegin, Crash, Report,
                TemplateWrite, Record, RecordDelivery
  <2> QED BY <2>1, <2>2
<1> QED BY <1>1, <1>2, <1>3

(***************************************************************************)
(* Slots, messages and keys stay one to one.                               *)
(***************************************************************************)
LEMMA NotifyStep ==
    ASSUME TypeInv, [Next]_vars, NotifyInv
    PROVE  NotifyInv'
<1>1. SlotsUnique'
  BY SlotsStayUnique DEF NotifyInv
<1>2. \A n \in DOMAIN rows : n \in DOMAIN rows' /\ Envelope(n)' = Envelope(n)
  BY RowsPersist DEF Envelope
<1>3. CASE UNCHANGED messages
  BY <1>1, <1>2, <1>3 DEF NotifyInv, MessagesFromRows, KeyedOnce
<1>4. ASSUME NEW n \in DOMAIN rows, Known(Envelope(n)) = {}, UNCHANGED rows,
             messages' = Append(messages, Envelope(n))
      PROVE  NotifyInv'
  <2>1. Envelope(n) \in Message
    <3>1. rows[n] \in Row /\ n \in Nat
      BY LenProperties, ElementOfSeq DEF TypeInv, TypeOK, TablesTypeOK
    <3> QED BY <3>1 DEF Envelope, Row, Message
  <2>2. /\ Len(messages) \in Nat /\ DOMAIN messages = 1..Len(messages)
        /\ DOMAIN messages' = 1..(Len(messages) + 1)
        /\ messages'[Len(messages) + 1] = Envelope(n)
        /\ \A m \in DOMAIN messages : messages'[m] = messages[m]
    BY <1>4, <2>1, AppendProperties, LenProperties DEF TypeInv, TypeOK, TablesTypeOK
  <2>3. Envelope(n).key = n /\ Envelope(n).req = rows[n].req
    BY DEF Envelope
  <2>4. MessagesFromRows'
    BY <1>2, <2>2, <2>3 DEF NotifyInv, MessagesFromRows
  <2>5. ChannelOf(rows[n].req) \in Keyed => \A m \in DOMAIN messages : messages[m].key # n
    BY <1>4 DEF Known, Envelope
  <2>6. \A m \in DOMAIN messages : messages[m].key = n => messages[m].req = rows[n].req
    BY <2>3 DEF NotifyInv, MessagesFromRows
  <2>7. KeyedOnce'
    BY <2>2, <2>3, <2>5, <2>6 DEF NotifyInv, KeyedOnce
  <2> QED BY <1>1, <2>4, <2>7 DEF NotifyInv
<1> QED BY <1>3, <1>4, MessageSteps

(***************************************************************************)
(* Wherever callers race, crash and are redelivered, a channel whose       *)
(* transport dedups on the key never holds two messages of one event for   *)
(* one recipient address: the slot is unique, so the key is, so the        *)
(* message is.                                                             *)
(***************************************************************************)
THEOREM NotifiedOnce == Spec => []NoDoubleNotify
<1>1. Init => TypeInv /\ NotifyInv
  BY TypeInit DEF Init, NotifyInv, SlotsUnique, MessagesFromRows, KeyedOnce
<1>2. TypeInv /\ NotifyInv /\ [Next]_vars => (TypeInv /\ NotifyInv)'
  BY TypeStep, NotifyStep
<1>3. NotifyInv => NoDoubleNotify
  <2> SUFFICES ASSUME NotifyInv, NEW i \in DOMAIN messages, NEW j \in DOMAIN messages,
                      ChannelOf(messages[i].req) \in Keyed,
                      EventId[messages[i].req] = EventId[messages[j].req],
                      messages[i].addr = messages[j].addr
               PROVE  i = j
    BY DEF NoDoubleNotify
  <2>1. \A m \in {i, j} : /\ messages[m].key \in DOMAIN rows
                          /\ SlotOf(messages[m].key) = <<EventId[messages[m].req], messages[m].addr>>
    BY DEF NotifyInv, MessagesFromRows, Envelope, SlotOf
  <2>2. messages[i].key = messages[j].key
    BY <2>1 DEF NotifyInv, SlotsUnique
  <2> QED BY <2>2 DEF NotifyInv, KeyedOnce
<1> QED BY <1>1, <1>2, <1>3, PTL DEF Spec

(***************************************************************************)
(* Whatever the transport makes of the key, two messages of one event for  *)
(* one recipient are copies: both are the envelope of the row that holds   *)
(* the slot, whose content never changes.                                  *)
(***************************************************************************)
THEOREM RepeatedAreCopies == Spec => []RepeatsAreCopies
<1>1. Init => TypeInv /\ NotifyInv
  BY TypeInit DEF Init, NotifyInv, SlotsUnique, MessagesFromRows, KeyedOnce
<1>2. TypeInv /\ NotifyInv /\ [Next]_vars => (TypeInv /\ NotifyInv)'
  BY TypeStep, NotifyStep
<1>3. NotifyInv => RepeatsAreCopies
  <2> SUFFICES ASSUME NotifyInv, NEW i \in DOMAIN messages, NEW j \in DOMAIN messages,
                      EventId[messages[i].req] = EventId[messages[j].req],
                      messages[i].addr = messages[j].addr
               PROVE  messages[i] = messages[j]
    BY DEF RepeatsAreCopies
  <2>1. \A m \in {i, j} : /\ messages[m].key \in DOMAIN rows
                          /\ messages[m] = Envelope(messages[m].key)
                          /\ SlotOf(messages[m].key) = <<EventId[messages[m].req], messages[m].addr>>
    BY DEF NotifyInv, MessagesFromRows, Envelope, SlotOf
  <2>2. messages[i].key = messages[j].key
    BY <2>1 DEF NotifyInv, SlotsUnique
  <2> QED BY <2>1, <2>2
<1> QED BY <1>1, <1>2, <1>3, PTL DEF Spec

-----------------------------------------------------------------------------
(* Message ids.                                                            *)

\* A dispatch outcome a caller is about to commit names its row's message.
AnswerCorrelates(w) ==
    pc[w] = "commit" /\ answer[w].msg # 0 =>
        answer[w].msg \in DOMAIN messages /\ messages[answer[w].msg] = Envelope(cur[w])

RowCorrelates(n) ==
    /\ rows[n].status \in {"pending", "failed"} => rows[n].msg = 0
    /\ rows[n].status \in {"sent", "delivered", "undelivered"} =>
          rows[n].msg \in DOMAIN messages /\ messages[rows[n].msg] = Envelope(n)
    /\ rows[n].status = "delivered" => <<rows[n].msg, "delivered">> \in reports
    /\ rows[n].status = "undelivered" => <<rows[n].msg, rows[n].reason>> \in reports

CorrelateInv ==
    /\ \A w \in Worker : AnswerCorrelates(w)
    /\ \A n \in DOMAIN rows : RowCorrelates(n)

(***************************************************************************)
(* The gateway forgets neither a message nor a report.                     *)
(***************************************************************************)
LEMMA GatewayGrows ==
    ASSUME TypeInv, [Next]_vars
    PROVE  /\ \A m \in DOMAIN messages : m \in DOMAIN messages' /\ messages'[m] = messages[m]
           /\ reports \subseteq reports'
<1>1. ASSUME NEW n \in DOMAIN rows, messages' = Append(messages, Envelope(n))
      PROVE  \A m \in DOMAIN messages : m \in DOMAIN messages' /\ messages'[m] = messages[m]
  <2>1. rows[n] \in Row /\ n \in Nat
    BY LenProperties, ElementOfSeq DEF TypeInv, TypeOK, TablesTypeOK
  <2>2. Envelope(n) \in Message /\ messages \in Seq(Message)
    BY <2>1 DEF Envelope, Row, Message, TypeInv, TypeOK, TablesTypeOK
  <2> QED BY <1>1, <2>2, AppendProperties, LenProperties
<1>2. \A m \in DOMAIN messages : m \in DOMAIN messages' /\ messages'[m] = messages[m]
  BY <1>1, MessageSteps
<1>3. reports \subseteq reports'
  <2> USE DEF gateway
  <2>1. ASSUME NEW w \in Worker, Step(w) PROVE reports' = reports
    BY <2>1 DEF Step, Proceed, ClaimRefused, ClaimConflict, ClaimInsert, NotifyEnd, DispatchAccepted, Send,
                DispatchRejected, DispatchLost, SendLost, Answered, CommitDispatched, CommitFailed,
                CommitRefused, Publish
  <2>2. CASE ~\E w \in Worker : Step(w)
    BY <2>2 DEF Next, vars, Deliver, NotifySkip, NotifyBegin, SweepBegin, Crash, Report,
                TemplateWrite, Record, RecordDelivery
  <2> QED BY <2>1, <2>2
<1> QED BY <1>2, <1>3

(***************************************************************************)
(* The row a commit or a receipt rewrites still correlates.                *)
(***************************************************************************)
LEMMA CommitCorrelates ==
    ASSUME TypeInv, CorrelateInv, NEW w \in Worker,
           \/ CommitDispatched(w) \/ CommitFailed(w)
           \/ \E m \in DOMAIN messages, o \in Outcome : RecordDelivery(w, m, o)
    PROVE  \A n \in DOMAIN rows' : n \in DOMAIN rows /\ RowCorrelates(n)'
<1> USE DEF CorrelateInv, RowCorrelates
<1>1. \A n \in DOMAIN rows : n \in Nat /\ rows[n] \in Row
  BY LenProperties, ElementOfSeq DEF TypeInv, TypeOK, TablesTypeOK
<1>2. messages' = messages /\ reports' = reports
  BY DEF CommitDispatched, CommitFailed, RecordDelivery, gateway
<1>3. ASSUME rows' = rows
      PROVE  \A n \in DOMAIN rows' : n \in DOMAIN rows /\ RowCorrelates(n)'
  BY <1>2, <1>3 DEF Envelope
<1>4. ASSUME NEW n \in DOMAIN rows, NEW row, rows' = [rows EXCEPT ![n] = row],
             row.req = rows[n].req, row.addr = rows[n].addr, row.body = rows[n].body,
             /\ row.status \in {"pending", "failed"} => row.msg = 0
             /\ row.status \in {"sent", "delivered", "undelivered"} =>
                   row.msg \in DOMAIN messages /\ messages[row.msg] = Envelope(n)
             /\ row.status = "delivered" => <<row.msg, "delivered">> \in reports
             /\ row.status = "undelivered" => <<row.msg, row.reason>> \in reports
      PROVE  \A k \in DOMAIN rows' : k \in DOMAIN rows /\ RowCorrelates(k)'
  <2>1. \A k \in DOMAIN rows : Envelope(k)' = Envelope(k)
    BY <1>4 DEF Envelope
  <2>2. DOMAIN rows' = DOMAIN rows /\ rows'[n] = row
        /\ \A k \in DOMAIN rows : k # n => rows'[k] = rows[k]
    BY <1>4
  <2>3. RowCorrelates(n)'
    BY <1>2, <1>4, <2>1, <2>2
  <2>4. \A k \in DOMAIN rows : k # n => RowCorrelates(k)'
    BY <1>2, <2>1, <2>2
  <2> QED BY <2>2, <2>3, <2>4
<1>5. CASE CommitDispatched(w)
  <2>1. cur[w] \in DOMAIN rows /\ pc[w] = "commit" /\ answer[w].msg # 0
    BY <1>5 DEF CommitDispatched, TypeInv, FramesHold, FrameHolds
  <2>2. CASE rows[cur[w]].status # "pending"
    <3>1. rows' = rows
      BY <1>5, <2>2 DEF CommitDispatched, MarkSent
    <3> QED BY <1>3, <3>1
  <2>3. CASE rows[cur[w]].status = "pending"
    <3>1. PICK x \in Row : x = rows[cur[w]]
      BY <1>1, <2>1
    <3>2. PICK row : row = [x EXCEPT !.status = "sent", !.msg = answer[w].msg]
      OBVIOUS
    <3>3. rows' = [rows EXCEPT ![cur[w]] = row]
      BY <1>5, <2>1, <2>3, <3>1, <3>2 DEF CommitDispatched, MarkSent
    <3>4. /\ row.req = x.req /\ row.addr = x.addr /\ row.body = x.body
          /\ row.status = "sent" /\ row.msg = answer[w].msg
      BY <3>2 DEF Row
    <3>5. row.msg \in DOMAIN messages /\ messages[row.msg] = Envelope(cur[w])
      BY <2>1, <3>4 DEF AnswerCorrelates
    <3> QED BY <1>4, <2>1, <3>1, <3>3, <3>4, <3>5
  <2> QED BY <2>2, <2>3
<1>6. CASE CommitFailed(w)
  <2>1. cur[w] \in DOMAIN rows
    BY <1>6 DEF CommitFailed, TypeInv, FramesHold, FrameHolds
  <2>2. CASE rows[cur[w]].status # "pending"
    <3>1. rows' = rows
      BY <1>6, <2>2 DEF CommitFailed, MarkFailed
    <3> QED BY <1>3, <3>1
  <2>3. CASE rows[cur[w]].status = "pending"
    <3>1. PICK x \in Row : x = rows[cur[w]]
      BY <1>1, <2>1
    <3>2. PICK row : row = [x EXCEPT !.status = "failed", !.reason = answer[w].reason]
      OBVIOUS
    <3>3. rows' = [rows EXCEPT ![cur[w]] = row]
      BY <1>6, <2>1, <2>3, <3>1, <3>2 DEF CommitFailed, MarkFailed
    <3>4. /\ row.req = x.req /\ row.addr = x.addr /\ row.body = x.body
          /\ row.status = "failed" /\ row.msg = x.msg
      BY <3>2 DEF Row
    <3>5. x.msg = 0
      BY <2>1, <2>3, <3>1
    <3> QED BY <1>4, <2>1, <3>1, <3>3, <3>4, <3>5
  <2> QED BY <2>2, <2>3
<1>7. ASSUME NEW m \in DOMAIN messages, NEW o \in Outcome, RecordDelivery(w, m, o)
      PROVE  \A n \in DOMAIN rows' : n \in DOMAIN rows /\ RowCorrelates(n)'
  <2>1. /\ DOMAIN rows' = DOMAIN rows
        /\ \A n \in Correlated(m) : n \in DOMAIN rows /\ rows'[n] = Received(rows[n], o)
        /\ \A n \in DOMAIN rows \ Correlated(m) : rows'[n] = rows[n]
    BY <1>7, ReceiptMoves DEF TypeInv, TypeOK, TablesTypeOK
  <2>2. \A n \in DOMAIN rows : Envelope(n)' = Envelope(n)
    BY <1>1, <2>1, ReceivedIsRow DEF Envelope
  <2>3. ASSUME NEW n \in Correlated(m) PROVE RowCorrelates(n)'
    <3>1. n \in DOMAIN rows /\ rows[n] \in Row /\ rows[n].status = "sent" /\ rows[n].msg = m
      BY <1>1, <2>3 DEF Correlated
    <3>2. PICK row : row = Received(rows[n], o)
      OBVIOUS
    <3>3. /\ rows'[n] = row /\ row.msg = m
          /\ o = "delivered" => row.status = "delivered"
          /\ o # "delivered" => row.status = "undelivered" /\ row.reason = o
      BY <2>1, <2>3, <3>1, <3>2, ReceivedIsRow
    <3>4. m \in DOMAIN messages /\ messages[m] = Envelope(n) /\ <<m, o>> \in reports
      BY <1>7, <3>1 DEF RecordDelivery
    <3> QED BY <1>2, <2>2, <3>1, <3>3, <3>4
  <2>4. \A n \in DOMAIN rows \ Correlated(m) : RowCorrelates(n)'
    BY <1>2, <2>1, <2>2
  <2> QED BY <2>1, <2>3, <2>4
<1> QED BY <1>5, <1>6, <1>7

(***************************************************************************)
(* A caller comes to a commit by a dispatch of its own, and keeps what it  *)
(* is about to commit while others move.                                   *)
(***************************************************************************)
LEMMA CommitComesFromDispatch ==
    ASSUME TypeInv, [Next]_vars, NEW v \in Worker, pc'[v] = "commit"
    PROVE  \/ pc[v] = "commit" /\ answer'[v] = answer[v] /\ cur'[v] = cur[v]
           \/ DispatchAccepted(v) \/ DispatchRejected(v) \/ DispatchLost(v)
<1> DEFINE Keeps == pc[v] = "commit" /\ answer'[v] = answer[v] /\ cur'[v] = cur[v]
<1> USE DEF store, gateway, broker, locals
<1>1. /\ pc \in [Worker -> {"idle", "claim", "dispatch", "commit", "publish"}]
      /\ answer \in [Worker -> Answer] /\ cur \in [Worker -> Nat]
  BY DEF TypeInv, TypeOK, FramesTypeOK
<1>2. ASSUME NEW w \in Worker, Return(w) PROVE Keeps
  BY <1>1, <1>2 DEF Return
<1>3. ASSUME NEW w \in Worker, Step(w), ~(w = v /\ (DispatchAccepted(v) \/ DispatchRejected(v) \/ DispatchLost(v)))
      PROVE  Keeps
  <2>1. CASE ClaimRefused(w) \/ NotifyEnd(w) \/ CommitRefused(w)
    <3>1. Return(w)
      BY <2>1 DEF ClaimRefused, NotifyEnd, CommitRefused
    <3> QED BY <1>2, <3>1
  <2>2. CASE ClaimConflict(w) \/ ClaimInsert(w)
    BY <1>1, <2>2 DEF ClaimConflict, ClaimInsert, Claimable, Goto
  <2>3. CASE DispatchAccepted(w) \/ DispatchRejected(w) \/ DispatchLost(w)
    <3>1. w # v
      BY <1>3, <2>3
    <3> QED BY <1>1, <2>3, <3>1 DEF DispatchAccepted, Send, DispatchRejected, DispatchLost, SendLost, Answered, Goto
  <2>4. CASE CommitDispatched(w) \/ CommitFailed(w)
    BY <1>1, <2>4 DEF CommitDispatched, CommitFailed, Stage, Goto
  <2>5. CASE Publish(w)
    BY <1>1, <2>5 DEF Publish, Return, Goto
  <2> QED BY <1>3, <2>1, <2>2, <2>3, <2>4, <2>5 DEF Step, Proceed
<1>4. CASE ~\E w \in Worker : Step(w)
  <2>1. CASE \E w \in Worker : Crash(w)
    BY <1>2, <2>1 DEF Crash
  <2>2. CASE Record
    BY <1>1, <2>2 DEF Record, RecordDelivery, Stage, Goto
  <2>3. CASE \E w \in Sweeper : SweepBegin(w)
    BY <1>1, <2>3 DEF SweepBegin, Goto
  <2>4. CASE \E q \in Request : Deliver(q)
    BY <1>1, <2>4 DEF Deliver, NotifySkip, NotifyBegin, Goto
  <2>5. CASE UNCHANGED <<pc, answer, cur>>
    BY <2>5
  <2> QED BY <1>4, <2>1, <2>2, <2>3, <2>4, <2>5 DEF Next, vars, TemplateWrite, Report
<1> QED BY <1>3, <1>4

(***************************************************************************)
(* Message ids correlate after every step.                                 *)
(***************************************************************************)
LEMMA CorrelateStep ==
    ASSUME TypeInv, NotifyInv, CorrelateInv, [Next]_vars
    PROVE  CorrelateInv'
<1>1. /\ \A m \in DOMAIN messages : m \in DOMAIN messages' /\ messages'[m] = messages[m]
      /\ reports \subseteq reports'
  BY GatewayGrows
<1>2. \A n \in DOMAIN rows : n \in DOMAIN rows' /\ Envelope(n)' = Envelope(n)
  BY RowsPersist DEF Envelope
<1>3. ASSUME NEW v \in Worker PROVE AnswerCorrelates(v)'
  <2> SUFFICES ASSUME pc'[v] = "commit", answer'[v].msg # 0
               PROVE  /\ answer'[v].msg \in DOMAIN messages'
                      /\ messages'[answer'[v].msg] = Envelope(cur[v])'
    BY DEF AnswerCorrelates, Envelope
  <2>1. CASE pc[v] = "commit" /\ answer'[v] = answer[v] /\ cur'[v] = cur[v]
    <3>1. cur[v] \in DOMAIN rows
      BY <2>1 DEF TypeInv, FramesHold, FrameHolds
    <3> QED BY <1>1, <1>2, <2>1, <3>1 DEF CorrelateInv, AnswerCorrelates
  <2>2. CASE DispatchRejected(v) \/ DispatchLost(v)
    <3>1. \E r : Answered(v, 0, r)
      BY <2>2 DEF DispatchRejected, DispatchLost, SendLost
    <3>2. answer'[v].msg = 0
      BY <3>1 DEF Answered, TypeInv, TypeOK, FramesTypeOK
    <3> QED BY <3>2
  <2>3. CASE DispatchAccepted(v)
    <3>1. PICK m \in 1..(Len(messages) + 1) : Accept(Envelope(cur[v]), m) /\ Answered(v, m, NoReason)
      BY <2>3 DEF DispatchAccepted, Send
    <3>2. answer'[v].msg = m /\ cur' = cur /\ rows' = rows
      BY <3>1 DEF Answered, store, TypeInv, TypeOK, FramesTypeOK
    <3>3. cur[v] \in DOMAIN rows
      BY <2>3 DEF DispatchAccepted, Send, TypeInv, FramesHold, FrameHolds
    <3>4. CASE Known(Envelope(cur[v])) # {}
      <4>1. m \in DOMAIN messages /\ messages[m].key = cur[v]
        BY <3>1, <3>4 DEF Accept, Known, Envelope
      <4>2. messages[m] = Envelope(cur[v])
        BY <4>1 DEF NotifyInv, MessagesFromRows
      <4> QED BY <1>1, <1>2, <3>2, <3>3, <4>1, <4>2
    <3>5. CASE Known(Envelope(cur[v])) = {}
      <4>1. m = Len(messages) + 1 /\ messages' = Append(messages, Envelope(cur[v]))
        BY <3>1, <3>5 DEF Accept
      <4>2. rows[cur[v]] \in Row /\ cur[v] \in Nat
        BY <3>3, LenProperties, ElementOfSeq DEF TypeInv, TypeOK, TablesTypeOK
      <4>3. Envelope(cur[v]) \in Message /\ messages \in Seq(Message)
        BY <4>2 DEF Envelope, Row, Message, TypeInv, TypeOK, TablesTypeOK
      <4>4. m \in DOMAIN messages' /\ messages'[m] = Envelope(cur[v])
        BY <4>1, <4>3, AppendProperties, LenProperties
      <4> QED BY <1>2, <3>2, <3>3, <4>4
    <3> QED BY <3>4, <3>5
  <2> QED BY <2>1, <2>2, <2>3, CommitComesFromDispatch
<1>4. \A n \in DOMAIN rows : rows'[n] = rows[n] => RowCorrelates(n)'
  BY <1>1, <1>2 DEF CorrelateInv, RowCorrelates
<1>5. ASSUME NEW n \in DOMAIN rows' PROVE RowCorrelates(n)'
  <2>1. CASE UNCHANGED store
    BY <1>4, <2>1 DEF store
  <2>2. ASSUME NEW row, Claims(row) PROVE RowCorrelates(n)'
    <3>1. rows \in Seq(Row) /\ row \in Row /\ rows' = Append(rows, row)
      BY <2>2 DEF Claims, TypeInv, TypeOK, TablesTypeOK
    <3>2. (n \in DOMAIN rows /\ rows'[n] = rows[n]) \/ rows'[n] = row
      BY <3>1, AppendProperties, LenProperties
    <3>3. CASE rows'[n] = row
      BY <2>2, <3>3 DEF Claims, RowCorrelates
    <3> QED BY <1>4, <3>2, <3>3
  <2>3. ASSUME NEW w \in Worker,
               \/ CommitDispatched(w) \/ CommitFailed(w)
               \/ \E m \in DOMAIN messages, o \in Outcome : RecordDelivery(w, m, o)
        PROVE  RowCorrelates(n)'
    BY <2>3, CommitCorrelates
  <2> QED BY <2>1, <2>2, <2>3, StoreChanges
<1> QED BY <1>3, <1>5 DEF CorrelateInv

(***************************************************************************)
(* The message id a row stores is that of its own message and of no other  *)
(* row's, and a row is delivered or undelivered only on a report about it: *)
(* a receipt is never credited to the wrong notification.                  *)
(***************************************************************************)
THEOREM MessageIdsCorrelate == Spec => []MessageIdCorrelates
<1>1. Init => TypeInv /\ NotifyInv /\ CorrelateInv
  BY TypeInit DEF Init, NotifyInv, SlotsUnique, MessagesFromRows, KeyedOnce, CorrelateInv,
                  AnswerCorrelates
<1>2. TypeInv /\ NotifyInv /\ CorrelateInv /\ [Next]_vars => (TypeInv /\ NotifyInv /\ CorrelateInv)'
  BY TypeStep, NotifyStep, CorrelateStep
<1>3. TypeInv /\ CorrelateInv => MessageIdCorrelates
  <2> SUFFICES ASSUME TypeInv, CorrelateInv, NEW n \in DOMAIN rows
               PROVE  /\ rows[n].status \in {"sent", "delivered", "undelivered"} =>
                            /\ rows[n].msg \in DOMAIN messages
                            /\ messages[rows[n].msg] = Envelope(n)
                            /\ \A k \in DOMAIN rows : rows[k].msg = rows[n].msg => k = n
                      /\ rows[n].status = "delivered" => <<rows[n].msg, "delivered">> \in reports
                      /\ rows[n].status = "undelivered" => <<rows[n].msg, rows[n].reason>> \in reports
    BY DEF MessageIdCorrelates, OwnsMessage, SharesNoMessage
  <2>1. RowCorrelates(n)
    BY DEF CorrelateInv
  <2>2. ASSUME rows[n].status \in {"sent", "delivered", "undelivered"},
               NEW k \in DOMAIN rows, rows[k].msg = rows[n].msg
        PROVE  k = n
    <3>0. rows[k] \in Row
      BY <2>2, LenProperties, ElementOfSeq DEF TypeInv, TypeOK, TablesTypeOK
    <3>1. rows[k].status \in Status /\ RowCorrelates(k)
      BY <2>2, <3>0 DEF CorrelateInv, Row
    <3>2. rows[n].msg # 0
      BY <2>1, <2>2, LenProperties DEF RowCorrelates, TypeInv, TypeOK, TablesTypeOK
    <3>3. Envelope(k) = Envelope(n)
      BY <2>1, <2>2, <3>1, <3>2 DEF RowCorrelates, Status
    <3> QED BY <3>3 DEF Envelope
  <2> QED BY <2>1, <2>2 DEF RowCorrelates
<1> QED BY <1>1, <1>2, <1>3, PTL DEF Spec

(***************************************************************************)
(* A receipt advances one row: the rows that are sent and have the message *)
(* id of the receipt are one, since its message is that row's own.         *)
(***************************************************************************)
LEMMA ReceiptAdvances ==
    ASSUME TypeInv, CorrelateInv, NEW w, NEW m, NEW o \in Outcome, RecordDelivery(w, m, o)
    PROVE  \E n, row, e : Advances(n, row, e)
<1>1. /\ rows' \in Seq(Row) /\ DOMAIN rows' = DOMAIN rows
      /\ \A n \in Correlated(m) : n \in DOMAIN rows /\ rows'[n] = Received(rows[n], o)
      /\ \A n \in DOMAIN rows \ Correlated(m) : rows'[n] = rows[n]
  BY ReceiptMoves DEF TypeInv, TypeOK, TablesTypeOK
<1>2. PICK n \in Correlated(m) :
        LET e == [n |-> n, kind |-> ReceiptKind(o), msg |-> 0] IN e \in Event /\ Stage(w, e)
  BY ReceiptMoves DEF TypeInv, TypeOK, TablesTypeOK
<1>3. PICK e \in Event : e = [n |-> n, kind |-> ReceiptKind(o), msg |-> 0] /\ Stage(w, e)
  BY <1>2
<1>4. n \in DOMAIN rows /\ rows[n] \in Row /\ rows[n].status = "sent"
  BY <1>2, LenProperties, ElementOfSeq DEF Correlated, TypeInv, TypeOK, TablesTypeOK
<1>5. \A k \in Correlated(m) : messages[m] = Envelope(k)
  BY DEF Correlated, CorrelateInv, RowCorrelates
<1>6. \A k \in Correlated(m) : k = n
  <2>1. ASSUME NEW k \in Correlated(m) PROVE messages[m].key = k
    <3>1. messages[m] = Envelope(k) /\ Envelope(k).key = k
      BY <1>5 DEF Envelope
    <3> QED BY <3>1
  <2>2. n \in Correlated(m)
    BY <1>2
  <2> QED BY <2>1, <2>2
<1>7. PICK row : row = Received(rows[n], o)
  OBVIOUS
<1>8. rows' = [rows EXCEPT ![n] = row]
  <2>1. \A k \in DOMAIN rows : rows'[k] = [rows EXCEPT ![n] = row][k]
    BY <1>1, <1>2, <1>6, <1>7
  <2>2. rows \in Seq(Row) /\ rows' \in Seq(Row)
    BY <1>1 DEF TypeInv, TypeOK, TablesTypeOK
  <2>3. DOMAIN rows = 1..Len(rows) /\ DOMAIN rows' = 1..Len(rows')
        /\ rows = [k \in 1..Len(rows) |-> rows[k]] /\ rows' = [k \in 1..Len(rows') |-> rows'[k]]
    BY <2>2, LenProperties
  <2>4. [rows EXCEPT ![n] = row] = [k \in DOMAIN rows |-> rows'[k]]
    BY <2>1, <2>3
  <2> QED BY <1>1, <2>3, <2>4
<1>9. /\ row \in Row /\ row.req = rows[n].req /\ row.addr = rows[n].addr
      /\ row.body = rows[n].body /\ row.msg = rows[n].msg
      /\ o = "delivered" => row.status = "delivered"
      /\ o # "delivered" => row.status = "undelivered"
  BY <1>4, <1>7, ReceivedIsRow
<1>10. outbox' = Append(outbox, e) /\ e.n = n /\ e.kind = ReceiptKind(o)
  BY <1>3 DEF Stage
<1>11. Advances(n, row, e)
  BY <1>3, <1>4, <1>8, <1>9, <1>10 DEF Advances, ReceiptKind
<1> QED BY <1>11

(***************************************************************************)
(* A step leaves the store alone, claims a slot or advances a row.         *)
(***************************************************************************)
LEMMA StoreSteps ==
    ASSUME TypeInv, CorrelateInv, [Next]_vars
    PROVE  \/ UNCHANGED store
           \/ \E row : Claims(row)
           \/ \E n, row, e : Advances(n, row, e)
BY StoreChanges, CommitAdvances, ReceiptAdvances

-----------------------------------------------------------------------------
(* State and outbox.                                                       *)

OutboxAboutRows == \A i \in DOMAIN outbox : outbox[i].n \in DOMAIN rows

OutboxInv == OutboxAboutRows /\ OutboxCoversState

(***************************************************************************)
(* An advance keeps state and outbox in step for the row it moves, and     *)
(* tells nothing of any other.                                             *)
(***************************************************************************)
LEMMA AdvanceIsStaged ==
    ASSUME TypeInv, OutboxInv, NEW n, NEW row, NEW e, Advances(n, row, e)
    PROVE  OutboxInv'
<1>1. /\ Len(outbox) \in Nat /\ DOMAIN outbox = 1..Len(outbox)
      /\ DOMAIN outbox' = 1..(Len(outbox) + 1)
      /\ outbox'[Len(outbox) + 1] = e
      /\ \A i \in DOMAIN outbox : outbox'[i] = outbox[i]
  <2>1. outbox \in Seq(Event) /\ e \in Event /\ outbox' = Append(outbox, e)
    BY DEF Advances, TypeInv, TypeOK, TablesTypeOK
  <2> QED BY <2>1, AppendProperties, LenProperties
<1>2. /\ DOMAIN rows' = DOMAIN rows /\ rows'[n] = row
      /\ \A k \in DOMAIN rows : k # n => rows'[k] = rows[k]
  BY DEF Advances
<1>3. \A k, kind : Staged(k, kind)' <=> Staged(k, kind) \/ (k = n /\ kind = e.kind)
  BY <1>1 DEF Staged, Advances
<1>4. OutboxAboutRows'
  BY <1>1, <1>2 DEF Advances, OutboxInv, OutboxAboutRows
<1> DEFINE Dispatched(k, m) == [n |-> k, kind |-> "NotificationDispatched", msg |-> m]
           Covers(k) ==
             /\ rows[k].status = "pending" => \A i \in DOMAIN outbox : outbox[i].n # k
             /\ rows[k].status \in {"sent", "delivered", "undelivered"} =>
                   \E i \in DOMAIN outbox : outbox[i] = Dispatched(k, rows[k].msg)
             /\ rows[k].status = "failed" => Staged(k, "NotificationFailed")
             /\ rows[k].status = "delivered" <=> Staged(k, "NotificationDelivered")
             /\ rows[k].status = "undelivered" <=> Staged(k, "NotificationUndelivered")
<1>5. \A k \in DOMAIN rows : Covers(k)
  BY DEF OutboxInv, OutboxCoversState, OutboxCovers, HandOffStaged, ReceiptsTrue,
         ReceiptStaged
<1>6. ASSUME NEW k \in DOMAIN rows, k # n PROVE Covers(k)'
  <2>1. Covers(k)
    BY <1>5, <1>6
  <2>2. \A i \in DOMAIN outbox' : outbox'[i].n = k => i \in DOMAIN outbox
    BY <1>1, <1>6 DEF Advances
  <2>3. (\A i \in DOMAIN outbox : outbox[i].n # k) => \A i \in DOMAIN outbox' : outbox'[i].n # k
    BY <1>1, <2>2
  <2>4. \A i \in DOMAIN outbox : i \in DOMAIN outbox' /\ outbox'[i] = outbox[i]
    BY <1>1
  <2>5. rows'[k] = rows[k]
    BY <1>2, <1>6
  <2> QED BY <1>3, <1>6, <2>1, <2>3, <2>4, <2>5
<1>7. Covers(n)'
  <2>1. Covers(n)
    BY <1>5 DEF Advances
  <2>2. rows'[n].status # "pending"
    BY <1>2 DEF Advances
  <2>3. ASSUME rows'[n].status \in {"sent", "delivered", "undelivered"}
        PROVE  \E i \in DOMAIN outbox' : outbox'[i] = Dispatched(n, rows'[n].msg)
    <3>1. CASE rows[n].status # "pending"
      <4>1. rows'[n].msg = rows[n].msg /\ rows[n].status \in {"sent", "delivered", "undelivered"}
        BY <1>2, <2>3, <3>1 DEF Advances
      <4>2. PICK i \in DOMAIN outbox : outbox[i] = Dispatched(n, rows[n].msg)
        BY <2>1, <4>1
      <4> QED BY <1>1, <4>1, <4>2
    <3>2. CASE rows[n].status = "pending"
      <4>1. e \in Event /\ e.n = n /\ e.kind = "NotificationDispatched" /\ e.msg = rows'[n].msg
        BY <1>2, <2>3, <3>2 DEF Advances
      <4>2. e = Dispatched(n, rows'[n].msg)
        BY <4>1 DEF Event
      <4> QED BY <1>1, <4>2
    <3> QED BY <3>1, <3>2
  <2>4. rows[n].status = "pending" => \A kind : ~Staged(n, kind)
    BY <2>1 DEF Staged
  <2>5. /\ rows'[n].status = "failed" => Staged(n, "NotificationFailed")'
        /\ rows'[n].status = "delivered" <=> Staged(n, "NotificationDelivered")'
        /\ rows'[n].status = "undelivered" <=> Staged(n, "NotificationUndelivered")'
    BY <1>2, <1>3, <2>1, <2>4 DEF Advances
  <2> QED BY <2>2, <2>3, <2>5
<1>8. OutboxCoversState'
  <2>1. \A k \in DOMAIN rows' : Covers(k)'
    BY <1>2, <1>6, <1>7
  <2> QED BY <2>1 DEF OutboxCoversState, OutboxCovers, HandOffStaged, ReceiptsTrue, ReceiptStaged
<1> QED BY <1>4, <1>8 DEF OutboxInv

(***************************************************************************)
(* A claim stages nothing, and nothing was staged for the row it adds.     *)
(***************************************************************************)
LEMMA ClaimIsSilent ==
    ASSUME TypeInv, OutboxInv, NEW row, Claims(row)
    PROVE  OutboxInv'
<1>1. rows \in Seq(Row) /\ row \in Row /\ rows' = Append(rows, row) /\ outbox' = outbox
  BY DEF Claims, TypeInv, TypeOK, TablesTypeOK
<1>2. /\ Len(rows) \in Nat /\ DOMAIN rows = 1..Len(rows)
      /\ DOMAIN rows' = 1..(Len(rows) + 1)
      /\ rows'[Len(rows) + 1] = row
      /\ \A n \in DOMAIN rows : rows'[n] = rows[n]
  BY <1>1, AppendProperties, LenProperties
<1>3. \A i \in DOMAIN outbox : outbox[i].n # Len(rows) + 1
  BY <1>2 DEF OutboxInv, OutboxAboutRows
<1>4. \A n, kind : Staged(n, kind)' <=> Staged(n, kind)
  BY <1>1 DEF Staged
<1>5. row.status = "pending"
  BY DEF Claims
<1>6. OutboxCoversState'
  BY <1>1, <1>2, <1>3, <1>4, <1>5 DEF OutboxInv, OutboxCoversState, OutboxCovers, HandOffStaged,
     ReceiptsTrue, ReceiptStaged, Staged
<1> QED BY <1>1, <1>2, <1>6 DEF OutboxInv, OutboxAboutRows

(***************************************************************************)
(* State and outbox agree after every step.                                *)
(***************************************************************************)
LEMMA OutboxStep ==
    ASSUME TypeInv, CorrelateInv, OutboxInv, [Next]_vars
    PROVE  OutboxInv'
<1>1. CASE UNCHANGED store
  BY <1>1 DEF store, OutboxInv, OutboxAboutRows, OutboxCoversState, OutboxCovers, HandOffStaged,
              ReceiptsTrue, ReceiptStaged, Staged
<1> QED BY <1>1, StoreSteps, AdvanceIsStaged, ClaimIsSilent

(***************************************************************************)
(* A state change and its event are one: at every instant the outbox tells *)
(* exactly how far each notification has come, although the guarded UPDATE *)
(* may have matched no row and although callers race and crash.            *)
(***************************************************************************)
THEOREM OutboxIsFaithful == Spec => []OutboxCoversState
<1>1. Init => TypeInv /\ NotifyInv /\ CorrelateInv /\ OutboxInv
  BY TypeInit DEF Init, NotifyInv, SlotsUnique, MessagesFromRows, KeyedOnce, CorrelateInv,
                  AnswerCorrelates, OutboxInv, OutboxAboutRows, OutboxCoversState
<1>2. /\ TypeInv /\ NotifyInv /\ CorrelateInv /\ OutboxInv /\ [Next]_vars
      => (TypeInv /\ NotifyInv /\ CorrelateInv /\ OutboxInv)'
  BY TypeStep, NotifyStep, CorrelateStep, OutboxStep
<1>3. OutboxInv => OutboxCoversState
  BY DEF OutboxInv
<1> QED BY <1>1, <1>2, <1>3, PTL DEF Spec

-----------------------------------------------------------------------------
(* What is published is durable.                                           *)

\* A caller about to publish has its event committed in the outbox.
StagedBeforePublish ==
    \A w \in Worker : pc[w] = "publish" => \E i \in DOMAIN outbox : outbox[i] = event[w]

PublishInv == StagedBeforePublish /\ PublishedIsDurable

(***************************************************************************)
(* A call that ends or moves on without staging leaves the rest as it was. *)
(***************************************************************************)
LEMMA PublishStep ==
    ASSUME TypeInv, [Next]_vars, PublishInv
    PROVE  PublishInv'
<1>1. \A e : (\E i \in DOMAIN outbox : outbox[i] = e) => \E i \in DOMAIN outbox' : outbox'[i] = e
  BY OutboxGrows
<1>2. pc \in [Worker -> {"idle", "claim", "dispatch", "commit", "publish"}] /\ event \in [Worker -> Event]
  BY DEF TypeInv, TypeOK, FramesTypeOK
<1>3. ASSUME NEW w \in Worker, NEW e \in Event, Stage(w, e), published' = published PROVE PublishInv'
  <2>1. e = outbox'[Len(outbox) + 1] /\ Len(outbox) + 1 \in DOMAIN outbox'
    <3>1. outbox \in Seq(Event) /\ outbox' = Append(outbox, e)
      BY <1>3 DEF Stage, TypeInv, TypeOK, TablesTypeOK
    <3> QED BY <1>3, <3>1, AppendProperties, LenProperties
  <2>2. pc' = [pc EXCEPT ![w] = "publish"] /\ event' = [event EXCEPT ![w] = e]
    BY <1>3 DEF Stage, Goto
  <2>3. StagedBeforePublish'
    BY <1>1, <1>2, <2>1, <2>2 DEF PublishInv, StagedBeforePublish
  <2> QED BY <1>1, <1>3, <2>3 DEF PublishInv, PublishedIsDurable
<1> DEFINE Leaves(w) == \A v \in Worker :
                           /\ pc'[v] = "publish" => v # w /\ pc[v] = "publish"
                           /\ v # w => event'[v] = event[v]
<1>4. ASSUME NEW w \in Worker, Leaves(w),
             published' = published \/ (pc[w] = "publish" /\ published' = published \cup {event[w]})
      PROVE  PublishInv'
  <2>1. StagedBeforePublish'
    BY <1>1, <1>4 DEF PublishInv, StagedBeforePublish
  <2>2. ASSUME NEW e \in published' PROVE \E i \in DOMAIN outbox : outbox[i] = e
    <3>1. e \in published \/ (pc[w] = "publish" /\ e = event[w])
      BY <1>4, <2>2
    <3> QED BY <3>1 DEF PublishInv, StagedBeforePublish, PublishedIsDurable
  <2>3. PublishedIsDurable'
    BY <1>1, <2>2 DEF PublishedIsDurable
  <2> QED BY <2>1, <2>3 DEF PublishInv
<1>5. ASSUME NEW w \in Worker, Return(w), published' = published PROVE PublishInv'
  <2>1. Leaves(w)
    BY <1>2, <1>5 DEF Return
  <2> HIDE DEF Leaves
  <2> QED BY <1>4, <1>5, <2>1
<1>6. ASSUME NEW w \in Worker, Step(w) PROVE PublishInv'
  <2> USE DEF store, gateway, broker, locals
  <2>1. CASE ClaimRefused(w) \/ NotifyEnd(w) \/ CommitRefused(w)
    BY <1>5, <2>1 DEF ClaimRefused, NotifyEnd, CommitRefused
  <2>2. CASE ClaimConflict(w) \/ ClaimInsert(w)
    <3>1. Leaves(w) /\ published' = published
      BY <1>2, <2>2 DEF ClaimConflict, ClaimInsert, Claimable, Goto
    <3> HIDE DEF Leaves
    <3> QED BY <1>4, <3>1
  <2>3. CASE DispatchAccepted(w) \/ DispatchRejected(w) \/ DispatchLost(w)
    <3>1. Leaves(w) /\ published' = published
      BY <1>2, <2>3 DEF DispatchAccepted, Send, DispatchRejected, DispatchLost, SendLost, Answered, Goto
    <3> HIDE DEF Leaves
    <3> QED BY <1>4, <3>1
  <2>4. CASE CommitDispatched(w)
    <3>1. [n |-> cur[w], kind |-> "NotificationDispatched", msg |-> answer[w].msg] \in Event
      BY DEF TypeInv, TypeOK, FramesTypeOK, Answer, Event, Kind
    <3> QED BY <1>3, <2>4, <3>1 DEF CommitDispatched
  <2>5. CASE CommitFailed(w)
    <3>1. [n |-> cur[w], kind |-> "NotificationFailed", msg |-> 0] \in Event
      BY DEF TypeInv, TypeOK, FramesTypeOK, Event, Kind
    <3> QED BY <1>3, <2>5, <3>1 DEF CommitFailed
  <2>6. CASE Publish(w)
    <3>1. published' = published \cup {event[w]} /\ pc[w] = "publish"
      BY <2>6 DEF Publish
    <3>2. Leaves(w)
      BY <1>2, <2>6 DEF Publish, Return, Goto
    <3> HIDE DEF Leaves
    <3> QED BY <1>4, <3>1, <3>2
  <2> QED BY <1>6, <2>1, <2>2, <2>3, <2>4, <2>5, <2>6 DEF Step, Proceed
<1>7. ASSUME NEW w \in Relay, NEW m \in DOMAIN messages, NEW o \in Outcome, RecordDelivery(w, m, o)
      PROVE  PublishInv'
  <2>1. PICK n \in DOMAIN rows, k \in Kind : Stage(w, [n |-> n, kind |-> k, msg |-> 0])
    BY <1>7 DEF RecordDelivery, Correlated, Kind, ReceiptKind
  <2>2. n \in Nat
    BY LenProperties DEF TypeInv, TypeOK, TablesTypeOK
  <2>3. [n |-> n, kind |-> k, msg |-> 0] \in Event
    BY <2>2 DEF Event
  <2> QED BY <1>3, <1>7, <2>1, <2>3 DEF RecordDelivery, Worker
<1>8. ASSUME NEW w \in Worker, \/ \E q \in Request : NotifySkip(w, q) \/ NotifyBegin(w, q)
                               \/ SweepBegin(w) \/ Crash(w)
      PROVE  PublishInv'
  <2>1. CASE Crash(w)
    BY <1>5, <2>1 DEF Crash
  <2>2. CASE SweepBegin(w) \/ \E q \in Request : NotifyBegin(w, q)
    <3>1. Leaves(w) /\ published' = published
      BY <1>2, <2>2 DEF SweepBegin, NotifyBegin, Goto
    <3> HIDE DEF Leaves
    <3> QED BY <1>4, <3>1
  <2>3. CASE \E q \in Request : NotifySkip(w, q)
    BY <1>1, <2>3 DEF NotifySkip, locals, PublishInv, StagedBeforePublish, PublishedIsDurable
  <2> QED BY <1>8, <2>1, <2>2, <2>3
<1>9. CASE UNCHANGED <<pc, event, published>>
  BY <1>1, <1>9 DEF PublishInv, StagedBeforePublish, PublishedIsDurable
<1>10. CASE UNCHANGED vars \/ TemplateWrite \/ \E m \in DOMAIN messages, o \in Outcome : Report(m, o)
  BY <1>9, <1>10 DEF vars, TemplateWrite, Report, locals
<1> QED BY <1>6, <1>7, <1>8, <1>10 DEF Next, Deliver, Record, Worker

(***************************************************************************)
(* The in-process sink hears only of what is committed: a crash between    *)
(* the commit and the publish loses the publish, never the event, and a    *)
(* transaction that rolls back publishes nothing.                          *)
(***************************************************************************)
THEOREM PublishedAreStaged == Spec => []PublishedIsDurable
<1>1. Init => TypeInv /\ PublishInv
  BY TypeInit DEF Init, PublishInv, StagedBeforePublish, PublishedIsDurable
<1>2. TypeInv /\ PublishInv /\ [Next]_vars => (TypeInv /\ PublishInv)'
  BY TypeStep, PublishStep
<1>3. PublishInv => PublishedIsDurable
  BY DEF PublishInv
<1> QED BY <1>1, <1>2, <1>3, PTL DEF Spec

-----------------------------------------------------------------------------
(* What notify has answered for is on record.                              *)

\* Every recipient of a request under way is on record or still to be claimed.
Claiming(w) ==
    req[w] \in Request =>
        \A i \in DOMAIN RecipientsOf[req[w]] :
            \/ Held(EventId[req[w]], Canonical(req[w], RecipientsOf[req[w]][i]))
            \/ \E j \in DOMAIN todo[w] : todo[w][j] = RecipientsOf[req[w]][i]

RecordInv == CompletedIsRecorded /\ \A w \in Worker : Claiming(w)

(***************************************************************************)
(* A slot once held stays held.                                            *)
(***************************************************************************)
LEMMA HeldStaysHeld ==
    ASSUME TypeInv, [Next]_vars, NEW e, NEW a, Held(e, a)
    PROVE  Held(e, a)'
BY RowsPersist DEF Held, SlotOf

(***************************************************************************)
(* The recipient a claim takes off the list is on record after it.         *)
(***************************************************************************)
LEMMA ClaimRecords ==
    ASSUME TypeInv, [Next]_vars, RecordInv, NEW w \in Worker,
           ClaimConflict(w) \/ ClaimInsert(w)
    PROVE  Claiming(w)'
<1>0. PICK q, r : q = req[w] /\ r = Head(todo[w])
  OBVIOUS
<1>1. q \in Request /\ req' = req /\ todo[w] \in Seq(Recipient) /\ todo[w] # <<>>
      /\ todo'[w] = Tail(todo[w])
  BY <1>0 DEF ClaimConflict, ClaimInsert, Claimable, TypeInv, TypeOK, FramesTypeOK, FramesHold, FrameHolds
<1>2. Held(EventId[q], Canonical(q, r))'
  <2>1. CASE ClaimConflict(w)
    BY <1>0, <2>1, HeldStaysHeld DEF ClaimConflict
  <2>2. CASE ClaimInsert(w)
    <3>1. PICK row : row = [req |-> q, addr |-> Canonical(q, r), body |-> tmpl[w],
                            status |-> "pending", msg |-> 0, reason |-> NoReason, deleted |-> FALSE]
      OBVIOUS
    <3>2. rows' = Append(rows, row) /\ rows \in Seq(Row)
      BY <1>0, <2>2, <3>1 DEF ClaimInsert, TypeInv, TypeOK, TablesTypeOK
    <3>3. row \in Row
      BY <1>0, <2>2, <3>1, <3>2, InsertedIsRow
    <3>4. Len(rows) + 1 \in DOMAIN rows' /\ rows'[Len(rows) + 1] = row
      BY <3>2, <3>3, AppendProperties, LenProperties
    <3> QED BY <3>1, <3>4 DEF Held, SlotOf
  <2> QED BY <2>1, <2>2
<1>3. \A j \in DOMAIN todo[w] : \/ todo[w][j] = r
                                \/ \E k \in DOMAIN todo'[w] : todo'[w][k] = todo[w][j]
  <2> SUFFICES ASSUME NEW j \in DOMAIN todo[w], j # 1
               PROVE  \E k \in DOMAIN todo'[w] : todo'[w][k] = todo[w][j]
    BY <1>0, <1>1
  <2>1. j \in 2..Len(todo[w]) /\ Len(todo[w]) \in Nat
    BY <1>1, LenProperties
  <2>2. Tail(todo[w]) \in Seq(Recipient) /\ Len(Tail(todo[w])) = Len(todo[w]) - 1
        /\ \A i \in 1..Len(Tail(todo[w])) : Tail(todo[w])[i] = todo[w][i + 1]
    BY <1>1, HeadTailProperties
  <2>3. j - 1 \in DOMAIN Tail(todo[w]) /\ Tail(todo[w])[j - 1] = todo[w][j]
    BY <2>1, <2>2, LenProperties
  <2> QED BY <1>1, <2>3
<1>4. \A i \in DOMAIN RecipientsOf[q] :
          \/ Held(EventId[q], Canonical(q, RecipientsOf[q][i]))
          \/ \E j \in DOMAIN todo[w] : todo[w][j] = RecipientsOf[q][i]
  BY <1>0, <1>1 DEF RecordInv, Claiming
<1>5. ASSUME NEW i \in DOMAIN RecipientsOf[q]
      PROVE  \/ Held(EventId[q], Canonical(q, RecipientsOf[q][i]))'
             \/ \E j \in DOMAIN todo'[w] : todo'[w][j] = RecipientsOf[q][i]
  BY <1>2, <1>3, <1>4, HeldStaysHeld
<1> QED BY <1>0, <1>1, <1>5 DEF Claiming

(***************************************************************************)
(* What can become of a caller's list of recipients.                       *)
(***************************************************************************)
LEMMA TodoSteps ==
    ASSUME TypeInv, [Next]_vars, NEW v \in Worker
    PROVE  \/ req'[v] = req[v] /\ todo'[v] = todo[v]
           \/ req'[v] = NoRequest
           \/ \E q \in Request : NotifyBegin(v, q)
           \/ ClaimConflict(v) \/ ClaimInsert(v)
<1> DEFINE Kept == req'[v] = req[v] /\ todo'[v] = todo[v]
<1> USE DEF store, gateway, broker, locals
<1>1. req \in [Worker -> Request \cup {NoRequest}] /\ todo \in [Worker -> Seq(Recipient)]
  BY DEF TypeInv, TypeOK, FramesTypeOK
<1>2. ASSUME NEW w \in Worker, Return(w) PROVE Kept \/ req'[v] = NoRequest
  BY <1>1, <1>2 DEF Return
<1>3. ASSUME NEW w \in Worker, Step(w), ~(w = v /\ (ClaimConflict(v) \/ ClaimInsert(v)))
      PROVE  Kept \/ req'[v] = NoRequest
  <2>1. CASE ClaimRefused(w) \/ NotifyEnd(w) \/ CommitRefused(w)
    <3>1. Return(w)
      BY <2>1 DEF ClaimRefused, NotifyEnd, CommitRefused
    <3> QED BY <1>2, <3>1
  <2>2. CASE ClaimConflict(w) \/ ClaimInsert(w)
    <3>1. w # v
      BY <1>3, <2>2
    <3> QED BY <1>1, <2>2, <3>1 DEF ClaimConflict, ClaimInsert
  <2>3. CASE DispatchAccepted(w) \/ DispatchRejected(w) \/ DispatchLost(w)
    BY <2>3 DEF DispatchAccepted, Send, DispatchRejected, DispatchLost, SendLost, Answered
  <2>4. CASE CommitDispatched(w) \/ CommitFailed(w)
    BY <2>4 DEF CommitDispatched, CommitFailed
  <2>5. CASE Publish(w)
    <3>1. Return(w) \/ Kept
      BY <2>5 DEF Publish
    <3> QED BY <1>2, <3>1
  <2> QED BY <1>3, <2>1, <2>2, <2>3, <2>4, <2>5 DEF Step, Proceed
<1>4. CASE ~\E w \in Worker : Step(w)
  <2>1. CASE \E w \in Worker : Crash(w)
    BY <1>2, <2>1 DEF Crash
  <2>2. CASE Record
    BY <2>2 DEF Record, RecordDelivery
  <2>3. CASE \E w \in Sweeper : SweepBegin(w)
    BY <2>3 DEF SweepBegin
  <2>4. ASSUME NEW q \in Request, NEW w \in Notifier, NotifySkip(w, q) \/ NotifyBegin(w, q)
        PROVE  Kept \/ NotifyBegin(v, q)
    BY <1>1, <2>4 DEF NotifySkip, NotifyBegin
  <2>5. CASE UNCHANGED <<req, todo>>
    BY <2>5
  <2> QED BY <1>4, <2>1, <2>2, <2>3, <2>4, <2>5 DEF Next, Deliver, vars, TemplateWrite, Report
<1> QED BY <1>3, <1>4

(***************************************************************************)
(* A request is answered only by the call that has handled its whole list. *)
(***************************************************************************)
LEMMA CompletedSteps ==
    ASSUME [Next]_vars
    PROVE  completed' = completed \/ \E w \in Worker : NotifyEnd(w)
<1> USE DEF broker
<1>1. ASSUME NEW w \in Worker, Step(w) PROVE completed' = completed \/ NotifyEnd(w)
  BY <1>1 DEF Step, Proceed, ClaimRefused, ClaimConflict, ClaimInsert, DispatchAccepted, Send, DispatchRejected,
              DispatchLost, SendLost, Answered, CommitDispatched, CommitFailed, CommitRefused, Publish
<1>2. CASE ~\E w \in Worker : Step(w)
  BY <1>2 DEF Next, vars, Deliver, NotifySkip, NotifyBegin, SweepBegin, Crash, Report,
              TemplateWrite, Record, RecordDelivery
<1> QED BY <1>1, <1>2

(***************************************************************************)
(* Whatever step is taken, no recipient falls between the list and the     *)
(* record.                                                                 *)
(***************************************************************************)
LEMMA RecordStep ==
    ASSUME TypeInv, [Next]_vars, RecordInv
    PROVE  RecordInv'
<1>1. ASSUME NEW v \in Worker PROVE Claiming(v)'
  <2>1. CASE req'[v] = req[v] /\ todo'[v] = todo[v]
    BY <2>1, HeldStaysHeld DEF RecordInv, Claiming
  <2>2. CASE req'[v] = NoRequest
    BY <2>2, RequestAssumption DEF Claiming
  <2>3. ASSUME NEW q \in Request, NotifyBegin(v, q) PROVE Claiming(v)'
    <3>1. req'[v] = q /\ todo'[v] = RecipientsOf[q]
      BY <2>3 DEF NotifyBegin, TypeInv, TypeOK, FramesTypeOK
    <3> QED BY <3>1 DEF Claiming
  <2>4. CASE ClaimConflict(v) \/ ClaimInsert(v)
    BY <2>4, ClaimRecords
  <2> QED BY <2>1, <2>2, <2>3, <2>4, TodoSteps
<1>2. ASSUME NEW q \in completed', NEW i \in DOMAIN RecipientsOf[q]
      PROVE  Held(EventId[q], Canonical(q, RecipientsOf[q][i]))'
  <2>1. CASE q \in completed
    BY <1>2, <2>1, HeldStaysHeld DEF RecordInv, CompletedIsRecorded
  <2>2. ASSUME NEW w \in Worker, NotifyEnd(w), q = req[w]
        PROVE  Held(EventId[q], Canonical(q, RecipientsOf[q][i]))'
    <3>1. q \in Request /\ todo[w] = <<>>
      BY <2>2 DEF NotifyEnd, TypeInv, FramesHold, FrameHolds
    <3>2. Held(EventId[q], Canonical(q, RecipientsOf[q][i]))
      BY <2>2, <3>1 DEF RecordInv, Claiming
    <3> QED BY <3>2, HeldStaysHeld
  <2> QED BY <1>2, <2>1, <2>2, CompletedSteps DEF NotifyEnd
<1>3. CompletedIsRecorded'
  BY <1>2 DEF CompletedIsRecorded
<1> QED BY <1>1, <1>3 DEF RecordInv

(***************************************************************************)
(* notify answers Ok only for requests all of whose recipients hold a      *)
(* notification: the broker never drops an event with a recipient still to *)
(* be claimed, whatever was refused, deduped or lost on the way.           *)
(***************************************************************************)
THEOREM CompletedAreRecorded == Spec => []CompletedIsRecorded
<1>1. Init => TypeInv /\ RecordInv
  BY TypeInit, RequestAssumption DEF Init, RecordInv, CompletedIsRecorded, Claiming
<1>2. TypeInv /\ RecordInv /\ [Next]_vars => (TypeInv /\ RecordInv)'
  BY TypeStep, RecordStep
<1>3. RecordInv => CompletedIsRecorded
  BY DEF RecordInv
<1> QED BY <1>1, <1>2, <1>3, PTL DEF Spec
=============================================================================
