----------------------- MODULE NotificationCrudProofs -----------------------
(***************************************************************************)
(* Proofs about NotificationCrud, for every set of callers, every surface  *)
(* and every bound: where no foreign write is made, the engine beside the  *)
(* generic routes is the engine NotificationWrite specifies, and all that  *)
(* is proved of that one holds of it; and what holds whatever is written.  *)
(***************************************************************************)
EXTENDS NotificationCrud, NotificationWriteProofs

\* A caller at rest has nothing in hand; notify lists no batch, and a sweep
\* serves no request.
Rested(w) ==
    /\ pc[w] = "idle" => req[w] = NoRequest /\ batch[w] = {}
    /\ pc[w] = "claim" => batch[w] = {}
    /\ req[w] # NoRequest => batch[w] = {}

\* The rows a caller holds copies of.
Keys(w) == {e.key : e \in taken[w]}

\* A caller's copies still say what the rows say, and cover what it has to do.
Faithful(w) ==
    /\ \A e \in taken[w] : e.key \in DOMAIN rows /\ e = Envelope(e.key)
    /\ pc[w] = "dispatch" => cur[w] \in Keys(w)
    /\ batch[w] \subseteq Keys(w)

Undisturbed == TypeInv /\ \A w \in Worker : Rested(w) /\ Faithful(w)

\* The inductive invariant: all of this, as long as nobody else wrote.
AloneInv == edits \in Nat /\ (edits = 0 => Undisturbed)

\* A step of the engine, whatever request it sends.
EngineStep ==
    \/ \E q \in Request : Deliver(q)
    \/ \E w \in Sweeper : SweepBegin(w)
    \/ Record
    \/ \E w \in Worker : Proceed(w) \/ Crash(w) \/ \E e : Send(w, e) \/ SendLost(w, e)
    \/ \E m \in DOMAIN messages, o \in Outcome : Report(m, o)
    \/ TemplateWrite

(***************************************************************************)
(* How a step of the engine moves a caller's frame: it leaves it alone,    *)
(* puts it at rest or back to claiming, takes rows in hand, goes on to the *)
(* next of a batch, or goes on with the row it has.                        *)
(***************************************************************************)
Moves(w) ==
    \/ pc'[w] = pc[w] /\ cur'[w] = cur[w] /\ batch'[w] = batch[w]
    \/ pc'[w] \in {"idle", "claim"} /\ batch'[w] = {}
    \/ pc[w] \in {"idle", "claim"} /\ pc'[w] = "dispatch"
    \/ /\ pc[w] = "publish" /\ pc'[w] = "dispatch"
       /\ cur'[w] \in batch[w] /\ batch'[w] \subseteq batch[w]
    \/ pc'[w] \in {"commit", "publish"} /\ batch'[w] = batch[w]

LEMMA FrameMoves ==
    ASSUME FramesTypeOK, NEW w \in Worker, Rested(w), EngineStep
    PROVE  Moves(w) /\ Rested(w)'
<1> USE DEF Moves, Rested, store, gateway, broker, locals
<1>0. FramesTypeOK
  OBVIOUS
<1>1. ASSUME UNCHANGED <<pc, locals>> PROVE Moves(w) /\ Rested(w)'
  BY <1>1
<1>2. ASSUME NEW v \in Worker, Return(v) PROVE Moves(w) /\ Rested(w)'
  BY <1>0, <1>2 DEF Return, FramesTypeOK
<1>3. ASSUME NEW v \in Worker, NEW q \in Request, NotifyBegin(v, q) PROVE Moves(w) /\ Rested(w)'
  BY <1>0, <1>3, RequestAssumption DEF NotifyBegin, Goto, FramesTypeOK
<1>4. ASSUME NEW v \in Worker, ClaimConflict(v) \/ ClaimInsert(v) PROVE Moves(w) /\ Rested(w)'
  BY <1>0, <1>4 DEF ClaimConflict, ClaimInsert, Claimable, Goto, FramesTypeOK
<1>5. ASSUME NEW v \in Worker, SweepBegin(v) PROVE Moves(w) /\ Rested(w)'
  BY <1>0, <1>5 DEF SweepBegin, Goto, FramesTypeOK
<1>6. ASSUME NEW v \in Worker, NEW m, NEW r, pc[v] = "dispatch", Answered(v, m, r)
      PROVE  Moves(w) /\ Rested(w)'
  BY <1>0, <1>6 DEF Answered, Goto, FramesTypeOK
<1>7. ASSUME NEW v \in Worker, CommitDispatched(v) \/ CommitFailed(v)
      PROVE  Moves(w) /\ Rested(w)'
  BY <1>0, <1>7 DEF CommitDispatched, CommitFailed, Stage, Goto, FramesTypeOK
<1>8. ASSUME NEW v \in Worker, NEW m, NEW o, RecordDelivery(v, m, o)
      PROVE  Moves(w) /\ Rested(w)'
  BY <1>0, <1>8 DEF RecordDelivery, Stage, Goto, FramesTypeOK
<1>9. ASSUME NEW v \in Worker, Publish(v) PROVE Moves(w) /\ Rested(w)'
  <2>1. \A S \in SUBSET Nat : S # {} => Oldest(S) \in S
    BY OldestIsMember
  <2>2. batch[v] \in SUBSET Nat
    BY <1>0 DEF FramesTypeOK
  <2>3. CASE Return(v)
    BY <1>2, <2>3
  <2>4. CASE /\ req[v] # NoRequest
             /\ Goto(v, "claim")
             /\ cur' = [cur EXCEPT ![v] = 0]
             /\ UNCHANGED <<req, tmpl, todo, batch>>
    BY <1>0, <2>4 DEF Goto, FramesTypeOK
  <2>5. CASE /\ batch[v] # {}
             /\ Goto(v, "dispatch")
             /\ cur' = [cur EXCEPT ![v] = Oldest(batch[v])]
             /\ batch' = [batch EXCEPT ![v] = @ \ {Oldest(@)}]
             /\ UNCHANGED <<req, tmpl, todo>>
    BY <1>0, <1>9, <2>1, <2>2, <2>5 DEF Publish, Goto, FramesTypeOK
  <2> QED BY <1>9, <2>3, <2>4, <2>5 DEF Publish
<1> QED
  <2>1. ASSUME NEW q \in Request, Deliver(q) PROVE Moves(w) /\ Rested(w)'
    BY <1>1, <1>3, <2>1 DEF Deliver, NotifySkip, Worker
  <2>2. ASSUME NEW v \in Sweeper, SweepBegin(v) PROVE Moves(w) /\ Rested(w)'
    BY <1>5, <2>2 DEF Worker
  <2>3. ASSUME Record PROVE Moves(w) /\ Rested(w)'
    BY <1>8, <2>3 DEF Record, Worker
  <2>4. ASSUME NEW v \in Worker, Crash(v) \/ ClaimRefused(v) \/ NotifyEnd(v) \/ CommitRefused(v)
        PROVE  Moves(w) /\ Rested(w)'
    BY <1>2, <2>4 DEF Crash, ClaimRefused, NotifyEnd, CommitRefused
  <2>5. ASSUME NEW v \in Worker, NEW e, Send(v, e) \/ SendLost(v, e) \/ DispatchRejected(v)
        PROVE  Moves(w) /\ Rested(w)'
    BY <1>6, <2>5 DEF Send, SendLost, DispatchRejected
  <2>6. ASSUME NEW v \in Worker, Proceed(v) PROVE Moves(w) /\ Rested(w)'
    BY <1>4, <1>7, <1>9, <2>4, <2>5, <2>6 DEF Proceed
  <2>7. ASSUME NEW m, NEW o, Report(m, o) PROVE Moves(w) /\ Rested(w)'
    BY <1>1, <2>7 DEF Report
  <2>8. ASSUME TemplateWrite PROVE Moves(w) /\ Rested(w)'
    BY <1>1, <2>8 DEF TemplateWrite
  <2> QED BY <2>1, <2>2, <2>3, <2>4, <2>5, <2>6, <2>7, <2>8 DEF EngineStep

-----------------------------------------------------------------------------
(***************************************************************************)
(* Where the copies are faithful, the request in hand is the envelope of   *)
(* the row, and so every step of the engine beside the routes is one of    *)
(* the engine by itself.                                                   *)
(***************************************************************************)
LEMMA EngineIsNext ==
    ASSUME Undisturbed, EngineNext
    PROVE  Next
<1>1. ASSUME NEW w \in Worker, pc[w] = "dispatch" PROVE InHand(w) = Envelope(cur[w])
  <2>1. PICK e \in taken[w] : e.key = cur[w]
    BY <1>1 DEF Undisturbed, Faithful, Keys
  <2>2. InHand(w) \in taken[w] /\ InHand(w).key = cur[w]
    BY <2>1 DEF InHand
  <2> QED BY <2>2 DEF Undisturbed, Faithful
<1>2. ASSUME NEW w \in Worker, Send(w, InHand(w)) PROVE DispatchAccepted(w)
  BY <1>1, <1>2 DEF Send, DispatchAccepted
<1>3. ASSUME NEW w \in Worker, SendLost(w, InHand(w)) PROVE DispatchLost(w)
  BY <1>1, <1>3 DEF SendLost, DispatchLost
<1> QED BY <1>2, <1>3 DEF EngineNext, Next, Step

(***************************************************************************)
(* A step of the engine keeps the copies faithful: rows keep what a copy   *)
(* says of them, and what is claimed or listed is copied.                  *)
(***************************************************************************)
LEMMA UndisturbedStep ==
    ASSUME Undisturbed, Next, Take
    PROVE  Undisturbed'
<1>1. TypeInv'
  BY TypeStep DEF Undisturbed
<1>2. \A n \in DOMAIN rows : n \in DOMAIN rows' /\ Envelope(n)' = Envelope(n)
  BY RowsPersist DEF Undisturbed, Envelope
<1>3. ASSUME NEW w \in Worker PROVE Rested(w)' /\ Faithful(w)'
  <2>1. Moves(w) /\ Rested(w)'
    <3>1. EngineStep
      BY DEF EngineStep, Next, Step, DispatchAccepted, DispatchLost
    <3> QED BY <3>1, FrameMoves DEF Undisturbed, TypeInv, TypeOK
  <2>2. Rested(w) /\ Faithful(w)
    BY DEF Undisturbed
  <2>3. /\ pc'[w] = "dispatch" => cur'[w] \in DOMAIN rows'
        /\ batch'[w] \subseteq DOMAIN rows'
    BY <1>1 DEF TypeInv, FramesHold, FrameHolds
  <2>4. taken'[w] = IF pc[w] \in {"idle", "claim"} /\ pc'[w] = "dispatch"
                      THEN {Envelope(n)' : n \in {cur'[w]} \cup batch'[w]}
                      ELSE IF pc'[w] \in {"idle", "claim"} THEN {} ELSE taken[w]
    BY DEF Take
  <2>5. \A n : Envelope(n)'.key = n
    BY DEF Envelope
  <2>6. CASE pc[w] \in {"idle", "claim"} /\ pc'[w] = "dispatch"
    <3>1. taken'[w] = {Envelope(n)' : n \in {cur'[w]} \cup batch'[w]}
      BY <2>4, <2>6
    <3>2. {cur'[w]} \cup batch'[w] \subseteq DOMAIN rows'
      BY <2>3, <2>6
    <3>3. \A e \in taken'[w] : e.key \in DOMAIN rows' /\ e = Envelope(e.key)'
      BY <2>5, <3>1, <3>2
    <3>4. {cur'[w]} \cup batch'[w] \subseteq Keys(w)'
      BY <2>5, <3>1 DEF Keys
    <3> QED BY <2>1, <3>3, <3>4 DEF Faithful
  <2>7. CASE pc'[w] \in {"idle", "claim"}
    <3>1. taken'[w] = {} /\ batch'[w] = {}
      BY <2>1, <2>2, <2>4, <2>7 DEF Moves, Rested
    <3> QED BY <2>1, <2>7, <3>1 DEF Faithful
  <2>8. CASE pc'[w] \notin {"idle", "claim"} /\ ~(pc[w] \in {"idle", "claim"} /\ pc'[w] = "dispatch")
    <3>1. taken'[w] = taken[w] /\ Keys(w)' = Keys(w)
      BY <2>4, <2>8 DEF Keys
    <3>2. \A e \in taken'[w] : e.key \in DOMAIN rows' /\ e = Envelope(e.key)'
      BY <1>2, <2>2, <3>1 DEF Faithful
    <3>3. batch'[w] \subseteq batch[w] /\ (pc'[w] = "dispatch" => cur'[w] \in Keys(w))
      BY <2>1, <2>2, <2>8 DEF Moves, Faithful
    <3> QED BY <2>1, <2>2, <3>1, <3>2, <3>3 DEF Faithful
  <2> QED BY <2>6, <2>7, <2>8
<1> QED BY <1>1, <1>3 DEF Undisturbed

(***************************************************************************)
(* The invariant is inductive: a foreign write, which takes a mounted      *)
(* route, counts itself, and a step of the engine leaves the copies        *)
(* faithful.                                                               *)
(***************************************************************************)
LEMMA AloneInit == CrudInit => AloneInv
<1> SUFFICES ASSUME CrudInit PROVE AloneInv
  OBVIOUS
<1>1. TypeInv
  BY TypeInit DEF CrudInit
<1>2. \A w \in Worker : Rested(w) /\ Faithful(w)
  BY DEF CrudInit, Init, Rested, Faithful
<1> QED BY <1>1, <1>2 DEF CrudInit, AloneInv, Undisturbed

LEMMA ForeignWritesAreMounted ==
    ASSUME CrudWrite
    PROVE  \E rs : \E route \in WriteRoutes : Edit(rs) /\ Mounted(route)
<1> USE DEF WriteRoutes
<1>1. ASSUME NEW q, NEW a, NEW b, NEW s, NEW m, NEW r, CrudCreate(q, a, b, s, m, r)
      PROVE  \E rs : \E route \in WriteRoutes : Edit(rs) /\ Mounted(route)
  BY <1>1 DEF CrudCreate
<1>2. ASSUME NEW n, NEW row, Overwrite(n, row)
      PROVE  \E rs : \E route \in WriteRoutes : Edit(rs) /\ Mounted(route)
  BY <1>2 DEF Overwrite
<1>3. ASSUME NEW n, NEW q, NEW a, NEW b, NEW s, NEW m, NEW r,
             CrudPut(n, q, a, b, s, m, r) \/ CrudPatch(n, q, a, b, s, m, r)
      PROVE  \E rs : \E route \in WriteRoutes : Edit(rs) /\ Mounted(route)
  BY <1>2, <1>3 DEF CrudPut, CrudPatch
<1>4. ASSUME NEW n, CrudDelete(n) \/ CrudRestore(n) \/ CrudPurge(n) \/ EmptyTrash
      PROVE  \E rs : \E route \in WriteRoutes : Edit(rs) /\ Mounted(route)
  BY <1>4 DEF CrudDelete, CrudRestore, CrudPurge, EmptyTrash
<1> QED BY <1>1, <1>3, <1>4 DEF CrudWrite

LEMMA ForeignWritesCount ==
    ASSUME edits \in Nat, CrudWrite \/ SeederRollback
    PROVE  edits' \in Nat \ {0}
<1>1. ASSUME NEW rs, Edit(rs) PROVE edits' \in Nat \ {0}
  BY <1>1 DEF Edit
<1>2. CASE SeederRollback
  BY <1>1, <1>2 DEF SeederRollback
<1>3. CASE CrudWrite
  <2>1. PICK rs : \E route \in WriteRoutes : Edit(rs) /\ Mounted(route)
    BY <1>3, ForeignWritesAreMounted
  <2> QED BY <1>1, <2>1
<1> QED BY <1>2, <1>3

LEMMA AloneStep ==
    ASSUME AloneInv, [CrudNext]_crudVars
    PROVE  AloneInv' /\ [edits' = 0 => Next]_crudVars
<1>1. CASE UNCHANGED crudVars
  <2>1. TypeInv => TypeInv'
    BY <1>1, TypeStep DEF crudVars
  <2>2. \A w \in Worker : (Rested(w) => Rested(w)') /\ (Faithful(w) => Faithful(w)')
    BY <1>1 DEF crudVars, crud, vars, locals, Rested, Faithful, Keys, Envelope
  <2> QED BY <1>1, <2>1, <2>2 DEF crudVars, crud, AloneInv, Undisturbed
<1>2. CASE EngineNext
  <2>1. edits' = edits /\ Take
    BY <1>2 DEF EngineNext, crud
  <2> QED BY <1>2, <2>1, EngineIsNext, UndisturbedStep DEF AloneInv
<1>3. CASE CrudWrite \/ SeederRollback
  BY <1>3, ForeignWritesCount DEF AloneInv
<1> QED BY <1>1, <1>2, <1>3 DEF CrudNext

(***************************************************************************)
(* Until the first foreign write the engine beside the generic routes is   *)
(* the engine by itself, on every surface.                                 *)
(***************************************************************************)
THEOREM AloneUntilEdited == CrudSpec => EngineAloneUntilEdited
<1>1. AloneInv /\ [CrudNext]_crudVars => AloneInv'
  BY AloneStep
<1>2. AloneInv /\ [CrudNext]_crudVars => [edits' = 0 => Next]_crudVars
  BY AloneStep
<1> QED BY <1>1, <1>2, AloneInit, PTL DEF CrudSpec, EngineAloneUntilEdited

(***************************************************************************)
(* A deployment that mounts no write route of notifications (the read-only *)
(* and the recommended surface) and rolls no seeder back is the engine by  *)
(* itself: the surface cannot bypass what the write service keeps.         *)
(***************************************************************************)
THEOREM GuardedDeploymentIsEngine ==
    Surface \in {ReadonlyRoutes, GuardedRoutes} =>
        (CrudSpec /\ [][~SeederRollback]_crudVars => Spec)
<1> SUFFICES ASSUME Surface \in {ReadonlyRoutes, GuardedRoutes}
             PROVE  CrudSpec /\ [][~SeederRollback]_crudVars => Spec
  OBVIOUS
<1>1. ~CrudWrite
  <2>1. \A route \in WriteRoutes : ~Mounted(route)
    BY DEF Mounted, ReadonlyRoutes, GuardedRoutes, ReadRoutes, WriteRoutes
  <2> QED BY <2>1, ForeignWritesAreMounted
<1> DEFINE Alone == AloneInv /\ edits = 0
<1>2. CrudInit => Alone /\ Init
  BY AloneInit DEF CrudInit
<1>3. Alone /\ [CrudNext]_crudVars /\ [~SeederRollback]_crudVars => Alone' /\ [Next]_vars
  <2> SUFFICES ASSUME Alone, [CrudNext]_crudVars, [~SeederRollback]_crudVars
               PROVE  Alone' /\ [Next]_vars
    OBVIOUS
  <2>1. AloneInv' /\ [edits' = 0 => Next]_crudVars
    BY AloneStep
  <2>2. edits' = 0
    BY <1>1 DEF CrudNext, EngineNext, crudVars, crud
  <2> QED BY <2>1, <2>2 DEF crudVars
<1> HIDE DEF Alone
<1> QED BY <1>2, <1>3, PTL DEF CrudSpec, Spec

(***************************************************************************)
(* On those surfaces, then, what the engine promises holds of the whole    *)
(* deployment.                                                             *)
(***************************************************************************)
COROLLARY GuardedDeploymentKeepsPromises ==
    Surface \in {ReadonlyRoutes, GuardedRoutes} =>
        (CrudSpec /\ [][~SeederRollback]_crudVars
           => [](NoDoubleNotify /\ OutboxCoversState /\ MessageIdCorrelates
                 /\ CompletedIsRecorded /\ PublishedIsDurable
                 /\ RepeatsAreCopies))
<1> SUFFICES ASSUME Surface \in {ReadonlyRoutes, GuardedRoutes}
             PROVE  CrudSpec /\ [][~SeederRollback]_crudVars
                      => [](NoDoubleNotify /\ OutboxCoversState /\ MessageIdCorrelates
                            /\ CompletedIsRecorded /\ PublishedIsDurable
                            /\ RepeatsAreCopies)
  OBVIOUS
<1>1. CrudSpec /\ [][~SeederRollback]_crudVars => Spec
  BY GuardedDeploymentIsEngine
<1> QED BY <1>1, NotifiedOnce, OutboxIsFaithful, MessageIdsCorrelate, CompletedAreRecorded,
           PublishedAreStaged, RepeatedAreCopies, PTL

-----------------------------------------------------------------------------
(* Where write routes are mounted: what holds of the rows, the gateway and *)
(* the callers' copies although anybody edits, trashes and purges the rows *)
(* under the running engine.                                               *)

\* What a caller holds copies of can be sent, and covers what it has to do.
CopiesHold(w) ==
    /\ \A e \in taken[w] : e \in Message /\ e.key \in DOMAIN rows
    /\ pc[w] = "dispatch" => cur[w] \in Keys(w)
    /\ batch[w] \subseteq Keys(w)

\* The tables; a row has an address until it is purged.
StoreTyped ==
    /\ rows \in Seq(CrudRow)
    /\ \A n \in DOMAIN rows : Gone(n) \/ rows[n].addr \in Address
    /\ outbox \in Seq(Event)
    /\ Table!TemplatesTypeOK
    /\ messages \in Seq(Message)

CrudTypeInv ==
    /\ StoreTyped
    /\ FramesTypeOK /\ FramesHold
    /\ \A w \in Worker : Rested(w) /\ CopiesHold(w)
    /\ touched \subseteq DOMAIN rows
    /\ given \subseteq Nat \ {0}
    /\ edits \in 0..MaxEdits

-----------------------------------------------------------------------------
(***************************************************************************)
(* The steps of notify and of a sweep that precede a dispatch keep the     *)
(* frames, over rows of any type.                                          *)
(***************************************************************************)
LEMMA FramesBegin ==
    ASSUME StoreTyped, FramesTypeOK, FramesHold, NEW w \in Worker, NEW q \in Request,
           \/ NotifySkip(w, q) \/ NotifyBegin(w, q)
           \/ ClaimConflict(w) \/ ClaimInsert(w) \/ SweepBegin(w)
    PROVE  FramesTypeOK' /\ FramesHold'
<1> USE DEF store, gateway, broker, locals
<1>1. CASE NotifySkip(w, q)
  BY <1>1 DEF NotifySkip, FramesTypeOK, FramesHold, FrameHolds
<1>2. CASE NotifyBegin(w, q)
  <2>1. PICK b \in Body : tmpl' = [tmpl EXCEPT ![w] = b]
    BY <1>2, FindActiveServesBodies DEF NotifyBegin, StoreTyped
  <2>2. RecipientsOf[q] \in Seq(Recipient)
    BY RequestAssumption
  <2>3. FramesTypeOK'
    BY <1>2, <2>1, <2>2 DEF NotifyBegin, FramesTypeOK, Goto
  <2>4. FramesHold'
    BY <1>2, <2>1 DEF NotifyBegin, FramesTypeOK, FramesHold, FrameHolds, Goto
  <2> QED BY <2>3, <2>4
<1>3. Len(rows) \in Nat /\ DOMAIN rows = 1..Len(rows)
  BY LenProperties DEF StoreTyped
<1>4. CASE ClaimConflict(w)
  <2>1. Tail(todo[w]) \in Seq(Recipient)
    BY <1>4, HeadTailProperties DEF ClaimConflict, Claimable, FramesTypeOK
  <2> QED BY <1>4, <2>1 DEF ClaimConflict, FramesTypeOK, FramesHold, FrameHolds
<1>5. CASE ClaimInsert(w)
  <2>1. Tail(todo[w]) \in Seq(Recipient)
    BY <1>5, HeadTailProperties DEF ClaimInsert, Claimable, FramesTypeOK
  <2>2. DOMAIN rows' = 1..(Len(rows) + 1)
    <3>1. PICK row : rows' = Append(rows, row)
      BY <1>5 DEF ClaimInsert
    <3>2. rows \in Seq(CrudRow \cup {row}) /\ row \in CrudRow \cup {row}
      BY SeqMonotonic DEF StoreTyped
    <3>3. Append(rows, row) \in Seq(CrudRow \cup {row}) /\ Len(Append(rows, row)) = Len(rows) + 1
      BY <3>2, AppendProperties
    <3> QED BY <3>1, <3>3, LenProperties
  <2>3. FramesTypeOK'
    BY <1>3, <1>5, <2>1 DEF ClaimInsert, FramesTypeOK, Goto
  <2>4. FramesHold'
    BY <1>3, <1>5, <2>2 DEF ClaimInsert, FramesTypeOK, FramesHold, FrameHolds, Goto
  <2> QED BY <2>3, <2>4
<1>6. CASE SweepBegin(w)
  <2>1. OldestPending(Limit) \subseteq DOMAIN rows /\ DOMAIN rows \subseteq Nat
    BY <1>3 DEF OldestPending, Pending
  <2>2. Oldest(OldestPending(Limit)) \in OldestPending(Limit)
    BY <1>6, <2>1, OldestIsMember DEF SweepBegin
  <2>3. FramesTypeOK'
    BY <1>6, <2>1, <2>2 DEF SweepBegin, FramesTypeOK, Goto
  <2>4. FramesHold'
    BY <1>6, <2>1, <2>2 DEF SweepBegin, FramesTypeOK, FramesHold, FrameHolds, Goto
  <2> QED BY <2>3, <2>4
<1> QED BY <1>1, <1>2, <1>4, <1>5, <1>6

(***************************************************************************)
(* An answer of the gateway, an event staged and a publish keep the        *)
(* frames.                                                                 *)
(***************************************************************************)
LEMMA FramesGoOn ==
    ASSUME StoreTyped, FramesTypeOK, FramesHold, NEW w \in Worker, DOMAIN rows' = DOMAIN rows,
           \/ pc[w] = "dispatch" /\ \E m \in Nat, r \in Rejection \cup {NoReason} : Answered(w, m, r)
           \/ /\ \E e \in Event : Stage(w, e)
              /\ UNCHANGED <<req, tmpl, todo, batch, cur, answer>>
           \/ Publish(w)
    PROVE  FramesTypeOK' /\ FramesHold'
<1> USE DEF store, gateway, broker, locals
<1>1. ASSUME NEW m \in Nat, NEW r \in Rejection \cup {NoReason}, Answered(w, m, r),
             pc[w] = "dispatch"
      PROVE  FramesTypeOK' /\ FramesHold'
  <2>1. [msg |-> m, reason |-> r] \in Answer
    BY DEF Answer
  <2>2. FramesTypeOK'
    BY <1>1, <2>1 DEF Answered, FramesTypeOK, Goto
  <2>3. FramesHold'
    BY <1>1 DEF Answered, FramesTypeOK, FramesHold, FrameHolds, Goto
  <2> QED BY <2>2, <2>3
<1>2. ASSUME NEW e \in Event, Stage(w, e), UNCHANGED <<req, tmpl, todo, batch, cur, answer>>
      PROVE  FramesTypeOK' /\ FramesHold'
  <2>1. FramesTypeOK'
    BY <1>2 DEF Stage, Goto, FramesTypeOK
  <2>2. FramesHold'
    BY <1>2 DEF Stage, Goto, FramesTypeOK, FramesHold, FrameHolds
  <2> QED BY <2>1, <2>2
<1>3. NoAnswer \in Answer /\ NoEvent \in Event
  BY DEF NoAnswer, Answer, NoEvent, Event, Kind
<1>4. CASE Publish(w)
  <2>1. CASE req[w] # NoRequest /\ Goto(w, "claim")
             /\ cur' = [cur EXCEPT ![w] = 0]
             /\ answer' = [answer EXCEPT ![w] = NoAnswer]
             /\ event' = [event EXCEPT ![w] = NoEvent]
             /\ UNCHANGED <<req, tmpl, todo, batch>>
    <3>1. FramesTypeOK'
      BY <1>3, <2>1 DEF FramesTypeOK, Goto
    <3>2. FramesHold'
      BY <2>1 DEF FramesTypeOK, FramesHold, FrameHolds, Goto
    <3> QED BY <3>1, <3>2
  <2>2. CASE batch[w] # {} /\ Goto(w, "dispatch")
             /\ cur' = [cur EXCEPT ![w] = Oldest(batch[w])]
             /\ batch' = [batch EXCEPT ![w] = @ \ {Oldest(@)}]
             /\ answer' = [answer EXCEPT ![w] = NoAnswer]
             /\ event' = [event EXCEPT ![w] = NoEvent]
             /\ UNCHANGED <<req, tmpl, todo>>
    <3>1. batch[w] \in SUBSET Nat
      BY DEF FramesTypeOK
    <3>2. Oldest(batch[w]) \in batch[w]
      BY <2>2, <3>1, OldestIsMember
    <3>3. FramesTypeOK'
      BY <1>3, <2>2, <3>1, <3>2 DEF FramesTypeOK, Goto
    <3>4. FramesHold'
      BY <2>2, <3>2 DEF FramesTypeOK, FramesHold, FrameHolds, Goto
    <3> QED BY <3>3, <3>4
  <2>3. CASE Return(w)
    <3>1. rows' = rows
      BY <1>4 DEF Publish
    <3> QED BY <2>3, <3>1, ReturnKeepsFrames
  <2> QED BY <1>4, <2>1, <2>2, <2>3 DEF Publish
<1> QED BY <1>1, <1>2, <1>4

-----------------------------------------------------------------------------
(* What a step of the engine can do to the store.                          *)

\* A pending row of a slot nobody holds is added.
ClaimsSlot(row) ==
    /\ row \in CrudRow /\ row.addr \in Address
    /\ row.status = "pending" /\ row.msg = 0
    /\ ~Held(EventId[row.req], row.addr)
    /\ rows' = Append(rows, row) /\ UNCHANGED outbox

\* Row n is moved on to row, which says what a caller was answered.
Onwards(n, row, e) ==
    \/ /\ rows[n].status = "pending" /\ row.status = "sent"
       /\ e.kind = "NotificationDispatched" /\ e.msg = row.msg
       /\ \E w \in Worker : /\ pc[w] = "commit" /\ cur[w] = n
                            /\ answer[w].msg = row.msg /\ row.msg # 0
    \/ /\ rows[n].status = "pending" /\ row.status = "failed" /\ row.msg = rows[n].msg
       /\ e.kind = "NotificationFailed"

\* Event e of row n is staged, and the row moved unless it is no longer pending.
Commits(n, row, e) ==
    /\ n \in DOMAIN rows /\ row \in CrudRow /\ e \in Event
    /\ rows' = [rows EXCEPT ![n] = row] /\ outbox' = Append(outbox, e)
    /\ e.n = n
    /\ row.req = rows[n].req /\ row.addr = rows[n].addr
    /\ row.body = rows[n].body /\ row.deleted = rows[n].deleted
    /\ \/ /\ rows[n].status # "pending" /\ row = rows[n]
          /\ e.kind \in {"NotificationDispatched", "NotificationFailed"}
       \/ Onwards(n, row, e)

\* The report o of message m moves every row that is sent and has its id, and
\* stages an event about one of them.
Receives(m, o, e) ==
    /\ o \in Outcome /\ m \in DOMAIN messages /\ <<m, o>> \in reports
    /\ e \in Event /\ e.n \in Correlated(m) /\ e.kind = ReceiptKind(o)
    /\ rows' = [n \in DOMAIN rows |->
                    IF n \in Correlated(m) THEN Received(rows[n], o) ELSE rows[n]]
    /\ outbox' = Append(outbox, e)

(***************************************************************************)
(* A claim that wins adds a well typed row of a slot that was free.        *)
(***************************************************************************)
LEMMA InsertClaimsSlot ==
    ASSUME CrudTypeInv, NEW w \in Worker, ClaimInsert(w)
    PROVE  \E row : ClaimsSlot(row)
<1> DEFINE a   == Canonical(req[w], Head(todo[w]))
           row == [req |-> req[w], addr |-> a, body |-> tmpl[w], status |-> "pending",
                   msg |-> 0, reason |-> NoReason, deleted |-> FALSE]
<1>1. Head(todo[w]) \in Recipient
  BY HeadTailProperties DEF ClaimInsert, Claimable, CrudTypeInv, FramesTypeOK
<1>2. req[w] \in Request /\ tmpl[w] \in Body
  BY DEF ClaimInsert, Claimable, CrudTypeInv, FramesHold, FrameHolds
<1>3. ChannelOf(req[w]) \in Channel
  BY <1>2, RequestAssumption DEF ChannelOf, Topic
<1>4. a \in Address
  BY <1>1, <1>3, AddressAssumption DEF ClaimInsert, Claimable, Canonical
<1>5. row \in CrudRow
  BY <1>2, <1>4 DEF CrudRow, CrudStatus, Status
<1>6. ClaimsSlot(row)
  BY <1>4, <1>5 DEF ClaimInsert, ClaimsSlot
<1> QED BY <1>6

(***************************************************************************)
(* Every commit stages one event about one row, and moves that row only if *)
(* it still is what the statement's guard asks.                            *)
(***************************************************************************)
LEMMA EngineCommits ==
    ASSUME CrudTypeInv, NEW w \in Worker, CommitDispatched(w) \/ CommitFailed(w)
    PROVE  \E n, row, e : Commits(n, row, e)
<1>0. \A n \in DOMAIN rows : [rows EXCEPT ![n] = rows[n]] = rows
  BY LenProperties DEF CrudTypeInv, StoreTyped
<1>1. \A n \in DOMAIN rows : n \in Nat /\ rows[n] \in CrudRow
  BY LenProperties, ElementOfSeq DEF CrudTypeInv, StoreTyped
<1>2. /\ answer[w].msg \in Nat /\ answer[w].reason \in Rejection \cup Bounce \cup {NoReason}
      /\ {"sent", "failed", "delivered", "undelivered"} \subseteq Status
  BY DEF CrudTypeInv, FramesTypeOK, Answer, Status
<1>3. ASSUME NEW e \in Event, e.n = cur[w], cur[w] \in DOMAIN rows, Stage(w, e),
             rows[cur[w]].status # "pending", rows' = rows,
             e.kind \in {"NotificationDispatched", "NotificationFailed"}
      PROVE  \E n, row, f : Commits(n, row, f)
  <2>1. Commits(cur[w], rows[cur[w]], e)
    BY <1>0, <1>1, <1>3 DEF Commits, Stage
  <2> QED BY <2>1
<1>4. CASE CommitDispatched(w)
  <2>1. cur[w] \in DOMAIN rows /\ pc[w] = "commit" /\ answer[w].msg # 0
    BY <1>4 DEF CommitDispatched, CrudTypeInv, FramesHold, FrameHolds
  <2>2. PICK e : e = [n |-> cur[w], kind |-> "NotificationDispatched", msg |-> answer[w].msg]
    OBVIOUS
  <2>3. /\ e \in Event /\ e.n = cur[w] /\ e.kind = "NotificationDispatched"
        /\ e.msg = answer[w].msg /\ Stage(w, e)
    BY <1>1, <1>2, <1>4, <2>1, <2>2 DEF CommitDispatched, Event, Kind
  <2>4. CASE rows[cur[w]].status # "pending"
    <3>1. rows' = rows
      BY <1>4, <2>4 DEF CommitDispatched, MarkSent
    <3> QED BY <1>3, <2>1, <2>3, <2>4, <3>1
  <2>5. CASE rows[cur[w]].status = "pending"
    <3>1. PICK x \in CrudRow : x = rows[cur[w]]
      BY <1>1, <2>1
    <3>2. PICK row : row = [x EXCEPT !.status = "sent", !.msg = answer[w].msg]
      OBVIOUS
    <3>3. rows' = [rows EXCEPT ![cur[w]] = row]
      BY <1>4, <2>1, <2>5, <3>1, <3>2 DEF CommitDispatched, MarkSent
    <3>4. /\ row \in CrudRow /\ row.status = "sent" /\ row.msg = answer[w].msg
          /\ row.req = x.req /\ row.addr = x.addr /\ row.body = x.body
          /\ row.deleted = x.deleted
      BY <1>2, <3>2 DEF CrudRow, CrudStatus
    <3>5. Onwards(cur[w], row, e)
      BY <2>1, <2>3, <2>5, <3>4 DEF Onwards
    <3>6. Commits(cur[w], row, e)
      BY <2>1, <2>3, <3>1, <3>3, <3>4, <3>5 DEF Commits, Stage
    <3> QED BY <3>6
  <2> QED BY <2>4, <2>5
<1>5. CASE CommitFailed(w)
  <2>1. cur[w] \in DOMAIN rows
    BY <1>5 DEF CommitFailed, CrudTypeInv, FramesHold, FrameHolds
  <2>2. PICK e : e = [n |-> cur[w], kind |-> "NotificationFailed", msg |-> 0]
    OBVIOUS
  <2>3. e \in Event /\ e.n = cur[w] /\ e.kind = "NotificationFailed" /\ Stage(w, e)
    BY <1>1, <1>5, <2>1, <2>2 DEF CommitFailed, Event, Kind
  <2>4. CASE rows[cur[w]].status # "pending"
    <3>1. rows' = rows
      BY <1>5, <2>4 DEF CommitFailed, MarkFailed
    <3> QED BY <1>3, <2>1, <2>3, <2>4, <3>1
  <2>5. CASE rows[cur[w]].status = "pending"
    <3>1. PICK x \in CrudRow : x = rows[cur[w]]
      BY <1>1, <2>1
    <3>2. PICK row : row = [x EXCEPT !.status = "failed", !.reason = answer[w].reason]
      OBVIOUS
    <3>3. rows' = [rows EXCEPT ![cur[w]] = row]
      BY <1>5, <2>1, <2>5, <3>1, <3>2 DEF CommitFailed, MarkFailed
    <3>4. /\ row \in CrudRow /\ row.status = "failed" /\ row.msg = x.msg
          /\ row.req = x.req /\ row.addr = x.addr /\ row.body = x.body
          /\ row.deleted = x.deleted
      BY <1>2, <3>2 DEF CrudRow, CrudStatus
    <3>5. Onwards(cur[w], row, e)
      BY <2>3, <2>5, <3>1, <3>4 DEF Onwards
    <3>6. Commits(cur[w], row, e)
      BY <2>1, <2>3, <3>1, <3>3, <3>4, <3>5 DEF Commits, Stage
    <3> QED BY <3>6
  <2> QED BY <2>4, <2>5
<1> QED BY <1>4, <1>5

(***************************************************************************)
(* A receipt moves the rows of its message, one or more, and announces one *)
(* of them.                                                                *)
(***************************************************************************)
LEMMA EngineReceives ==
    ASSUME CrudTypeInv, NEW w \in Worker, NEW m \in DOMAIN messages, NEW o \in Outcome,
           RecordDelivery(w, m, o)
    PROVE  \E e : Receives(m, o, e)
<1>1. PICK n \in Correlated(m) : Stage(w, [n |-> n, kind |-> ReceiptKind(o), msg |-> 0])
  BY DEF RecordDelivery
<1>2. n \in Nat
  BY LenProperties DEF Correlated, CrudTypeInv, StoreTyped
<1>3. PICK e : e = [n |-> n, kind |-> ReceiptKind(o), msg |-> 0]
  OBVIOUS
<1>4. e \in Event /\ e.n = n /\ e.kind = ReceiptKind(o) /\ Stage(w, e)
  BY <1>1, <1>2, <1>3 DEF Event, Kind, ReceiptKind
<1>5. Receives(m, o, e)
  BY <1>4 DEF RecordDelivery, Receives, Stage
<1> QED BY <1>5

(***************************************************************************)
(* A step of the engine leaves the store alone, claims a slot, commits or  *)
(* receives a receipt.                                                     *)
(***************************************************************************)
LEMMA EngineStores ==
    ASSUME CrudTypeInv, EngineStep
    PROVE  \/ UNCHANGED store
           \/ \E row : ClaimsSlot(row)
           \/ \E n, row, e : Commits(n, row, e) /\ UNCHANGED gateway
           \/ \E m, o, e : Receives(m, o, e) /\ UNCHANGED gateway
<1> USE DEF store, gateway
<1>1. ASSUME NEW w \in Worker, Proceed(w)
      PROVE  \/ UNCHANGED store
             \/ ClaimInsert(w)
             \/ (CommitDispatched(w) \/ CommitFailed(w)) /\ UNCHANGED gateway
  BY <1>1 DEF Proceed, ClaimRefused, ClaimConflict, NotifyEnd, DispatchRejected, Answered,
              CommitRefused, CommitDispatched, CommitFailed, Publish
<1>2. ASSUME NEW w \in Worker, NEW e, Send(w, e) \/ SendLost(w, e) PROVE UNCHANGED store
  BY <1>2 DEF Send, SendLost, Answered
<1>3. CASE Record
  <2>1. PICK w \in Worker, m \in DOMAIN messages, o \in Outcome : RecordDelivery(w, m, o)
    BY <1>3 DEF Record, Worker
  <2>2. UNCHANGED gateway
    BY <2>1 DEF RecordDelivery
  <2> QED BY <2>1, <2>2, EngineReceives
<1>4. CASE \/ \E q \in Request : Deliver(q)
           \/ \E w \in Sweeper : SweepBegin(w)
           \/ \E w \in Worker : Crash(w)
           \/ \E m \in DOMAIN messages, o \in Outcome : Report(m, o)
           \/ TemplateWrite
  BY <1>4 DEF Deliver, NotifySkip, NotifyBegin, SweepBegin, Crash, Report, TemplateWrite
<1> QED BY <1>1, <1>2, <1>3, <1>4, InsertClaimsSlot, EngineCommits DEF EngineStep

(***************************************************************************)
(* The request in hand is one of the copies the caller took.               *)
(***************************************************************************)
LEMMA InHandIsTaken ==
    ASSUME NEW w \in Worker, CopiesHold(w), pc[w] = "dispatch"
    PROVE  InHand(w) \in taken[w] /\ InHand(w).key = cur[w] /\ InHand(w) \in Message
<1>1. PICK e \in taken[w] : e.key = cur[w]
  BY DEF CopiesHold, Keys
<1> QED BY <1>1 DEF InHand, CopiesHold

(***************************************************************************)
(* The gateway's log changes only by a dispatch of a copy in hand, and on  *)
(* a keyed channel only when no message has that key.                      *)
(***************************************************************************)
LEMMA EngineSends ==
    ASSUME CrudTypeInv, EngineNext
    PROVE  /\ EngineStep
           /\ \/ UNCHANGED messages
              \/ \E w \in Worker :
                    /\ pc[w] = "dispatch" /\ UNCHANGED store
                    /\ Known(InHand(w)) = {}
                    /\ messages' = Append(messages, InHand(w))
<1> USE DEF gateway
<1>1. EngineStep
  BY DEF EngineNext, EngineStep
<1>2. ASSUME NEW w \in Worker, Proceed(w) \/ Crash(w) PROVE UNCHANGED messages
  BY <1>2 DEF Proceed, ClaimRefused, ClaimConflict, ClaimInsert, NotifyEnd, DispatchRejected,
              CommitDispatched, CommitFailed, CommitRefused, Publish, Crash
<1>3. ASSUME NEW w \in Worker, Send(w, InHand(w)) \/ SendLost(w, InHand(w))
      PROVE  \/ UNCHANGED messages
             \/ /\ pc[w] = "dispatch" /\ UNCHANGED store
                /\ Known(InHand(w)) = {}
                /\ messages' = Append(messages, InHand(w))
  BY <1>3 DEF Send, SendLost, Answered, Accept
<1>4. ASSUME \/ \E q \in Request : Deliver(q)
             \/ \E w \in Sweeper : SweepBegin(w)
             \/ Record
             \/ \E m \in DOMAIN messages, o \in Outcome : Report(m, o)
             \/ TemplateWrite
      PROVE  UNCHANGED messages
  BY <1>4 DEF Deliver, NotifySkip, NotifyBegin, SweepBegin, Record, RecordDelivery, Report,
              TemplateWrite
<1> QED BY <1>1, <1>2, <1>3, <1>4 DEF EngineNext

-----------------------------------------------------------------------------
(* Appending to the tables.                                                *)

(***************************************************************************)
(* A claim adds one row and leaves the others; a commit changes one.       *)
(***************************************************************************)
LEMMA ClaimAppends ==
    ASSUME StoreTyped, NEW row, row \in CrudRow, rows' = Append(rows, row)
    PROVE  /\ rows' \in Seq(CrudRow)
           /\ Len(rows) \in Nat /\ Len(rows) + 1 \notin DOMAIN rows
           /\ DOMAIN rows' = DOMAIN rows \cup {Len(rows) + 1}
           /\ rows'[Len(rows) + 1] = row
           /\ \A n \in DOMAIN rows : rows'[n] = rows[n]
<1>1. rows \in Seq(CrudRow)
  BY DEF StoreTyped
<1>2. /\ Append(rows, row) \in Seq(CrudRow) /\ Len(Append(rows, row)) = Len(rows) + 1
      /\ Append(rows, row)[Len(rows) + 1] = row
      /\ \A n \in 1..Len(rows) : Append(rows, row)[n] = rows[n]
  BY <1>1, AppendProperties
<1>3. Len(rows) \in Nat /\ DOMAIN rows = 1..Len(rows)
  BY <1>1, LenProperties
<1>4. DOMAIN Append(rows, row) = 1..(Len(rows) + 1)
  BY <1>2, LenProperties
<1> QED BY <1>2, <1>3, <1>4

LEMMA CommitChanges ==
    ASSUME StoreTyped, NEW n, NEW row, NEW e, Commits(n, row, e)
    PROVE  /\ rows' \in Seq(CrudRow) /\ DOMAIN rows' = DOMAIN rows
           /\ rows'[n] = row
           /\ \A k \in DOMAIN rows : k # n => rows'[k] = rows[k]
           /\ outbox' \in Seq(Event)
           /\ Len(outbox) \in Nat /\ Len(outbox') = Len(outbox) + 1
           /\ DOMAIN outbox' = DOMAIN outbox \cup {Len(outbox) + 1}
           /\ outbox'[Len(outbox) + 1] = e
           /\ \A i \in DOMAIN outbox : outbox'[i] = outbox[i]
<1>1. rows \in Seq(CrudRow) /\ outbox \in Seq(Event)
  BY DEF StoreTyped
<1>2. DOMAIN rows = 1..Len(rows)
  BY <1>1, LenProperties
<1>3. n \in DOMAIN rows /\ row \in CrudRow /\ rows' = [rows EXCEPT ![n] = row]
      /\ e \in Event /\ outbox' = Append(outbox, e)
  BY DEF Commits
<1>4. rows' \in Seq(CrudRow)
  BY <1>1, <1>2, <1>3, ExceptSeq
<1>5. /\ Append(outbox, e) \in Seq(Event) /\ Len(Append(outbox, e)) = Len(outbox) + 1
      /\ Append(outbox, e)[Len(outbox) + 1] = e
      /\ \A i \in 1..Len(outbox) : Append(outbox, e)[i] = outbox[i]
  BY <1>1, <1>3, AppendProperties
<1>6. Len(outbox) \in Nat /\ DOMAIN outbox = 1..Len(outbox)
  BY <1>1, LenProperties
<1>7. DOMAIN Append(outbox, e) = 1..(Len(outbox) + 1)
  BY <1>5, LenProperties
<1>8. DOMAIN rows' = DOMAIN rows /\ rows'[n] = row
      /\ \A k \in DOMAIN rows : k # n => rows'[k] = rows[k]
  BY <1>3
<1> QED BY <1>3, <1>4, <1>5, <1>6, <1>7, <1>8

(***************************************************************************)
(* A receipt changes neither the address, the text nor the message id of a *)
(* row, and of the rows it does not match nothing.                         *)
(***************************************************************************)
LEMMA ReceivedKeeps ==
    ASSUME NEW old \in CrudRow, NEW o \in Outcome, NEW row, row = Received(old, o)
    PROVE  /\ row \in CrudRow
           /\ row.req = old.req /\ row.addr = old.addr /\ row.body = old.body
           /\ row.msg = old.msg /\ row.deleted = old.deleted
           /\ o = "delivered" => row.status = "delivered"
           /\ o # "delivered" => row.status = "undelivered" /\ row.reason = o
<1>1. CASE o = "delivered"
  <2>1. row = [old EXCEPT !.status = "delivered"]
    BY <1>1 DEF Received
  <2> QED BY <1>1, <2>1 DEF CrudRow, CrudStatus, Status
<1>2. CASE o # "delivered"
  <2>1. row = [old EXCEPT !.status = "undelivered", !.reason = o] /\ o \in Bounce
    BY <1>2 DEF Received, Outcome
  <2> QED BY <1>2, <2>1 DEF CrudRow, CrudStatus, Status
<1> QED BY <1>1, <1>2

LEMMA ReceiptChanges ==
    ASSUME StoreTyped, NEW m, NEW o, NEW e, Receives(m, o, e)
    PROVE  /\ rows' \in Seq(CrudRow) /\ DOMAIN rows' = DOMAIN rows
           /\ \A n \in Correlated(m) :
                 /\ n \in DOMAIN rows /\ rows[n].status = "sent" /\ rows[n].msg = m
                 /\ rows'[n].msg = m /\ rows'[n].deleted = rows[n].deleted
                 /\ o = "delivered" => rows'[n].status = "delivered"
                 /\ o # "delivered" => rows'[n].status = "undelivered" /\ rows'[n].reason = o
           /\ \A n \in DOMAIN rows \ Correlated(m) : rows'[n] = rows[n]
           /\ \A n \in DOMAIN rows :
                 /\ rows'[n].req = rows[n].req /\ rows'[n].addr = rows[n].addr
                 /\ rows'[n].body = rows[n].body
                 /\ rows'[n].status = "gone" <=> rows[n].status = "gone"
           /\ outbox' \in Seq(Event)
           /\ Len(outbox) \in Nat /\ Len(outbox') = Len(outbox) + 1
           /\ DOMAIN outbox' = DOMAIN outbox \cup {Len(outbox) + 1}
           /\ outbox'[Len(outbox) + 1] = e
           /\ \A i \in DOMAIN outbox : outbox'[i] = outbox[i]
<1>1. /\ rows \in Seq(CrudRow) /\ DOMAIN rows = 1..Len(rows) /\ Len(rows) \in Nat
      /\ \A n \in DOMAIN rows : rows[n] \in CrudRow
  BY LenProperties, ElementOfSeq DEF StoreTyped
<1>2. /\ DOMAIN rows' = DOMAIN rows
      /\ \A n \in Correlated(m) : n \in DOMAIN rows /\ rows[n].status = "sent" /\ rows[n].msg = m
                                 /\ rows'[n] = Received(rows[n], o)
      /\ \A n \in DOMAIN rows \ Correlated(m) : rows'[n] = rows[n]
  BY DEF Receives, Correlated
<1>3. ASSUME NEW n \in Correlated(m)
      PROVE  /\ rows'[n] \in CrudRow
             /\ rows'[n].msg = m /\ rows'[n].deleted = rows[n].deleted
             /\ rows'[n].req = rows[n].req /\ rows'[n].addr = rows[n].addr
             /\ rows'[n].body = rows[n].body /\ rows'[n].status # "gone"
             /\ o = "delivered" => rows'[n].status = "delivered"
             /\ o # "delivered" => rows'[n].status = "undelivered" /\ rows'[n].reason = o
  <2>1. o \in Outcome /\ rows[n] \in CrudRow /\ rows[n].msg = m
    BY <1>1, <1>2, <1>3 DEF Receives
  <2>2. PICK row : row = rows'[n] /\ row = Received(rows[n], o)
    BY <1>2, <1>3
  <2>3. /\ row \in CrudRow
        /\ row.req = rows[n].req /\ row.addr = rows[n].addr /\ row.body = rows[n].body
        /\ row.msg = rows[n].msg /\ row.deleted = rows[n].deleted
        /\ o = "delivered" => row.status = "delivered"
        /\ o # "delivered" => row.status = "undelivered" /\ row.reason = o
    BY <2>1, <2>2, ReceivedKeeps
  <2> QED BY <2>1, <2>2, <2>3
<1>4. rows' \in Seq(CrudRow)
  <2>1. \A n \in 1..Len(rows) : rows'[n] \in CrudRow
    BY <1>1, <1>2, <1>3
  <2>2. rows' = [n \in 1..Len(rows) |-> rows'[n]]
    BY <1>1, <1>2 DEF Receives
  <2> QED BY <1>1, <2>1, <2>2, SeqDef
<1>5. /\ outbox' \in Seq(Event)
      /\ Len(outbox) \in Nat /\ Len(outbox') = Len(outbox) + 1
      /\ DOMAIN outbox' = DOMAIN outbox \cup {Len(outbox) + 1}
      /\ outbox'[Len(outbox) + 1] = e
      /\ \A i \in DOMAIN outbox : outbox'[i] = outbox[i]
  <2>1. outbox \in Seq(Event) /\ e \in Event /\ outbox' = Append(outbox, e)
    BY DEF StoreTyped, Receives
  <2>2. /\ outbox' \in Seq(Event) /\ Len(outbox') = Len(outbox) + 1
        /\ outbox'[Len(outbox) + 1] = e
        /\ \A i \in 1..Len(outbox) : outbox'[i] = outbox[i]
    BY <2>1, AppendProperties
  <2>3. Len(outbox) \in Nat /\ DOMAIN outbox = 1..Len(outbox) /\ DOMAIN outbox' = 1..(Len(outbox) + 1)
    BY <2>1, <2>2, LenProperties
  <2> QED BY <2>2, <2>3
<1>6. \A n \in DOMAIN rows :
         /\ rows'[n].req = rows[n].req /\ rows'[n].addr = rows[n].addr
         /\ rows'[n].body = rows[n].body
         /\ rows'[n].status = "gone" <=> rows[n].status = "gone"
  BY <1>2, <1>3
<1> QED BY <1>2, <1>3, <1>4, <1>5, <1>6

(***************************************************************************)
(* A message sent goes behind those the gateway has.                       *)
(***************************************************************************)
LEMMA SendAppends ==
    ASSUME StoreTyped, NEW e \in Message, messages' = Append(messages, e)
    PROVE  /\ messages' \in Seq(Message)
           /\ Len(messages) \in Nat /\ Len(messages) + 1 \notin DOMAIN messages
           /\ DOMAIN messages' = DOMAIN messages \cup {Len(messages) + 1}
           /\ messages'[Len(messages) + 1] = e
           /\ \A m \in DOMAIN messages : messages'[m] = messages[m]
<1>1. messages \in Seq(Message)
  BY DEF StoreTyped
<1>2. /\ Append(messages, e) \in Seq(Message) /\ Len(Append(messages, e)) = Len(messages) + 1
      /\ Append(messages, e)[Len(messages) + 1] = e
      /\ \A m \in 1..Len(messages) : Append(messages, e)[m] = messages[m]
  BY <1>1, AppendProperties
<1>3. Len(messages) \in Nat /\ DOMAIN messages = 1..Len(messages)
  BY <1>1, LenProperties
<1>4. DOMAIN Append(messages, e) = 1..(Len(messages) + 1)
  BY <1>2, LenProperties
<1> QED BY <1>2, <1>3, <1>4

(***************************************************************************)
(* A step of the engine keeps the tables well typed.                       *)
(***************************************************************************)
LEMMA EngineKeepsStore ==
    ASSUME CrudTypeInv, EngineNext
    PROVE  StoreTyped' /\ DOMAIN rows \subseteq DOMAIN rows'
<1>0. StoreTyped
  BY DEF CrudTypeInv
<1>1. /\ rows' \in Seq(CrudRow) /\ outbox' \in Seq(Event)
      /\ DOMAIN rows \subseteq DOMAIN rows'
      /\ \A n \in DOMAIN rows' : rows'[n].status = "gone" \/ rows'[n].addr \in Address
  <2>1. CASE UNCHANGED store
    BY <1>0, <2>1 DEF store, StoreTyped, Gone
  <2>2. ASSUME NEW row, ClaimsSlot(row)
        PROVE  /\ rows' \in Seq(CrudRow) /\ outbox' \in Seq(Event)
               /\ DOMAIN rows \subseteq DOMAIN rows'
               /\ \A n \in DOMAIN rows' : rows'[n].status = "gone" \/ rows'[n].addr \in Address
    <3>1. row \in CrudRow /\ row.addr \in Address /\ rows' = Append(rows, row) /\ outbox' = outbox
      BY <2>2 DEF ClaimsSlot
    <3> QED BY <1>0, <3>1, ClaimAppends DEF StoreTyped, Gone
  <2>3. ASSUME NEW n, NEW row, NEW e, Commits(n, row, e)
        PROVE  /\ rows' \in Seq(CrudRow) /\ outbox' \in Seq(Event)
               /\ DOMAIN rows \subseteq DOMAIN rows'
               /\ \A k \in DOMAIN rows' : rows'[k].status = "gone" \/ rows'[k].addr \in Address
    <3>1. /\ rows' \in Seq(CrudRow) /\ DOMAIN rows' = DOMAIN rows /\ rows'[n] = row
          /\ \A k \in DOMAIN rows : k # n => rows'[k] = rows[k]
          /\ outbox' \in Seq(Event)
      BY <1>0, <2>3, CommitChanges
    <3>2. row.addr = rows[n].addr /\ (row.status = rows[n].status \/ rows[n].status # "gone")
          /\ n \in DOMAIN rows
      BY <2>3 DEF Commits, Onwards
    <3> QED BY <1>0, <3>1, <3>2 DEF StoreTyped, Gone
  <2>4. ASSUME NEW m, NEW o, NEW e, Receives(m, o, e)
        PROVE  /\ rows' \in Seq(CrudRow) /\ outbox' \in Seq(Event)
               /\ DOMAIN rows \subseteq DOMAIN rows'
               /\ \A k \in DOMAIN rows' : rows'[k].status = "gone" \/ rows'[k].addr \in Address
    BY <1>0, <2>4, ReceiptChanges DEF StoreTyped, Gone
  <2> QED BY <2>1, <2>2, <2>3, <2>4, EngineSends, EngineStores
<1>2. messages' \in Seq(Message)
  <2>1. ASSUME NEW w \in Worker, pc[w] = "dispatch", messages' = Append(messages, InHand(w))
        PROVE  messages' \in Seq(Message)
    <3>1. InHand(w) \in Message
      BY <2>1, InHandIsTaken DEF CrudTypeInv
    <3> QED BY <1>0, <2>1, <3>1, SendAppends
  <2> QED BY <1>0, <2>1, EngineSends DEF StoreTyped
<1>3. Table!TemplatesTypeOK'
  <2>1. CASE TemplateWrite
    BY <1>0, <2>1, TemplatesStayTyped DEF TemplateWrite, StoreTyped
  <2>2. CASE UNCHANGED <<templates, writes>>
    BY <1>0, <2>2 DEF StoreTyped, Table!TemplatesTypeOK
  <2>3. TemplateWrite \/ UNCHANGED <<templates, writes>>
    <3>1. ASSUME NEW w \in Worker, Proceed(w) \/ Crash(w) PROVE UNCHANGED <<templates, writes>>
      BY <3>1 DEF Proceed, ClaimRefused, ClaimConflict, ClaimInsert, NotifyEnd, DispatchRejected,
                  Answered, CommitDispatched, CommitFailed, CommitRefused, Publish, Crash
    <3>2. ASSUME NEW w \in Worker, NEW e, Send(w, e) \/ SendLost(w, e)
          PROVE  UNCHANGED <<templates, writes>>
      BY <3>2 DEF Send, SendLost, Answered
    <3>3. CASE \/ \E q \in Request : Deliver(q)
               \/ \E w \in Sweeper : SweepBegin(w)
               \/ Record
               \/ \E m \in DOMAIN messages, o \in Outcome : Report(m, o)
      BY <3>3 DEF Deliver, NotifySkip, NotifyBegin, SweepBegin, Record, RecordDelivery, Report
    <3> QED BY <3>1, <3>2, <3>3 DEF EngineNext
  <2> QED BY <2>1, <2>2, <2>3
<1> QED BY <1>1, <1>2, <1>3 DEF StoreTyped, Gone

-----------------------------------------------------------------------------
(* What a step of the engine can do to the callers.                        *)

(***************************************************************************)
(* A step of the engine keeps the frames.                                  *)
(***************************************************************************)
LEMMA EngineKeepsFrames ==
    ASSUME CrudTypeInv, EngineNext
    PROVE  FramesTypeOK' /\ FramesHold'
<1> USE DEF store, gateway, broker, locals
<1>0. StoreTyped /\ FramesTypeOK /\ FramesHold
  BY DEF CrudTypeInv
<1>1. Notifier \subseteq Worker /\ Sweeper \subseteq Worker /\ Relay \subseteq Worker
  BY DEF Worker
<1>2. ASSUME NEW q \in Request, Deliver(q) PROVE FramesTypeOK' /\ FramesHold'
  BY <1>0, <1>1, <1>2, FramesBegin DEF Deliver
<1>3. ASSUME NEW w \in Worker, ClaimConflict(w) \/ ClaimInsert(w) \/ SweepBegin(w)
      PROVE  FramesTypeOK' /\ FramesHold'
  <2>1. CASE Request # {}
    <3>1. PICK q : q \in Request
      BY <2>1
    <3> QED BY <1>0, <1>3, <3>1, FramesBegin
  <2>2. CASE Request = {}
    <3>1. SweepBegin(w)
      BY <1>0, <1>3, <2>2 DEF ClaimConflict, ClaimInsert, Claimable, FramesHold, FrameHolds
    <3>2. \A n \in DOMAIN rows : rows[n].req \in Request
      <4>1. \A n \in DOMAIN rows : rows[n] \in CrudRow
        BY <1>0, LenProperties, ElementOfSeq DEF StoreTyped
      <4> QED BY <4>1 DEF CrudRow
    <3> QED BY <2>2, <3>1, <3>2 DEF SweepBegin, OldestPending, Pending
  <2> QED BY <2>1, <2>2
<1>4. ASSUME NEW w \in Worker,
             Crash(w) \/ ClaimRefused(w) \/ NotifyEnd(w) \/ CommitRefused(w)
      PROVE  FramesTypeOK' /\ FramesHold'
  BY <1>0, <1>4, ReturnKeepsFrames DEF Crash, ClaimRefused, NotifyEnd, CommitRefused
<1>5. ASSUME NEW w \in Worker,
             DispatchRejected(w) \/ Send(w, InHand(w)) \/ SendLost(w, InHand(w))
      PROVE  FramesTypeOK' /\ FramesHold'
  <2>1. Len(messages) \in Nat
    BY <1>0, LenProperties DEF StoreTyped
  <2>2. \A m \in 1..(Len(messages) + 1) : m \in Nat
    BY <2>1
  <2>3. PICK m \in Nat, r \in Rejection \cup {NoReason} : Answered(w, m, r)
    BY <1>5, <2>2 DEF DispatchRejected, Send, SendLost
  <2>4. rows' = rows /\ pc[w] = "dispatch"
    BY <1>5, <2>3 DEF DispatchRejected, Send, SendLost, Answered
  <2> QED BY <1>0, <2>3, <2>4, FramesGoOn
<1>6. ASSUME NEW w \in Worker, CommitDispatched(w) \/ CommitFailed(w) \/ Record
      PROVE  FramesTypeOK' /\ FramesHold'
  <2>1. /\ answer[w].msg \in Nat /\ cur[w] \in Nat /\ 0 \in Nat
        /\ \A n \in DOMAIN rows : n \in Nat
    BY <1>0, LenProperties DEF FramesTypeOK, Answer, StoreTyped
  <2>2. PICK v \in Worker : \E e \in Event :
          Stage(v, e) /\ UNCHANGED <<req, tmpl, todo, batch, cur, answer>>
    <3>1. CASE CommitDispatched(w)
      <4>1. [n |-> cur[w], kind |-> "NotificationDispatched", msg |-> answer[w].msg] \in Event
        BY <2>1 DEF Event, Kind
      <4> QED BY <3>1, <4>1 DEF CommitDispatched
    <3>2. CASE CommitFailed(w)
      <4>1. [n |-> cur[w], kind |-> "NotificationFailed", msg |-> 0] \in Event
        BY <2>1 DEF Event, Kind
      <4> QED BY <3>2, <4>1 DEF CommitFailed
    <3>3. CASE Record
      <4>1. \A n \in DOMAIN rows, k \in Kind : [n |-> n, kind |-> k, msg |-> 0] \in Event
        BY <2>1 DEF Event
      <4>2. PICK v \in Relay, m \in DOMAIN messages, o \in Outcome : RecordDelivery(v, m, o)
        BY <3>3 DEF Record
      <4>3. PICK n \in Correlated(m), k \in Kind : Stage(v, [n |-> n, kind |-> k, msg |-> 0])
        BY <4>2 DEF RecordDelivery, Kind, ReceiptKind
      <4>4. n \in DOMAIN rows
        BY <4>3 DEF Correlated
      <4>5. UNCHANGED <<req, tmpl, todo, batch, cur, answer>>
        BY <4>2 DEF RecordDelivery
      <4> QED BY <1>1, <4>1, <4>3, <4>4, <4>5
    <3> QED BY <1>6, <3>1, <3>2, <3>3
  <2>3. DOMAIN rows' = DOMAIN rows
    <3>1. CASE CommitDispatched(w)
      BY <3>1 DEF CommitDispatched, MarkSent
    <3>2. CASE CommitFailed(w)
      BY <3>2 DEF CommitFailed, MarkFailed
    <3>3. CASE Record
      BY <3>3 DEF Record, RecordDelivery
    <3> QED BY <1>6, <3>1, <3>2, <3>3
  <2> QED BY <1>0, <2>2, <2>3, FramesGoOn
<1>7. ASSUME NEW w \in Worker, Publish(w) PROVE FramesTypeOK' /\ FramesHold'
  <2>1. DOMAIN rows' = DOMAIN rows
    BY <1>7 DEF Publish
  <2> QED BY <1>0, <1>7, <2>1, FramesGoOn
<1>8. CASE TemplateWrite \/ \E m \in DOMAIN messages, o \in Outcome : Report(m, o)
  BY <1>0, <1>8 DEF TemplateWrite, Report, FramesTypeOK, FramesHold, FrameHolds
<1>9. ASSUME NEW w \in Worker, Proceed(w) PROVE FramesTypeOK' /\ FramesHold'
  BY <1>3, <1>4, <1>5, <1>6, <1>7, <1>9 DEF Proceed
<1>10. CASE Record
  <2>1. PICK w \in Worker : TRUE
    BY <1>1, <1>10 DEF Record
  <2> QED BY <1>6, <1>10
<1> QED BY <1>1, <1>2, <1>3, <1>4, <1>5, <1>8, <1>9, <1>10 DEF EngineNext

(***************************************************************************)
(* A caller that comes to a dispatch has just claimed or listed rows that  *)
(* are pending.                                                            *)
(***************************************************************************)
LEMMA TakenArePending ==
    ASSUME CrudTypeInv, EngineStep, NEW w \in Worker,
           pc[w] \in {"idle", "claim"}, pc'[w] = "dispatch"
    PROVE  \A n \in {cur'[w]} \cup batch'[w] :
               n \in DOMAIN rows' /\ rows'[n].status = "pending"
<1> USE DEF store, gateway, broker, locals
<1>0. StoreTyped /\ FramesTypeOK
  BY DEF CrudTypeInv
<1>1. ClaimInsert(w) \/ SweepBegin(w)
  <2>1. ASSUME NEW v \in Worker, Proceed(v) \/ Crash(v), ~ClaimInsert(v) PROVE v = w => FALSE
    BY <1>0, <2>1 DEF Proceed, ClaimRefused, ClaimConflict, NotifyEnd, DispatchRejected,
         Answered, CommitDispatched, CommitFailed, CommitRefused, Publish, Crash, Return,
         Claimable, Stage, Goto, FramesTypeOK
  <2>2. ASSUME NEW v \in Worker, Proceed(v) \/ Crash(v), v # w PROVE FALSE
    BY <1>0, <2>2 DEF Proceed, ClaimRefused, ClaimConflict, ClaimInsert, NotifyEnd,
         DispatchRejected, Answered, CommitDispatched, CommitFailed, CommitRefused, Publish,
         Crash, Return, Claimable, Stage, Goto, FramesTypeOK
  <2>3. ASSUME NEW v \in Worker, NEW e, Send(v, e) \/ SendLost(v, e) PROVE FALSE
    BY <1>0, <2>3 DEF Send, SendLost, Answered, Goto, FramesTypeOK
  <2>4. CASE Record
    BY <1>0, <2>4 DEF Record, RecordDelivery, Stage, Goto, FramesTypeOK
  <2>5. ASSUME NEW q \in Request, Deliver(q) PROVE FALSE
    BY <1>0, <2>5 DEF Deliver, NotifySkip, NotifyBegin, Goto, FramesTypeOK
  <2>6. CASE TemplateWrite \/ \E m \in DOMAIN messages, o \in Outcome : Report(m, o)
    BY <1>0, <2>6 DEF TemplateWrite, Report, FramesTypeOK
  <2>7. ASSUME NEW v \in Sweeper, SweepBegin(v) PROVE v = w
    BY <1>0, <2>7 DEF SweepBegin, Goto, FramesTypeOK
  <2> QED BY <2>1, <2>2, <2>3, <2>4, <2>5, <2>6, <2>7 DEF EngineStep
<1>2. CASE ClaimInsert(w)
  <2>1. PICK row : ClaimsSlot(row)
    BY <1>2, InsertClaimsSlot
  <2>2. /\ Len(rows) + 1 \in DOMAIN rows' /\ rows'[Len(rows) + 1] = row
    BY <1>0, <2>1, ClaimAppends DEF ClaimsSlot
  <2>3. cur'[w] = Len(rows) + 1 /\ batch'[w] = batch[w]
    BY <1>0, <1>2 DEF ClaimInsert, FramesTypeOK
  <2>4. batch[w] = {}
    BY <1>2 DEF ClaimInsert, Claimable, CrudTypeInv, Rested
  <2> QED BY <2>1, <2>2, <2>3, <2>4 DEF ClaimsSlot
<1>3. CASE SweepBegin(w)
  <2>1. /\ OldestPending(Limit) \in SUBSET Nat
        /\ \A n \in OldestPending(Limit) : n \in DOMAIN rows /\ rows[n].status = "pending"
    BY <1>0, LenProperties DEF OldestPending, Pending, StoreTyped
  <2>2. Oldest(OldestPending(Limit)) \in OldestPending(Limit)
    BY <1>3, <2>1, OldestIsMember DEF SweepBegin
  <2>3. /\ cur'[w] \in OldestPending(Limit) /\ batch'[w] \subseteq OldestPending(Limit)
        /\ rows' = rows
    BY <1>0, <1>3, <2>2 DEF SweepBegin, FramesTypeOK
  <2> QED BY <2>1, <2>3
<1> QED BY <1>1, <1>2, <1>3

(***************************************************************************)
(* A step of the engine keeps the types: what is claimed or listed is      *)
(* copied, and the copies stay with the call.                              *)
(***************************************************************************)
LEMMA EngineKeepsTypes ==
    ASSUME CrudTypeInv, EngineNext
    PROVE  CrudTypeInv'
<1>1. StoreTyped' /\ DOMAIN rows \subseteq DOMAIN rows' /\ EngineStep
  BY EngineKeepsStore, EngineSends
<1>2. FramesTypeOK' /\ FramesHold'
  BY EngineKeepsFrames
<1>3. ASSUME NEW w \in Worker PROVE Rested(w)' /\ CopiesHold(w)'
  <2>1. Moves(w) /\ Rested(w)'
    BY <1>1, FrameMoves DEF CrudTypeInv
  <2>2. Rested(w) /\ CopiesHold(w)
    BY DEF CrudTypeInv
  <2>3. taken'[w] = IF pc[w] \in {"idle", "claim"} /\ pc'[w] = "dispatch"
                      THEN {Envelope(n)' : n \in {cur'[w]} \cup batch'[w]}
                      ELSE IF pc'[w] \in {"idle", "claim"} THEN {} ELSE taken[w]
    BY DEF EngineNext, Take
  <2>4. \A n : Envelope(n)'.key = n
    BY DEF Envelope
  <2>5. CASE pc[w] \in {"idle", "claim"} /\ pc'[w] = "dispatch"
    <3>1. taken'[w] = {Envelope(n)' : n \in {cur'[w]} \cup batch'[w]}
      BY <2>3, <2>5
    <3>2. \A n \in {cur'[w]} \cup batch'[w] : n \in DOMAIN rows' /\ Envelope(n)' \in Message
      <4>1. ASSUME NEW n \in DOMAIN rows', rows'[n].status = "pending"
            PROVE  Envelope(n)' \in Message
        <5>1. n \in Nat /\ rows'[n] \in CrudRow /\ rows'[n].addr \in Address
          BY <1>1, <4>1, LenProperties, ElementOfSeq DEF StoreTyped, Gone
        <5> QED BY <5>1 DEF Envelope, Message, CrudRow
      <4> QED BY <1>1, <2>5, <4>1, TakenArePending
    <3>3. \A e \in taken'[w] : e \in Message /\ e.key \in DOMAIN rows'
      BY <2>4, <3>1, <3>2
    <3>4. {cur'[w]} \cup batch'[w] \subseteq Keys(w)'
      BY <2>4, <3>1 DEF Keys
    <3> QED BY <2>1, <3>3, <3>4 DEF CopiesHold
  <2>6. CASE pc'[w] \in {"idle", "claim"}
    <3>1. taken'[w] = {} /\ batch'[w] = {}
      BY <2>1, <2>3, <2>6 DEF Rested
    <3> QED BY <2>1, <2>6, <3>1 DEF CopiesHold
  <2>7. CASE pc'[w] \notin {"idle", "claim"} /\ ~(pc[w] \in {"idle", "claim"} /\ pc'[w] = "dispatch")
    <3>1. taken'[w] = taken[w] /\ Keys(w)' = Keys(w)
      BY <2>3, <2>7 DEF Keys
    <3>2. \A e \in taken'[w] : e \in Message /\ e.key \in DOMAIN rows'
      BY <1>1, <2>2, <3>1 DEF CopiesHold
    <3>3. batch'[w] \subseteq batch[w] /\ (pc'[w] = "dispatch" => cur'[w] \in Keys(w))
      BY <2>1, <2>2, <2>7 DEF Moves, CopiesHold
    <3> QED BY <2>1, <2>2, <3>1, <3>2, <3>3 DEF CopiesHold
  <2> QED BY <2>1, <2>5, <2>6, <2>7
<1>4. touched' \subseteq DOMAIN rows' /\ given' \subseteq Nat \ {0} /\ edits' \in 0..MaxEdits
  BY <1>1 DEF CrudTypeInv, EngineNext, crud
<1> QED BY <1>1, <1>2, <1>3, <1>4 DEF CrudTypeInv

-----------------------------------------------------------------------------
(* What a foreign write can do to the rows.                                *)

\* A row of a slot nobody holds is added, with whatever message id.
Adds(row) ==
    /\ row \in CrudRow /\ row.addr \in Address
    /\ ~Held(EventId[row.req], row.addr)
    /\ rows' = Append(rows, row)
    /\ touched' = touched \cup {Len(rows) + 1} /\ Given(row, 0)

\* A live row is overwritten, in a slot that is its own or free.
Rewrites(n, row) ==
    /\ n \in Live
    /\ row \in CrudRow /\ row.addr \in Address
    /\ \A k \in DOMAIN rows \ {n} : SlotOf(k) # <<EventId[row.req], row.addr>>
    /\ rows' = [rows EXCEPT ![n] = row]
    /\ touched' = touched \cup {n} /\ Given(row, rows[n].msg)

Wiped(row) == row.status = "gone" /\ row.addr = NoAddress /\ row.msg = 0

SameContent(new, old) ==
    /\ new.req = old.req /\ new.addr = old.addr /\ new.body = old.body
    /\ new.status = old.status /\ new.msg = old.msg /\ new.reason = old.reason

\* Rows are trashed, restored or purged, their content is not written.
Trashes ==
    /\ UNCHANGED <<touched, given>>
    /\ rows' \in Seq(CrudRow) /\ DOMAIN rows' = DOMAIN rows
    /\ \A n \in DOMAIN rows : Wiped(rows'[n]) \/ SameContent(rows'[n], rows[n])

(***************************************************************************)
(* Erasing a row, and moving it into the trash or out, keep its type.      *)
(***************************************************************************)
LEMMA TrashingTyped ==
    ASSUME NEW old \in CrudRow
    PROVE  /\ Erased(old) \in CrudRow /\ Wiped(Erased(old))
           /\ \A d \in BOOLEAN : /\ [old EXCEPT !.deleted = d] \in CrudRow
                                 /\ SameContent([old EXCEPT !.deleted = d], old)
           /\ SameContent(old, old)
BY DEF CrudRow, CrudStatus, Erased, Wiped, SameContent

LEMMA TrashedRowsStay ==
    ASSUME StoreTyped, NEW rs \in [DOMAIN rows -> CrudRow],
           \A n \in DOMAIN rows : Wiped(rs[n]) \/ SameContent(rs[n], rows[n]),
           rows' = rs, UNCHANGED <<touched, given>>
    PROVE  Trashes
<1>1. Len(rows) \in Nat /\ DOMAIN rows = 1..Len(rows)
  BY LenProperties DEF StoreTyped
<1>2. rows' \in Seq(CrudRow)
  BY <1>1, SeqDef
<1> QED BY <1>2 DEF Trashes

(***************************************************************************)
(* Every foreign write is one of the three, counts itself, and touches     *)
(* nothing but the rows.                                                   *)
(***************************************************************************)
LEMMA ForeignWrites ==
    ASSUME CrudTypeInv, CrudWrite \/ SeederRollback
    PROVE  /\ edits' = edits + 1 /\ edits' # edits
           /\ UNCHANGED <<outbox, templates, writes, gateway, pc, locals, taken>>
           /\ (\E row : Adds(row)) \/ (\E n, row : Rewrites(n, row)) \/ Trashes
<1> DEFINE Foreign == /\ edits' = edits + 1 /\ edits' # edits
                      /\ UNCHANGED <<outbox, templates, writes, gateway, pc, locals, taken>>
<1>0. /\ StoreTyped /\ EditStatus \subseteq CrudStatus
      /\ \A n \in DOMAIN rows : rows[n] \in CrudRow
      /\ CrudStatus \subseteq CrudStatus \cup {"gone"}
  BY CrudAssumption, LenProperties, ElementOfSeq DEF CrudTypeInv, StoreTyped
<1>0a. MessageId \subseteq Nat /\ EditReason \subseteq Rejection \cup Bounce \cup {NoReason}
  BY <1>0, CrudAssumption, LenProperties DEF MessageId, StoreTyped
<1>1. ASSUME NEW rs, Edit(rs) PROVE Foreign /\ rows' = rs
  BY <1>1, CrudAssumption DEF Edit, CrudTypeInv
<1>2. ASSUME NEW q \in Request, NEW a \in Address, NEW b \in Body, NEW m \in MessageId,
             NEW s \in EditStatus, NEW r \in EditReason, CrudCreate(q, a, b, s, m, r)
      PROVE  Foreign /\ \E row : Adds(row)
  <2>1. PICK row : row = Posted(q, a, b, s, m, r)
    OBVIOUS
  <2>2. row \in CrudRow /\ row.addr = a /\ row.req = q
    BY <1>0, <1>0a, <2>1 DEF Posted, CrudRow
  <2>3. Adds(row)
    BY <1>1, <1>2, <2>1, <2>2 DEF CrudCreate, Adds
  <2> QED BY <1>1, <1>2, <2>3 DEF CrudCreate
<1>3. ASSUME NEW n \in DOMAIN rows, NEW q \in Request, NEW a \in Address, NEW b \in Body,
             NEW m \in MessageId, NEW s \in EditStatus \cup {rows[n].status},
             NEW r \in EditReason \cup {rows[n].reason},
             CrudPut(n, q, a, b, s, m, r) \/ CrudPatch(n, q, a, b, s, m, r)
      PROVE  Foreign /\ \E row : Rewrites(n, row)
  <2>1. PICK old \in CrudRow : old = rows[n]
    BY <1>0
  <2>2. /\ s \in CrudStatus \cup {"gone"} /\ m \in Nat
        /\ r \in Rejection \cup Bounce \cup {NoReason}
    BY <1>0, <1>0a, <2>1 DEF CrudRow
  <2>3. PICK row : row = Replaced(old, q, a, b, s, m, r) /\ Overwrite(n, row)
    BY <1>3, <2>1 DEF CrudPut, CrudPatch, Patched
  <2>4. row \in CrudRow /\ row.addr = a
    BY <2>2, <2>3 DEF Replaced, CrudRow
  <2>5. Rewrites(n, row)
    BY <1>1, <2>1, <2>3, <2>4 DEF Overwrite, Rewrites
  <2> QED BY <1>1, <2>3, <2>5 DEF Overwrite
<1>4. ASSUME NEW n \in DOMAIN rows, NEW new \in CrudRow,
             Wiped(new) \/ SameContent(new, rows[n]),
             Edit([rows EXCEPT ![n] = new]), UNCHANGED <<touched, given>>
      PROVE  Foreign /\ Trashes
  <2>1. PICK rs : rs = [rows EXCEPT ![n] = new] /\ rows' = rs
    BY <1>1, <1>4
  <2>2. /\ rs \in [DOMAIN rows -> CrudRow]
        /\ \A k \in DOMAIN rows : Wiped(rs[k]) \/ SameContent(rs[k], rows[k])
    <3>1. \A k \in DOMAIN rows : rs[k] = IF k = n THEN new ELSE rows[k]
      BY <2>1
    <3>2. rs = [k \in DOMAIN rows |-> rs[k]]
      BY <2>1
    <3>3. \A k \in DOMAIN rows : rs[k] \in CrudRow
      BY <1>0, <3>1
    <3> QED BY <1>0, <1>4, <3>1, <3>2, <3>3, TrashingTyped
  <2>3. Trashes
    BY <1>0, <1>4, <2>1, <2>2, TrashedRowsStay
  <2> QED BY <1>1, <1>4, <2>3
<1>5. ASSUME NEW n \in DOMAIN rows, CrudDelete(n) \/ CrudRestore(n) \/ CrudPurge(n)
      PROVE  Foreign /\ Trashes
  <2>1. PICK old \in CrudRow : old = rows[n]
    BY <1>0
  <2>2. PICK new \in CrudRow : /\ Wiped(new) \/ SameContent(new, old)
                               /\ Edit([rows EXCEPT ![n] = new])
                               /\ UNCHANGED <<touched, given>>
    <3>1. CASE CrudDelete(n)
      <4>1. Edit([rows EXCEPT ![n] = [old EXCEPT !.deleted = TRUE]])
        BY <2>1, <3>1 DEF CrudDelete
      <4> QED BY <3>1, <4>1, TrashingTyped DEF CrudDelete
    <3>2. CASE CrudRestore(n)
      <4>1. Edit([rows EXCEPT ![n] = [old EXCEPT !.deleted = FALSE]])
        BY <2>1, <3>2 DEF CrudRestore
      <4> QED BY <3>2, <4>1, TrashingTyped DEF CrudRestore
    <3>3. CASE CrudPurge(n)
      <4>1. Edit([rows EXCEPT ![n] = Erased(old)])
        BY <2>1, <3>3 DEF CrudPurge
      <4> QED BY <3>3, <4>1, TrashingTyped DEF CrudPurge
    <3> QED BY <1>5, <3>1, <3>2, <3>3
  <2> QED BY <1>4, <2>1, <2>2
<1>6. ASSUME EmptyTrash \/ SeederRollback PROVE Foreign /\ Trashes
  <2>1. PICK dead \in SUBSET DOMAIN rows :
          /\ Edit([n \in DOMAIN rows |-> IF n \in dead THEN Erased(rows[n]) ELSE rows[n]])
          /\ UNCHANGED <<touched, given>>
    <3>1. CASE EmptyTrash
      BY <3>1 DEF EmptyTrash, Trash
    <3>2. CASE SeederRollback
      <4>1. [n \in DOMAIN rows |-> IF n \in DOMAIN rows THEN Erased(rows[n]) ELSE rows[n]]
              = [n \in DOMAIN rows |-> Erased(rows[n])]
        OBVIOUS
      <4>2. Edit([n \in DOMAIN rows |-> IF n \in DOMAIN rows THEN Erased(rows[n]) ELSE rows[n]])
        BY <3>2, <4>1 DEF SeederRollback
      <4> QED BY <3>2, <4>2 DEF SeederRollback
    <3> QED BY <1>6, <3>1, <3>2
  <2>2. PICK rs : /\ rs = [k \in DOMAIN rows |-> IF k \in dead THEN Erased(rows[k]) ELSE rows[k]]
                  /\ rows' = rs
    BY <1>1, <2>1
  <2>3. /\ rs \in [DOMAIN rows -> CrudRow]
        /\ \A k \in DOMAIN rows : Wiped(rs[k]) \/ SameContent(rs[k], rows[k])
    <3>1. \A k \in DOMAIN rows : rs[k] = IF k \in dead THEN Erased(rows[k]) ELSE rows[k]
      BY <2>2
    <3>2. rs = [k \in DOMAIN rows |-> rs[k]]
      BY <2>2
    <3>3. \A k \in DOMAIN rows : rs[k] \in CrudRow
      BY <1>0, <3>1, TrashingTyped
    <3> QED BY <1>0, <3>1, <3>2, <3>3, TrashingTyped
  <2>4. Trashes
    BY <1>0, <2>1, <2>2, <2>3, TrashedRowsStay
  <2> QED BY <1>1, <2>1, <2>4
<1> HIDE DEF Foreign
<1>7. Foreign /\ ((\E row : Adds(row)) \/ (\E n, row : Rewrites(n, row)) \/ Trashes)
  <2>1. ASSUME NEW q \in Request, NEW a \in Address, NEW b \in Body, NEW m \in MessageId,
               \/ \E s \in EditStatus, r \in EditReason :
                     \/ CrudCreate(q, a, b, s, m, r)
                     \/ \E n \in DOMAIN rows : CrudPut(n, q, a, b, s, m, r)
               \/ \E n \in DOMAIN rows :
                     \E s \in EditStatus \cup {rows[n].status},
                       r \in EditReason \cup {rows[n].reason} : CrudPatch(n, q, a, b, s, m, r)
        PROVE  Foreign /\ ((\E row : Adds(row)) \/ (\E n, row : Rewrites(n, row)))
    BY <1>2, <1>3, <2>1
  <2> QED BY <1>5, <1>6, <2>1 DEF CrudWrite
<1> QED BY <1>7 DEF Foreign

(***************************************************************************)
(* What the three kinds of foreign write do to each row.                   *)
(***************************************************************************)
LEMMA RewriteChanges ==
    ASSUME StoreTyped, NEW n, NEW row, Rewrites(n, row)
    PROVE  /\ n \in DOMAIN rows /\ ~Gone(n)
           /\ rows' \in Seq(CrudRow) /\ DOMAIN rows' = DOMAIN rows
           /\ rows'[n] = row
           /\ \A k \in DOMAIN rows : k # n => rows'[k] = rows[k]
<1>1. rows \in Seq(CrudRow) /\ DOMAIN rows = 1..Len(rows)
  BY LenProperties DEF StoreTyped
<1>2. n \in DOMAIN rows /\ ~Gone(n) /\ row \in CrudRow /\ rows' = [rows EXCEPT ![n] = row]
  BY DEF Rewrites, Live
<1> QED BY <1>1, <1>2, ExceptSeq

LEMMA ForeignKeepsTypes ==
    ASSUME CrudTypeInv, edits < MaxEdits, CrudWrite \/ SeederRollback
    PROVE  CrudTypeInv'
<1> USE DEF gateway, locals
<1>0. StoreTyped
  BY DEF CrudTypeInv
<1>1. /\ edits' \in 0..MaxEdits
      /\ UNCHANGED <<outbox, templates, writes, gateway, pc, locals, taken>>
  <2>1. edits' \in 0..MaxEdits
    BY ForeignWrites, CrudAssumption DEF CrudTypeInv
  <2> QED BY <2>1, ForeignWrites
<1>2. /\ rows' \in Seq(CrudRow) /\ DOMAIN rows \subseteq DOMAIN rows'
      /\ touched' \subseteq DOMAIN rows' /\ given' \subseteq Nat \ {0}
      /\ \A n \in DOMAIN rows' : rows'[n].status = "gone" \/ rows'[n].addr \in Address
  <2>1. ASSUME NEW row, Adds(row)
        PROVE  /\ rows' \in Seq(CrudRow) /\ DOMAIN rows \subseteq DOMAIN rows'
               /\ touched' \subseteq DOMAIN rows' /\ given' \subseteq Nat \ {0}
               /\ \A n \in DOMAIN rows' : rows'[n].status = "gone" \/ rows'[n].addr \in Address
    <3>1. row.msg \in Nat
      BY <2>1 DEF Adds, CrudRow
    <3> QED BY <1>0, <2>1, <3>1, ClaimAppends DEF Adds, Given, StoreTyped, Gone, CrudTypeInv
  <2>2. ASSUME NEW n, NEW row, Rewrites(n, row)
        PROVE  /\ rows' \in Seq(CrudRow) /\ DOMAIN rows \subseteq DOMAIN rows'
               /\ touched' \subseteq DOMAIN rows' /\ given' \subseteq Nat \ {0}
               /\ \A k \in DOMAIN rows' : rows'[k].status = "gone" \/ rows'[k].addr \in Address
    <3>1. row.msg \in Nat
      BY <2>2 DEF Rewrites, CrudRow
    <3> QED BY <1>0, <2>2, <3>1, RewriteChanges DEF Rewrites, Given, StoreTyped, Gone, CrudTypeInv
  <2>3. CASE Trashes
    BY <1>0, <2>3 DEF Trashes, Wiped, SameContent, StoreTyped, Gone, CrudTypeInv
  <2> QED BY <2>1, <2>2, <2>3, ForeignWrites
<1>3. StoreTyped'
  BY <1>0, <1>1, <1>2 DEF StoreTyped, Gone, Table!TemplatesTypeOK
<1>4. FramesTypeOK' /\ FramesHold'
  BY <1>1, <1>2 DEF CrudTypeInv, FramesTypeOK, FramesHold, FrameHolds
<1>5. \A w \in Worker : Rested(w)' /\ CopiesHold(w)'
  BY <1>1, <1>2 DEF CrudTypeInv, Rested, CopiesHold, Keys
<1> QED BY <1>1, <1>2, <1>3, <1>4, <1>5 DEF CrudTypeInv

(***************************************************************************)
(* The types hold at the start, and every step keeps them.                 *)
(***************************************************************************)
LEMMA CrudTypeInit == CrudInit => CrudTypeInv
<1> SUFFICES ASSUME CrudInit PROVE CrudTypeInv
  OBVIOUS
<1>1. TypeInv
  BY TypeInit DEF CrudInit
<1>2. StoreTyped
  BY <1>1, EmptySeq DEF CrudInit, Init, StoreTyped, TypeInv, TypeOK, TablesTypeOK
<1>3. \A w \in Worker : Rested(w) /\ CopiesHold(w)
  BY DEF CrudInit, Init, Rested, CopiesHold
<1> QED BY <1>1, <1>2, <1>3, CrudAssumption DEF CrudInit, CrudTypeInv, TypeInv, TypeOK

LEMMA CrudTypeStep ==
    ASSUME CrudTypeInv, [CrudNext]_crudVars
    PROVE  CrudTypeInv'
<1>1. CASE UNCHANGED crudVars
  BY <1>1 DEF crudVars, crud, vars, locals, CrudTypeInv, StoreTyped, Gone, FramesTypeOK,
              FramesHold, FrameHolds, Rested, CopiesHold, Keys, Table!TemplatesTypeOK
<1> QED BY <1>1, EngineKeepsTypes, ForeignKeepsTypes DEF CrudNext

(***************************************************************************)
(* The tables, the gateway's log, every caller's frame and its copies stay *)
(* well typed on every surface, whatever is written beside the engine: a   *)
(* caller that dispatches holds a copy of the row it is at, gone or not.   *)
(***************************************************************************)
THEOREM CrudTypeCorrect == CrudSpec => []CrudTypeOK
<1>1. CrudTypeInv => CrudTypeOK
  <2> SUFFICES ASSUME CrudTypeInv PROVE CrudTypeOK
    OBVIOUS
  <2>1. \A w \in Worker : pc[w] = "dispatch" => \E e \in taken[w] : e.key = cur[w]
    BY DEF CrudTypeInv, CopiesHold, Keys
  <2> QED BY <2>1 DEF CrudTypeInv, StoreTyped, CrudTypeOK
<1> QED BY <1>1, CrudTypeInit, CrudTypeStep, PTL DEF CrudSpec

-----------------------------------------------------------------------------
(* A slot is one row's, and a key one message's.                           *)

\* Two rows share a slot only if it is none: both are purged.
OneHolder ==
    \A j, k \in DOMAIN rows : SlotOf(j) = SlotOf(k) => j = k \/ rows[j].addr = NoAddress

\* A message is of a row, and the only one of it where the transport dedups.
OneMessage ==
    /\ \A m \in DOMAIN messages : messages[m].key \in DOMAIN rows
    /\ \A i, j \in DOMAIN messages :
          /\ i # j
          /\ {ChannelOf(messages[i].req), ChannelOf(messages[j].req)} \subseteq Keyed
          => messages[i].key # messages[j].key

(***************************************************************************)
(* The unique index: a claim and a create find the slot free, an update    *)
(* finds no other row in it, and a purge leaves none.                      *)
(***************************************************************************)
LEMMA HolderStep ==
    ASSUME CrudTypeInv, OneHolder, [CrudNext]_crudVars
    PROVE  OneHolder'
<1>0. StoreTyped
  BY DEF CrudTypeInv
<1>1. CASE UNCHANGED rows
  BY <1>1 DEF OneHolder, SlotOf
<1>2. ASSUME NEW row, row \in CrudRow, ~Held(EventId[row.req], row.addr), rows' = Append(rows, row)
      PROVE  OneHolder'
  <2>1. PICK new : /\ DOMAIN rows' = DOMAIN rows \cup {new} /\ new \notin DOMAIN rows
                   /\ rows'[new] = row
                   /\ \A n \in DOMAIN rows : rows'[n] = rows[n]
    BY <1>0, <1>2, ClaimAppends
  <2>2. \A n \in DOMAIN rows : SlotOf(n)' = SlotOf(n) /\ SlotOf(n) # <<EventId[row.req], row.addr>>
    BY <1>2, <2>1 DEF Held, SlotOf
  <2>3. SlotOf(new)' = <<EventId[row.req], row.addr>>
    BY <2>1 DEF SlotOf
  <2>4. ASSUME NEW j \in DOMAIN rows', NEW k \in DOMAIN rows', SlotOf(j)' = SlotOf(k)'
        PROVE  j = k \/ rows'[j].addr = NoAddress
    <3>1. CASE j \in DOMAIN rows /\ k \in DOMAIN rows
      BY <2>1, <2>2, <2>4, <3>1 DEF OneHolder
    <3>2. CASE j = new \/ k = new
      BY <2>1, <2>2, <2>3, <2>4, <3>2
    <3> QED BY <2>1, <3>1, <3>2
  <2> QED BY <2>4 DEF OneHolder
<1>3. ASSUME NEW n, NEW row, NEW e, Commits(n, row, e) PROVE OneHolder'
  <2>1. /\ DOMAIN rows' = DOMAIN rows
        /\ \A k \in DOMAIN rows : rows'[k].req = rows[k].req /\ rows'[k].addr = rows[k].addr
    BY <1>0, <1>3, CommitChanges DEF Commits
  <2> QED BY <2>1 DEF OneHolder, SlotOf
<1>3a. ASSUME NEW m, NEW o, NEW e, Receives(m, o, e) PROVE OneHolder'
  BY <1>0, <1>3a, ReceiptChanges DEF OneHolder, SlotOf
<1>4. ASSUME NEW n, NEW row, Rewrites(n, row) PROVE OneHolder'
  <2>1. /\ n \in DOMAIN rows /\ DOMAIN rows' = DOMAIN rows /\ rows'[n] = row
        /\ \A k \in DOMAIN rows : k # n => rows'[k] = rows[k]
    BY <1>0, <1>4, RewriteChanges
  <2>2. /\ SlotOf(n)' = <<EventId[row.req], row.addr>>
        /\ \A k \in DOMAIN rows : k # n => SlotOf(k)' = SlotOf(k) /\ SlotOf(k) # SlotOf(n)'
    BY <1>4, <2>1 DEF Rewrites, SlotOf
  <2>3. ASSUME NEW j \in DOMAIN rows', NEW k \in DOMAIN rows', SlotOf(j)' = SlotOf(k)'
        PROVE  j = k \/ rows'[j].addr = NoAddress
    <3>1. CASE j # n /\ k # n
      BY <2>1, <2>2, <2>3, <3>1 DEF OneHolder
    <3>2. CASE j = n \/ k = n
      BY <2>1, <2>2, <2>3, <3>2
    <3> QED BY <3>1, <3>2
  <2> QED BY <2>3 DEF OneHolder
<1>5. CASE Trashes
  <2>1. \A k \in DOMAIN rows : rows'[k].addr = NoAddress \/ SlotOf(k)' = SlotOf(k)
    BY <1>5 DEF Trashes, Wiped, SameContent, SlotOf
  <2>2. ASSUME NEW j \in DOMAIN rows', NEW k \in DOMAIN rows', SlotOf(j)' = SlotOf(k)'
        PROVE  j = k \/ rows'[j].addr = NoAddress
    <3>1. rows'[j].addr = rows'[k].addr
      BY <2>2 DEF SlotOf
    <3>2. CASE rows'[j].addr # NoAddress
      <4>1. SlotOf(j) = SlotOf(k) /\ rows[j].addr = rows'[j].addr
        BY <1>5, <2>1, <2>2, <3>1, <3>2 DEF Trashes, SlotOf
      <4> QED BY <1>5, <3>2, <4>1 DEF Trashes, OneHolder
    <3> QED BY <3>2
  <2> QED BY <2>2 DEF OneHolder
<1> QED
  <2>1. CASE EngineNext
    BY <1>1, <1>2, <1>3, <1>3a, <2>1, EngineSends, EngineStores DEF store, ClaimsSlot
  <2>2. CASE CrudWrite \/ SeederRollback
    BY <1>2, <1>4, <1>5, <2>2, ForeignWrites DEF Adds
  <2> QED BY <1>1, <2>1, <2>2 DEF CrudNext, crudVars, vars

(***************************************************************************)
(* A dispatch with a key the transport knows answers with the message it   *)
(* has, whatever has become of the row.                                    *)
(***************************************************************************)
LEMMA KeyStep ==
    ASSUME CrudTypeInv, OneMessage, [CrudNext]_crudVars
    PROVE  OneMessage'
<1>0. StoreTyped
  BY DEF CrudTypeInv
<1>1. DOMAIN rows \subseteq DOMAIN rows'
  <2>1. CASE EngineNext
    BY <2>1, EngineKeepsStore
  <2>2. ASSUME NEW row, Adds(row) PROVE DOMAIN rows \subseteq DOMAIN rows'
    BY <1>0, <2>2, ClaimAppends DEF Adds
  <2>3. ASSUME NEW n, NEW row, Rewrites(n, row) PROVE DOMAIN rows \subseteq DOMAIN rows'
    BY <1>0, <2>3, RewriteChanges
  <2>4. CASE CrudWrite \/ SeederRollback
    BY <2>2, <2>3, <2>4, ForeignWrites DEF Trashes
  <2> QED BY <2>1, <2>4 DEF CrudNext, crudVars, vars
<1>2. CASE UNCHANGED messages
  BY <1>1, <1>2 DEF OneMessage
<1>3. ASSUME NEW w \in Worker, pc[w] = "dispatch", Known(InHand(w)) = {},
             messages' = Append(messages, InHand(w))
      PROVE  OneMessage'
  <2>1. InHand(w) \in Message /\ InHand(w).key \in DOMAIN rows
    BY <1>3, InHandIsTaken DEF CrudTypeInv, CopiesHold
  <2>2. PICK e \in Message : e = InHand(w)
    BY <2>1
  <2>3. /\ DOMAIN messages' = DOMAIN messages \cup {Len(messages) + 1}
        /\ messages'[Len(messages) + 1] = e
        /\ \A m \in DOMAIN messages : messages'[m] = messages[m]
    BY <1>0, <1>3, <2>2, SendAppends
  <2>4. ChannelOf(e.req) \in Keyed => \A m \in DOMAIN messages : messages[m].key # e.key
    BY <1>3, <2>2 DEF Known
  <2> QED BY <1>1, <2>1, <2>2, <2>3, <2>4 DEF OneMessage
<1>4. UNCHANGED messages \/ \E w \in Worker : /\ pc[w] = "dispatch" /\ Known(InHand(w)) = {}
                                              /\ messages' = Append(messages, InHand(w))
  <2>1. CASE EngineNext
    BY <2>1, EngineSends
  <2>2. CASE CrudWrite \/ SeederRollback
    BY <2>2, ForeignWrites DEF gateway
  <2> QED BY <2>1, <2>2 DEF CrudNext, crudVars, vars
<1> QED BY <1>2, <1>3, <1>4

(***************************************************************************)
(* Where the transport dedups, nobody hears twice of one event unless CRUD *)
(* has freed the slot in between: the index and the key see to it together *)
(* although rows are trashed, restored, purged and rewritten under calls   *)
(* that hold older copies of them.                                         *)
(***************************************************************************)
THEOREM RepeatsTakeAFreedSlot == CrudSpec => []RepeatsNeedAFreedSlot
<1>1. CrudInit => OneHolder /\ OneMessage
  BY DEF CrudInit, Init, OneHolder, OneMessage
<1>2. CrudTypeInv /\ OneHolder /\ OneMessage => RepeatsNeedAFreedSlot
  <2> SUFFICES ASSUME CrudTypeInv, OneHolder, OneMessage,
                      NEW i \in DOMAIN messages, NEW j \in DOMAIN messages, i # j,
                      {ChannelOf(messages[i].req), ChannelOf(messages[j].req)} \subseteq Keyed,
                      NEW slot, slot = <<EventId[messages[i].req], messages[i].addr>>,
                      SlotOf(messages[i].key) = slot, SlotOf(messages[j].key) = slot
               PROVE  FALSE
    BY DEF RepeatsNeedAFreedSlot
  <2>1. messages[i].key # messages[j].key /\ messages[i].key \in DOMAIN rows
        /\ messages[j].key \in DOMAIN rows
    BY DEF OneMessage
  <2>2. rows[messages[i].key].addr = NoAddress
    BY <2>1 DEF OneHolder
  <2>3. messages[i] \in Message
    BY LenProperties, ElementOfSeq DEF CrudTypeInv, StoreTyped
  <2>4. messages[i].addr \in Address /\ messages[i].addr = NoAddress
    BY <2>2, <2>3 DEF Message, SlotOf
  <2> QED BY <2>4, AddressAssumption
<1>3. CrudTypeInv /\ OneHolder /\ OneMessage /\ [CrudNext]_crudVars
        => (CrudTypeInv /\ OneHolder /\ OneMessage)'
  BY CrudTypeStep, HolderStep, KeyStep
<1> QED BY <1>1, <1>2, <1>3, CrudTypeInit, PTL DEF CrudSpec

-----------------------------------------------------------------------------
(* A message id is the row's own, or one CRUD has given it.                *)

OwnMessage(n) ==
    \/ rows[n].msg = 0
    \/ n \in touched /\ rows[n].msg \in given
    \/ rows[n].msg \in DOMAIN messages /\ messages[rows[n].msg].key = n

OwnAnswer(w) ==
    pc[w] = "commit" /\ answer[w].msg # 0 =>
        answer[w].msg \in DOMAIN messages /\ messages[answer[w].msg].key = cur[w]

Owned == /\ \A n \in DOMAIN rows : OwnMessage(n)
         /\ \A w \in Worker : OwnAnswer(w)

(***************************************************************************)
(* What the gateway has accepted and the provider reported stays.          *)
(***************************************************************************)
LEMMA GatewayKeeps ==
    ASSUME CrudTypeInv, [CrudNext]_crudVars
    PROVE  /\ \A m \in DOMAIN messages : m \in DOMAIN messages' /\ messages'[m] = messages[m]
           /\ reports \subseteq reports'
<1> USE DEF gateway
<1>0. StoreTyped
  BY DEF CrudTypeInv
<1>1. ASSUME NEW w \in Worker, pc[w] = "dispatch", messages' = Append(messages, InHand(w))
      PROVE  \A m \in DOMAIN messages : m \in DOMAIN messages' /\ messages'[m] = messages[m]
  <2>1. InHand(w) \in Message
    BY <1>1, InHandIsTaken DEF CrudTypeInv
  <2> QED BY <1>0, <1>1, <2>1, SendAppends
<1>2. CASE EngineNext
  <2>1. reports \subseteq reports'
    <3>1. ASSUME NEW w \in Worker, Proceed(w) \/ Crash(w) PROVE UNCHANGED reports
      BY <3>1 DEF Proceed, ClaimRefused, ClaimConflict, ClaimInsert, NotifyEnd, DispatchRejected,
                  Answered, CommitDispatched, CommitFailed, CommitRefused, Publish, Crash
    <3>2. ASSUME NEW w \in Worker, NEW e, Send(w, e) \/ SendLost(w, e) PROVE UNCHANGED reports
      BY <3>2 DEF Send, SendLost, Answered
    <3>3. CASE \/ \E q \in Request : Deliver(q)
               \/ \E w \in Sweeper : SweepBegin(w)
               \/ Record
               \/ \E m \in DOMAIN messages, o \in Outcome : Report(m, o)
               \/ TemplateWrite
      BY <3>3 DEF Deliver, NotifySkip, NotifyBegin, SweepBegin, Record, RecordDelivery, Report,
                  TemplateWrite
    <3> QED BY <1>2, <3>1, <3>2, <3>3 DEF EngineNext
  <2> QED BY <1>1, <1>2, <2>1, EngineSends
<1>3. CASE CrudWrite \/ SeederRollback
  BY <1>3, ForeignWrites
<1> QED BY <1>2, <1>3 DEF CrudNext, crudVars, vars

(***************************************************************************)
(* A caller about to commit an acceptance is where it was, or has just     *)
(* sent the request in hand.                                               *)
(***************************************************************************)
LEMMA AnswersAreSends ==
    ASSUME CrudTypeInv, EngineNext, NEW w \in Worker,
           pc'[w] = "commit", answer'[w].msg # 0
    PROVE  \/ pc[w] = "commit" /\ cur'[w] = cur[w] /\ answer'[w] = answer[w]
           \/ /\ pc[w] = "dispatch" /\ cur'[w] = cur[w]
              /\ \E m \in 1..(Len(messages) + 1) :
                    Accept(InHand(w), m) /\ answer'[w].msg = m
<1> USE DEF store, gateway, broker, locals
<1>0. FramesTypeOK
  BY DEF CrudTypeInv
<1> DEFINE Same == pc[w] = "commit" /\ cur'[w] = cur[w] /\ answer'[w] = answer[w]
           Sent == /\ pc[w] = "dispatch" /\ cur'[w] = cur[w]
                   /\ \E m \in 1..(Len(messages) + 1) :
                         Accept(InHand(w), m) /\ answer'[w].msg = m
<1>1. ASSUME NEW v \in Worker,
             \/ Crash(v) \/ ClaimRefused(v) \/ NotifyEnd(v) \/ CommitRefused(v)
             \/ ClaimConflict(v) \/ ClaimInsert(v) \/ SweepBegin(v)
             \/ CommitDispatched(v) \/ CommitFailed(v) \/ Publish(v)
      PROVE  Same
  BY <1>0, <1>1 DEF Crash, ClaimRefused, NotifyEnd, CommitRefused, ClaimConflict, ClaimInsert,
       SweepBegin, CommitDispatched, CommitFailed, Publish, Return, Stage, Goto, Claimable,
       FramesTypeOK
<1>2. ASSUME NEW q \in Request, Deliver(q) PROVE Same
  BY <1>0, <1>2 DEF Deliver, NotifySkip, NotifyBegin, Goto, FramesTypeOK, Worker
<1>3. CASE Record
  BY <1>0, <1>3 DEF Record, RecordDelivery, Stage, Goto, FramesTypeOK
<1>4. CASE TemplateWrite \/ \E m \in DOMAIN messages, o \in Outcome : Report(m, o)
  BY <1>0, <1>4 DEF TemplateWrite, Report
<1>5. ASSUME NEW v \in Worker, DispatchRejected(v) \/ SendLost(v, InHand(v)) PROVE Same
  BY <1>0, <1>5 DEF DispatchRejected, SendLost, Answered, Goto, FramesTypeOK
<1>6. ASSUME NEW v \in Worker, Send(v, InHand(v)) PROVE Same \/ Sent
  <2>1. PICK m \in 1..(Len(messages) + 1) : Accept(InHand(v), m) /\ Answered(v, m, NoReason)
    BY <1>6 DEF Send
  <2>2. cur' = cur /\ pc[v] = "dispatch"
    BY <1>6, <2>1 DEF Send, Answered
  <2>3. CASE v = w
    <3>1. answer'[w].msg = m
      BY <1>0, <2>1, <2>3 DEF Answered, FramesTypeOK
    <3> QED BY <2>1, <2>2, <2>3, <3>1
  <2>4. CASE v # w
    BY <1>0, <2>1, <2>2, <2>4 DEF Answered, Goto, FramesTypeOK
  <2> QED BY <2>3, <2>4
<1>7. ASSUME NEW v \in Worker, Proceed(v) PROVE Same
  BY <1>1, <1>5, <1>7 DEF Proceed
<1>8. ASSUME NEW v \in Sweeper, SweepBegin(v) PROVE Same
  BY <1>1, <1>8 DEF Worker
<1> QED BY <1>1, <1>2, <1>3, <1>4, <1>5, <1>6, <1>7, <1>8 DEF EngineNext

(***************************************************************************)
(* What CRUD has written stays on record.                                  *)
(***************************************************************************)
LEMMA CrudRemembers ==
    ASSUME CrudTypeInv, [CrudNext]_crudVars
    PROVE  touched \subseteq touched' /\ given \subseteq given'
<1>1. CASE EngineNext
  BY <1>1 DEF EngineNext, crud
<1>2. CASE CrudWrite \/ SeederRollback
  BY <1>2, ForeignWrites DEF Adds, Rewrites, Trashes, Given
<1> QED BY <1>1, <1>2 DEF CrudNext, crudVars, crud

(***************************************************************************)
(* The gateway answers with a message of the key it was sent, and a commit *)
(* writes it to that row and no other; CRUD writes whatever it is told.    *)
(***************************************************************************)
LEMMA OwnedStep ==
    ASSUME CrudTypeInv, Owned, [CrudNext]_crudVars
    PROVE  Owned'
<1>0. StoreTyped
  BY DEF CrudTypeInv
<1>1. \A m \in DOMAIN messages : m \in DOMAIN messages' /\ messages'[m] = messages[m]
  BY GatewayKeeps
<1>2. ASSUME NEW w \in Worker PROVE OwnAnswer(w)'
  <2> SUFFICES ASSUME pc'[w] = "commit", answer'[w].msg # 0
               PROVE  answer'[w].msg \in DOMAIN messages'
                      /\ messages'[answer'[w].msg].key = cur'[w]
    BY DEF OwnAnswer
  <2>1. CASE pc[w] = "commit" /\ cur'[w] = cur[w] /\ answer'[w] = answer[w]
    BY <1>1, <2>1 DEF Owned, OwnAnswer
  <2>2. ASSUME pc[w] = "dispatch", cur'[w] = cur[w], NEW m \in 1..(Len(messages) + 1),
               Accept(InHand(w), m), answer'[w].msg = m
        PROVE  answer'[w].msg \in DOMAIN messages' /\ messages'[answer'[w].msg].key = cur'[w]
    <3>1. InHand(w) \in Message /\ InHand(w).key = cur[w]
      BY <2>2, InHandIsTaken DEF CrudTypeInv
    <3>2. CASE Known(InHand(w)) # {}
      <4>1. m \in DOMAIN messages /\ messages[m].key = cur[w]
        BY <2>2, <3>1, <3>2 DEF Accept, Known
      <4> QED BY <1>1, <2>2, <4>1
    <3>3. CASE Known(InHand(w)) = {}
      <4>1. m = Len(messages) + 1 /\ messages' = Append(messages, InHand(w))
        BY <2>2, <3>3 DEF Accept
      <4> QED BY <1>0, <2>2, <3>1, <4>1, SendAppends
    <3> QED BY <3>2, <3>3
  <2>3. CASE UNCHANGED <<pc, cur, answer>>
    BY <2>1, <2>3
  <2>4. CASE EngineNext
    BY <2>1, <2>2, <2>4, AnswersAreSends
  <2>5. CASE CrudWrite \/ SeederRollback
    BY <2>3, <2>5, ForeignWrites DEF locals
  <2> QED BY <2>3, <2>4, <2>5 DEF CrudNext, crudVars, vars, locals
<1>3. ASSUME NEW n \in DOMAIN rows, rows'[n].msg \in {0, rows[n].msg} PROVE OwnMessage(n)'
  BY <1>1, <1>3, CrudRemembers DEF Owned, OwnMessage
<1>4. \A n \in DOMAIN rows' : OwnMessage(n)'
  <2>1. CASE UNCHANGED rows
    BY <1>3, <2>1
  <2>2. ASSUME NEW row, ClaimsSlot(row) PROVE \A n \in DOMAIN rows' : OwnMessage(n)'
    BY <1>0, <1>3, <2>2, ClaimAppends DEF OwnMessage, ClaimsSlot
  <2>3. ASSUME NEW n, NEW row, NEW e, Commits(n, row, e)
        PROVE  \A k \in DOMAIN rows' : OwnMessage(k)'
    <3>1. /\ DOMAIN rows' = DOMAIN rows /\ n \in DOMAIN rows /\ rows'[n] = row
          /\ \A k \in DOMAIN rows : k # n => rows'[k] = rows[k]
      BY <1>0, <2>3, CommitChanges DEF Commits
    <3>2. OwnMessage(n)'
      <4>1. CASE row.msg = rows[n].msg
        BY <1>3, <3>1, <4>1
      <4>2. CASE \E w \in Worker : /\ pc[w] = "commit" /\ cur[w] = n
                                   /\ answer[w].msg = row.msg /\ row.msg # 0
        BY <1>1, <3>1, <4>2 DEF Owned, OwnAnswer, OwnMessage
      <4> QED BY <2>3, <4>1, <4>2 DEF Commits, Onwards
    <3> QED BY <1>3, <3>1, <3>2
  <2>4. ASSUME NEW m, NEW o, NEW e, Receives(m, o, e)
        PROVE  \A k \in DOMAIN rows' : OwnMessage(k)'
    <3>1. DOMAIN rows' = DOMAIN rows /\ \A k \in DOMAIN rows : rows'[k].msg = rows[k].msg
      BY <1>0, <2>4, ReceiptChanges
    <3> QED BY <1>3, <3>1
  <2>5. ASSUME NEW row, Adds(row) PROVE \A n \in DOMAIN rows' : OwnMessage(n)'
    <3>1. /\ DOMAIN rows' = DOMAIN rows \cup {Len(rows) + 1} /\ rows'[Len(rows) + 1] = row
          /\ \A n \in DOMAIN rows : rows'[n] = rows[n]
      BY <1>0, <2>5, ClaimAppends DEF Adds
    <3>2. Len(rows) + 1 \in touched' /\ row.msg \in given' \cup {0}
      BY <2>5 DEF Adds, Given
    <3> QED BY <1>3, <3>1, <3>2 DEF OwnMessage
  <2>6. ASSUME NEW n, NEW row, Rewrites(n, row)
        PROVE  \A k \in DOMAIN rows' : OwnMessage(k)'
    <3>1. /\ DOMAIN rows' = DOMAIN rows /\ n \in DOMAIN rows /\ rows'[n] = row
          /\ \A k \in DOMAIN rows : k # n => rows'[k] = rows[k]
      BY <1>0, <2>6, RewriteChanges
    <3>2. n \in touched' /\ row.msg \in given' \cup {0, rows[n].msg}
      BY <2>6 DEF Rewrites, Given
    <3>3. OwnMessage(n)'
      BY <1>3, <3>1, <3>2 DEF OwnMessage
    <3> QED BY <1>3, <3>1, <3>3
  <2>7. CASE Trashes
    BY <1>3, <2>7 DEF Trashes, Wiped, SameContent
  <2>8. CASE EngineNext
    BY <2>1, <2>2, <2>3, <2>4, <2>8, EngineSends, EngineStores DEF store
  <2>9. CASE CrudWrite \/ SeederRollback
    BY <2>5, <2>6, <2>7, <2>9, ForeignWrites
  <2> QED BY <2>1, <2>8, <2>9 DEF CrudNext, crudVars, vars
<1> QED BY <1>2, <1>4 DEF Owned

(***************************************************************************)
(* Two rows have one message id only where CRUD has given it to one.       *)
(***************************************************************************)
LEMMA SharedIdsAreGiven ==
    ASSUME Owned, NEW i \in DOMAIN rows, NEW j \in DOMAIN rows, i # j,
           rows[i].msg # 0, rows[i].msg = rows[j].msg
    PROVE  rows[i].msg \in given
BY DEF Owned, OwnMessage

-----------------------------------------------------------------------------
(***************************************************************************)
(* Whatever state CRUD has left a row in, the engine's own steps move it   *)
(* onward and with an event, or not at all: a commit the row it is about,  *)
(* a receipt the rows that have its message's id.                          *)
(***************************************************************************)
LEMMA OnwardCommit ==
    ASSUME CrudTypeInv, NEW k, NEW row, NEW e, Commits(k, row, e)
    PROVE  /\ \A n \in Moved :
                /\ n = k
                /\ <<rows[n].status, rows'[n].status>> \in Onward
                /\ <<rows'[n].addr, rows'[n].body, rows'[n].deleted>>
                     = <<rows[n].addr, rows[n].body, rows[n].deleted>>
           /\ Len(outbox') = Len(outbox) + 1 /\ outbox'[Len(outbox')].n = k
<1>1. StoreTyped
  BY DEF CrudTypeInv
<1>2. ASSUME NEW n \in Moved
      PROVE  /\ n = k
             /\ <<rows[n].status, rows'[n].status>> \in Onward
             /\ <<rows'[n].addr, rows'[n].body, rows'[n].deleted>>
                  = <<rows[n].addr, rows[n].body, rows[n].deleted>>
  <2>1. n = k /\ rows'[n] = row /\ row # rows[n]
    BY <1>1, <1>2, CommitChanges DEF Moved
  <2>2. Onwards(n, row, e)
    BY <2>1 DEF Commits
  <2> QED BY <2>1, <2>2 DEF Commits, Onwards, Onward
<1>3. Len(outbox') = Len(outbox) + 1 /\ outbox'[Len(outbox')] = e /\ e.n = k
  BY <1>1, CommitChanges DEF Commits
<1> QED BY <1>2, <1>3

LEMMA OnwardReceipt ==
    ASSUME CrudTypeInv, NEW m, NEW o, NEW e, Receives(m, o, e)
    PROVE  /\ \A n \in Moved :
                /\ rows[n].msg = m
                /\ <<rows[n].status, rows'[n].status>> \in Onward
                /\ <<rows'[n].addr, rows'[n].body, rows'[n].deleted>>
                     = <<rows[n].addr, rows[n].body, rows[n].deleted>>
           /\ Len(outbox') = Len(outbox) + 1 /\ outbox'[Len(outbox')].n \in Moved
<1>1. StoreTyped
  BY DEF CrudTypeInv
<1>2. Moved \subseteq Correlated(m)
  BY <1>1, ReceiptChanges DEF Moved
<1>3. ASSUME NEW n \in Correlated(m)
      PROVE  /\ n \in Moved /\ rows[n].msg = m
             /\ <<rows[n].status, rows'[n].status>> \in Onward
             /\ <<rows'[n].addr, rows'[n].body, rows'[n].deleted>>
                  = <<rows[n].addr, rows[n].body, rows[n].deleted>>
  <2>1. /\ n \in DOMAIN rows /\ rows[n].status = "sent" /\ rows[n].msg = m
        /\ rows'[n].deleted = rows[n].deleted
        /\ rows'[n].addr = rows[n].addr /\ rows'[n].body = rows[n].body
        /\ rows'[n].status \in {"delivered", "undelivered"}
    BY <1>1, <1>3, ReceiptChanges
  <2> QED BY <2>1 DEF Moved, Onward
<1>4. Len(outbox') = Len(outbox) + 1 /\ outbox'[Len(outbox')] = e /\ e.n \in Correlated(m)
  BY <1>1, ReceiptChanges DEF Receives
<1> QED BY <1>2, <1>3, <1>4

LEMMA OnwardStep ==
    ASSUME CrudTypeInv, Owned, [CrudNext]_crudVars, edits' = edits
    PROVE  /\ \A n \in Moved :
                /\ <<rows[n].status, rows'[n].status>> \in Onward
                /\ <<rows'[n].addr, rows'[n].body, rows'[n].deleted>>
                     = <<rows[n].addr, rows[n].body, rows[n].deleted>>
           /\ Moved # {} => /\ Len(outbox') = Len(outbox) + 1
                            /\ outbox'[Len(outbox')].n \in Moved
           /\ \A i, j \in Moved : i # j =>
                rows[i].msg = rows[j].msg /\ rows[i].msg \in given
<1>1. CASE Moved = {}
  BY <1>1
<1>2. ASSUME NEW k, NEW row, NEW e, Commits(k, row, e), Moved # {}
      PROVE  Moved = {k}
  BY <1>2, OnwardCommit
<1>3. ASSUME NEW m, NEW o, NEW e, Receives(m, o, e), NEW i \in Moved, NEW j \in Moved, i # j
      PROVE  rows[i].msg = rows[j].msg /\ rows[i].msg \in given
  <2>1. rows[i].msg = m /\ rows[j].msg = m /\ {i, j} \subseteq DOMAIN rows
    BY <1>3, OnwardReceipt DEF Moved
  <2>2. m # 0
    BY <1>3, LenProperties DEF Receives, CrudTypeInv, StoreTyped
  <2> QED BY <1>3, <2>1, <2>2, SharedIdsAreGiven
<1>4. CASE Moved # {}
  <2>1. (\E k, row, e : Commits(k, row, e)) \/ (\E m, o, e : Receives(m, o, e))
    <3>1. EngineNext
      <4>1. rows' # rows
        BY <1>4 DEF Moved
      <4> QED BY <4>1, ForeignWrites DEF CrudNext, crudVars, vars
    <3>2. \A row : ~ClaimsSlot(row)
      <4>1. PICK n \in DOMAIN rows : rows'[n] # rows[n]
        BY <1>4 DEF Moved
      <4> QED BY <4>1, ClaimAppends DEF ClaimsSlot, CrudTypeInv
    <3>3. rows' # rows
      BY <1>4 DEF Moved
    <3> QED BY <3>1, <3>2, <3>3, EngineSends, EngineStores DEF store
  <2>2. ASSUME NEW k, NEW row, NEW e, Commits(k, row, e)
        PROVE  /\ \A n \in Moved :
                    /\ <<rows[n].status, rows'[n].status>> \in Onward
                    /\ <<rows'[n].addr, rows'[n].body, rows'[n].deleted>>
                         = <<rows[n].addr, rows[n].body, rows[n].deleted>>
               /\ Len(outbox') = Len(outbox) + 1 /\ outbox'[Len(outbox')].n \in Moved
               /\ \A i, j \in Moved : i = j
    BY <1>2, <1>4, <2>2, OnwardCommit
  <2>3. ASSUME NEW m, NEW o, NEW e, Receives(m, o, e)
        PROVE  /\ \A n \in Moved :
                    /\ <<rows[n].status, rows'[n].status>> \in Onward
                    /\ <<rows'[n].addr, rows'[n].body, rows'[n].deleted>>
                         = <<rows[n].addr, rows[n].body, rows[n].deleted>>
               /\ Len(outbox') = Len(outbox) + 1 /\ outbox'[Len(outbox')].n \in Moved
               /\ \A i, j \in Moved : i # j =>
                    rows[i].msg = rows[j].msg /\ rows[i].msg \in given
    BY <1>3, <2>3, OnwardReceipt
  <2> QED BY <2>1, <2>2, <2>3
<1> QED BY <1>1, <1>4

(***************************************************************************)
(* On every surface the engine only moves rows onward from the status they *)
(* have at that moment, announces one it moves, and moves two in one step  *)
(* only where CRUD has given one of them the other's message id.           *)
(***************************************************************************)
THEOREM EngineOnlyMovesOnward == CrudSpec => EngineMovesOnward
<1> DEFINE Onwardly ==
      edits' = edits =>
         /\ \A n \in Moved :
              /\ <<rows[n].status, rows'[n].status>> \in Onward
              /\ <<rows'[n].addr, rows'[n].body, rows'[n].deleted>>
                   = <<rows[n].addr, rows[n].body, rows[n].deleted>>
         /\ Moved # {} => /\ Len(outbox') = Len(outbox) + 1
                          /\ outbox'[Len(outbox')].n \in Moved
         /\ \A i, j \in Moved : i # j =>
              rows[i].msg = rows[j].msg /\ rows[i].msg \in given
<1>1. CrudTypeInv /\ Owned /\ [CrudNext]_crudVars => Onwardly
  BY OnwardStep
<1>2. EngineMovesOnward <=> [][Onwardly]_crudVars
  BY DEF EngineMovesOnward
<1>3. CrudInit => Owned
  BY DEF CrudInit, Init, Owned, OwnAnswer
<1>4. CrudTypeInv /\ Owned /\ [CrudNext]_crudVars => (CrudTypeInv /\ Owned)'
  BY CrudTypeStep, OwnedStep
<1> HIDE DEF Onwardly
<1> QED BY <1>1, <1>2, <1>3, <1>4, CrudTypeInit, PTL DEF CrudSpec

-----------------------------------------------------------------------------
(* Rows nobody else has written.                                           *)

\* All copies and messages of row n say what the row says.
CopiesFaithful(n) ==
    /\ \A w \in Worker : \A e \in taken[w] : e.key = n => e = Envelope(n)
    /\ \A m \in DOMAIN messages : messages[m].key = n => messages[m] = Envelope(n)

\* Row n is as far as the outbox, its message id and the reports say.
Told(n) ==
    /\ HandOffStaged(n) /\ ReceiptsTrue(n)
    /\ rows[n].msg \notin given => ReceiptStaged(n)
    /\ rows[n].status \in {"sent", "delivered", "undelivered"} => rows[n].msg # 0
    /\ rows[n].status = "delivered" => <<rows[n].msg, "delivered">> \in reports
    /\ rows[n].status = "undelivered" => <<rows[n].msg, rows[n].reason>> \in reports

KeptInv ==
    /\ OutboxAboutRows
    /\ \A n \in DOMAIN rows \ touched : ~Gone(n) => CopiesFaithful(n) /\ Told(n)

(***************************************************************************)
(* A row untouched after a step was there untouched before, saying the     *)
(* same, or has just been claimed.                                         *)
(***************************************************************************)
LEMMA UntouchedRows ==
    ASSUME CrudTypeInv, [CrudNext]_crudVars,
           NEW n \in DOMAIN rows' \ touched', rows'[n].status # "gone"
    PROVE  \/ n \in DOMAIN rows \ touched /\ ~Gone(n) /\ Envelope(n)' = Envelope(n)
           \/ \E row : ClaimsSlot(row) /\ n \notin DOMAIN rows /\ rows'[n] = row
<1>0. StoreTyped
  BY DEF CrudTypeInv
<1>1. CASE UNCHANGED <<rows, touched>>
  BY <1>1 DEF Gone, Envelope
<1>2. ASSUME NEW row, ClaimsSlot(row), UNCHANGED touched
      PROVE  \/ n \in DOMAIN rows \ touched /\ ~Gone(n) /\ Envelope(n)' = Envelope(n)
             \/ \E r : ClaimsSlot(r) /\ n \notin DOMAIN rows /\ rows'[n] = r
  <2>1. /\ DOMAIN rows' = DOMAIN rows \cup {Len(rows) + 1}
        /\ rows'[Len(rows) + 1] = row /\ Len(rows) + 1 \notin DOMAIN rows
        /\ \A k \in DOMAIN rows : rows'[k] = rows[k]
    BY <1>0, <1>2, ClaimAppends DEF ClaimsSlot
  <2> QED BY <1>2, <2>1 DEF Gone, Envelope
<1>3. ASSUME NEW k, NEW row, NEW e, Commits(k, row, e), UNCHANGED touched
      PROVE  n \in DOMAIN rows \ touched /\ ~Gone(n) /\ Envelope(n)' = Envelope(n)
  <2>1. /\ DOMAIN rows' = DOMAIN rows /\ rows'[k] = row
        /\ \A j \in DOMAIN rows : j # k => rows'[j] = rows[j]
    BY <1>0, <1>3, CommitChanges
  <2> QED BY <1>3, <2>1 DEF Commits, Onwards, Gone, Envelope
<1>3a. ASSUME NEW m, NEW o, NEW e, Receives(m, o, e), UNCHANGED touched
      PROVE  n \in DOMAIN rows \ touched /\ ~Gone(n) /\ Envelope(n)' = Envelope(n)
  BY <1>0, <1>3a, ReceiptChanges DEF Gone, Envelope
<1>4. ASSUME NEW row, Adds(row)
      PROVE  n \in DOMAIN rows \ touched /\ ~Gone(n) /\ Envelope(n)' = Envelope(n)
  <2>1. /\ DOMAIN rows' = DOMAIN rows \cup {Len(rows) + 1}
        /\ \A k \in DOMAIN rows : rows'[k] = rows[k]
    BY <1>0, <1>4, ClaimAppends DEF Adds
  <2> QED BY <1>4, <2>1 DEF Adds, Gone, Envelope
<1>5. ASSUME NEW k, NEW row, Rewrites(k, row)
      PROVE  n \in DOMAIN rows \ touched /\ ~Gone(n) /\ Envelope(n)' = Envelope(n)
  <2>1. /\ DOMAIN rows' = DOMAIN rows
        /\ \A j \in DOMAIN rows : j # k => rows'[j] = rows[j]
    BY <1>0, <1>5, RewriteChanges
  <2> QED BY <1>5, <2>1 DEF Rewrites, Gone, Envelope
<1>6. CASE Trashes
  BY <1>6 DEF Trashes, Wiped, SameContent, Gone, Envelope
<1>7. CASE EngineNext
  <2>1. UNCHANGED touched
    BY <1>7 DEF EngineNext, crud
  <2> QED BY <1>1, <1>2, <1>3, <1>7, <1>3a, <2>1, EngineSends, EngineStores DEF store
<1>8. CASE CrudWrite \/ SeederRollback
  BY <1>4, <1>5, <1>6, <1>8, ForeignWrites
<1> QED BY <1>1, <1>7, <1>8 DEF CrudNext, crudVars, crud, vars

(***************************************************************************)
(* The copies of an untouched row stay faithful: what is taken is taken    *)
(* from the row, and what is sent is one of the copies.                    *)
(***************************************************************************)
LEMMA CopiesStayFaithful ==
    ASSUME CrudTypeInv, OneMessage, KeptInv, [CrudNext]_crudVars,
           NEW n \in DOMAIN rows' \ touched', rows'[n].status # "gone"
    PROVE  CopiesFaithful(n)'
<1>0. StoreTyped
  BY DEF CrudTypeInv
<1>1. /\ \A w \in Worker : \A e \in taken[w] : e.key = n => e = Envelope(n)'
      /\ \A m \in DOMAIN messages : messages[m].key = n => messages[m] = Envelope(n)'
  <2>1. CASE n \in DOMAIN rows \ touched /\ ~Gone(n) /\ Envelope(n)' = Envelope(n)
    BY <2>1 DEF KeptInv, CopiesFaithful
  <2>2. CASE n \notin DOMAIN rows
    BY <2>2 DEF OneMessage, CrudTypeInv, CopiesHold
  <2> QED BY <2>1, <2>2, UntouchedRows
<1>2. \A w \in Worker : \A e \in taken'[w] : e.key = n => e = Envelope(n)'
  <2>1. CASE EngineNext
    <3>1. ASSUME NEW w \in Worker, NEW e \in taken'[w], e.key = n PROVE e = Envelope(n)'
      <4>1. taken'[w] \in {{Envelope(k)' : k \in {cur'[w]} \cup batch'[w]}, {}, taken[w]}
        BY <2>1 DEF EngineNext, Take
      <4>2. \A k : Envelope(k)'.key = k
        BY DEF Envelope
      <4> QED BY <1>1, <3>1, <4>1, <4>2
    <3> QED BY <3>1
  <2>2. CASE CrudWrite \/ SeederRollback
    BY <1>1, <2>2, ForeignWrites
  <2> QED BY <1>1, <2>1, <2>2 DEF CrudNext, crudVars
<1>3. \A m \in DOMAIN messages' : messages'[m].key = n => messages'[m] = Envelope(n)'
  <2>1. CASE UNCHANGED messages
    BY <1>1, <2>1
  <2>2. ASSUME NEW w \in Worker, pc[w] = "dispatch", messages' = Append(messages, InHand(w))
        PROVE  \A m \in DOMAIN messages' : messages'[m].key = n => messages'[m] = Envelope(n)'
    <3>1. InHand(w) \in taken[w] /\ InHand(w) \in Message
      BY <2>2, InHandIsTaken DEF CrudTypeInv
    <3>2. PICK e \in taken[w] : e = InHand(w)
      BY <3>1
    <3>3. /\ DOMAIN messages' = DOMAIN messages \cup {Len(messages) + 1}
          /\ messages'[Len(messages) + 1] = e
          /\ \A m \in DOMAIN messages : messages'[m] = messages[m]
      BY <1>0, <2>2, <3>1, <3>2, SendAppends
    <3> QED BY <1>1, <3>2, <3>3
  <2>3. CASE EngineNext
    BY <2>1, <2>2, <2>3, EngineSends
  <2>4. CASE CrudWrite \/ SeederRollback
    BY <2>1, <2>4, ForeignWrites DEF gateway
  <2> QED BY <2>1, <2>3, <2>4 DEF CrudNext, crudVars, vars
<1> QED BY <1>2, <1>3 DEF CopiesFaithful

(***************************************************************************)
(* A commit keeps a row and what is told of it in step, whether or not it  *)
(* still found the row pending.                                            *)
(***************************************************************************)
LEMMA CommitTells ==
    ASSUME CrudTypeInv, NEW n, NEW row, NEW e, Commits(n, row, e), UNCHANGED <<gateway, given>>,
           NEW k \in DOMAIN rows, Told(k)
    PROVE  Told(k)'
<1> USE DEF gateway
<1>1. /\ DOMAIN rows' = DOMAIN rows /\ rows'[n] = row
      /\ \A j \in DOMAIN rows : j # n => rows'[j] = rows[j]
      /\ DOMAIN outbox' = DOMAIN outbox \cup {Len(outbox) + 1}
      /\ outbox'[Len(outbox) + 1] = e
      /\ \A i \in DOMAIN outbox : outbox'[i] = outbox[i]
  BY CommitChanges DEF CrudTypeInv
<1>2. n \in DOMAIN rows /\ e \in Event /\ e.n = n
      /\ e.kind \in {"NotificationDispatched", "NotificationFailed"}
  BY DEF Commits, Onwards
<1>3. \A j, kind : Staged(j, kind)' <=> Staged(j, kind) \/ (j = n /\ kind = e.kind)
  BY <1>1, <1>2 DEF Staged
<1>4. HandOffStaged(k) /\ ReceiptsTrue(k) /\ (rows[k].msg \notin given => ReceiptStaged(k))
  BY DEF Told
<1>5. CASE rows'[k] = rows[k]
  <2>1. rows[k].status = "pending" => k # n
    BY <1>1, <1>5 DEF Commits, Onwards
  <2>2. HandOffStaged(k)'
    BY <1>1, <1>2, <1>3, <1>4, <1>5, <2>1 DEF HandOffStaged
  <2>3. ReceiptsTrue(k)' /\ (rows[k].msg \notin given => ReceiptStaged(k)')
    BY <1>2, <1>3, <1>4, <1>5 DEF ReceiptsTrue, ReceiptStaged
  <2> QED BY <1>5, <2>2, <2>3 DEF Told
<1>6. CASE k = n /\ Onwards(n, row, e)
  <2>1. rows[n].status = "pending" /\ row.status \in {"sent", "failed"}
    BY <1>6 DEF Onwards
  <2>2. \A kind : ~Staged(n, kind)
    BY <1>4, <1>6, <2>1 DEF HandOffStaged, Staged
  <2>3. row.status = "sent" => e = [n |-> n, kind |-> "NotificationDispatched", msg |-> row.msg]
    BY <1>2, <1>6 DEF Onwards, Event
  <2>4. row.status = "failed" => Staged(n, "NotificationFailed")'
    BY <1>3, <1>6 DEF Onwards
  <2>5. HandOffStaged(k)'
    BY <1>1, <1>2, <1>6, <2>1, <2>3, <2>4 DEF HandOffStaged
  <2>6. ReceiptsTrue(k)' /\ ReceiptStaged(k)'
    BY <1>1, <1>2, <1>3, <1>6, <2>1, <2>2 DEF ReceiptsTrue, ReceiptStaged
  <2>7. row.status = "sent" => row.msg # 0
    BY <1>6 DEF Onwards
  <2> QED BY <1>1, <1>2, <1>6, <2>1, <2>5, <2>6, <2>7 DEF Told
<1> QED BY <1>1, <1>5, <1>6 DEF Commits

(***************************************************************************)
(* So does a receipt; what it does not announce it has moved by an id that *)
(* CRUD has given to another row.                                          *)
(***************************************************************************)
LEMMA ReceiptTells ==
    ASSUME CrudTypeInv, Owned, NEW m, NEW o, NEW e, Receives(m, o, e),
           UNCHANGED <<gateway, given>>, NEW k \in DOMAIN rows, Told(k)
    PROVE  Told(k)'
<1> USE DEF gateway
<1>1. /\ DOMAIN rows' = DOMAIN rows
      /\ \A j \in DOMAIN rows \ Correlated(m) : rows'[j] = rows[j]
      /\ DOMAIN outbox' = DOMAIN outbox \cup {Len(outbox) + 1}
      /\ outbox'[Len(outbox) + 1] = e
      /\ \A i \in DOMAIN outbox : outbox'[i] = outbox[i]
  <2>1. StoreTyped
    BY DEF CrudTypeInv
  <2>2. DOMAIN rows' = DOMAIN rows /\ \A j \in DOMAIN rows \ Correlated(m) : rows'[j] = rows[j]
    BY <2>1, ReceiptChanges
  <2>3. DOMAIN outbox' = DOMAIN outbox \cup {Len(outbox) + 1}
    BY <2>1, ReceiptChanges
  <2>4. outbox'[Len(outbox) + 1] = e
    BY <2>1, ReceiptChanges
  <2>5. \A i \in DOMAIN outbox : outbox'[i] = outbox[i]
    BY <2>1, ReceiptChanges
  <2> QED BY <2>2, <2>3, <2>4, <2>5
<1>2. /\ e.n \in Correlated(m) /\ <<m, o>> \in reports
      /\ o = "delivered" => e.kind = "NotificationDelivered"
      /\ o # "delivered" => e.kind = "NotificationUndelivered"
  BY DEF Receives, ReceiptKind
<1>3. \A j, kind : Staged(j, kind)' <=> Staged(j, kind) \/ (j = e.n /\ kind = e.kind)
  BY <1>1 DEF Staged
<1>4. HandOffStaged(k) /\ ReceiptsTrue(k) /\ (rows[k].msg \notin given => ReceiptStaged(k))
  BY DEF Told
<1>5. CASE k \notin Correlated(m)
  <2>1. rows'[k] = rows[k] /\ e.n # k
    BY <1>1, <1>2, <1>5
  <2>2. HandOffStaged(k)'
    BY <1>1, <1>3, <1>4, <2>1 DEF HandOffStaged
  <2>3. ReceiptsTrue(k)' /\ (rows[k].msg \notin given => ReceiptStaged(k)')
    BY <1>3, <1>4, <2>1 DEF ReceiptsTrue, ReceiptStaged
  <2> QED BY <2>1, <2>2, <2>3 DEF Told
<1>6. CASE k \in Correlated(m)
  <2>1. /\ rows[k].status = "sent" /\ rows[k].msg = m /\ rows'[k].msg = m
        /\ o = "delivered" => rows'[k].status = "delivered"
        /\ o # "delivered" => rows'[k].status = "undelivered" /\ rows'[k].reason = o
    BY <1>6, ReceiptChanges DEF CrudTypeInv
  <2>2. HandOffStaged(k)'
    <3>1. PICK i \in DOMAIN outbox :
            outbox[i] = [n |-> k, kind |-> "NotificationDispatched", msg |-> m]
      BY <1>4, <2>1 DEF HandOffStaged
    <3>2. i \in DOMAIN outbox' /\ outbox'[i] = outbox[i]
      BY <1>1
    <3> QED BY <2>1, <3>1, <3>2 DEF HandOffStaged
  <2>3. ReceiptsTrue(k)'
    BY <1>2, <1>3, <1>4, <2>1 DEF ReceiptsTrue
  <2>4. m \notin given => ReceiptStaged(k)'
    <3>1. m \notin given => k = e.n
      <4>1. m # 0
        BY LenProperties DEF Receives, CrudTypeInv, StoreTyped
      <4>2. e.n \in DOMAIN rows /\ rows[e.n].msg = m
        BY <1>2 DEF Correlated
      <4> QED BY <2>1, <4>1, <4>2, SharedIdsAreGiven
    <3> QED BY <1>2, <1>3, <2>1, <3>1 DEF ReceiptStaged
  <2>5. m # 0
    BY <2>1 DEF Told
  <2> QED BY <1>2, <2>1, <2>2, <2>3, <2>4, <2>5 DEF Told
<1> QED BY <1>5, <1>6

LEMMA KeptStep ==
    ASSUME CrudTypeInv, OneMessage, Owned, KeptInv, [CrudNext]_crudVars
    PROVE  KeptInv'
<1> USE DEF gateway
<1>0. StoreTyped
  BY DEF CrudTypeInv
<1>1. OutboxAboutRows'
  <2>1. CASE UNCHANGED outbox
    <3>1. DOMAIN rows \subseteq DOMAIN rows'
      <4>1. ASSUME NEW row, Adds(row) PROVE DOMAIN rows \subseteq DOMAIN rows'
        BY <1>0, <4>1, ClaimAppends DEF Adds
      <4>2. ASSUME NEW n, NEW row, Rewrites(n, row) PROVE DOMAIN rows \subseteq DOMAIN rows'
        BY <1>0, <4>2, RewriteChanges
      <4>3. CASE CrudWrite \/ SeederRollback
        BY <4>1, <4>2, <4>3, ForeignWrites DEF Trashes
      <4> QED BY <4>3, EngineKeepsStore DEF CrudNext, crudVars, vars
    <3> QED BY <2>1, <3>1 DEF KeptInv, OutboxAboutRows
  <2>2. ASSUME NEW n, NEW row, NEW e, Commits(n, row, e) PROVE OutboxAboutRows'
    BY <1>0, <2>2, CommitChanges DEF KeptInv, OutboxAboutRows, Commits
  <2>3. ASSUME NEW m, NEW o, NEW e, Receives(m, o, e) PROVE OutboxAboutRows'
    <3>1. e.n \in DOMAIN rows
      BY <2>3 DEF Receives, Correlated
    <3> QED BY <1>0, <2>3, <3>1, ReceiptChanges DEF KeptInv, OutboxAboutRows
  <2>4. CASE EngineNext
    BY <2>1, <2>2, <2>3, <2>4, EngineSends, EngineStores DEF store, ClaimsSlot
  <2>5. CASE CrudWrite \/ SeederRollback
    BY <2>1, <2>5, ForeignWrites
  <2> QED BY <2>1, <2>4, <2>5 DEF CrudNext, crudVars, vars
<1>2. ASSUME NEW n \in DOMAIN rows' \ touched', rows'[n].status # "gone" PROVE Told(n)'
  <2>0. reports \subseteq reports' /\ given \subseteq given'
    BY GatewayKeeps, CrudRemembers
  <2>1. ASSUME n \in DOMAIN rows \ touched, ~Gone(n), Envelope(n)' = Envelope(n)
        PROVE  Told(n)'
    <3>1. Told(n)
      BY <2>1 DEF KeptInv
    <3>2. CASE /\ UNCHANGED outbox
               /\ rows'[n].status = rows[n].status /\ rows'[n].msg = rows[n].msg
               /\ rows'[n].reason = rows[n].reason
      BY <2>0, <3>1, <3>2 DEF Told, HandOffStaged, ReceiptsTrue, ReceiptStaged, Staged
    <3>3. ASSUME NEW row, ClaimsSlot(row) \/ Adds(row)
          PROVE  rows'[n] = rows[n]
      BY <1>0, <2>1, <3>3, ClaimAppends DEF ClaimsSlot, Adds
    <3>4. CASE EngineNext
      <4>1. UNCHANGED given
        BY <3>4 DEF EngineNext, crud
      <4> QED BY <2>1, <3>1, <3>2, <3>3, <3>4, <4>1, CommitTells, ReceiptTells, EngineSends,
                 EngineStores DEF store, ClaimsSlot
    <3>5. ASSUME NEW k, NEW row, Rewrites(k, row) PROVE rows'[n] = rows[n]
      BY <1>0, <1>2, <2>1, <3>5, RewriteChanges DEF Rewrites
    <3>6. CASE CrudWrite \/ SeederRollback
      BY <1>2, <2>1, <3>2, <3>3, <3>5, <3>6, ForeignWrites DEF Trashes, Wiped, SameContent
    <3> QED BY <3>2, <3>4, <3>6 DEF CrudNext, crudVars, vars
  <2>2. ASSUME NEW row, ClaimsSlot(row), n \notin DOMAIN rows, rows'[n] = row PROVE Told(n)'
    <3>1. rows'[n].status = "pending" /\ outbox' = outbox
      BY <2>2 DEF ClaimsSlot
    <3>2. \A i \in DOMAIN outbox : outbox[i].n # n
      BY <2>2 DEF KeptInv, OutboxAboutRows
    <3> QED BY <3>1, <3>2 DEF Told, HandOffStaged, ReceiptsTrue, ReceiptStaged, Staged
  <2> QED BY <1>2, <2>1, <2>2, UntouchedRows
<1> QED BY <1>1, <1>2, CopiesStayFaithful DEF KeptInv, Gone

(***************************************************************************)
(* A notification CRUD never wrote is as the engine keeps it: its hand-off *)
(* is staged, its message says what the row says, and the reports it was   *)
(* moved by are its own, on every surface, whatever is done to the rows    *)
(* around it.  Its receipt is announced and its message id nobody else's   *)
(* as long as CRUD has not given that id to another row.                   *)
(***************************************************************************)
THEOREM UntouchedStayFaithful == CrudSpec => []UntouchedRowsFaithful
<1>1. CrudInit => OneMessage /\ Owned /\ KeptInv
  BY DEF CrudInit, Init, OneMessage, Owned, OwnAnswer, KeptInv, OutboxAboutRows
<1>2. CrudTypeInv /\ OneMessage /\ Owned /\ KeptInv => UntouchedRowsFaithful
  <2> SUFFICES ASSUME CrudTypeInv, OneMessage, Owned, KeptInv,
                      NEW n \in DOMAIN rows \ touched, ~Gone(n)
               PROVE  /\ HandOffStaged(n) /\ ReceiptsTrue(n) /\ OwnsMessage(n)
                      /\ rows[n].msg \notin given => ReceiptStaged(n) /\ SharesNoMessage(n)
    BY DEF UntouchedRowsFaithful
  <2>1. CopiesFaithful(n) /\ Told(n)
    BY DEF KeptInv
  <2>2. ASSUME rows[n].status \in {"sent", "delivered", "undelivered"}
        PROVE  rows[n].msg \in DOMAIN messages /\ messages[rows[n].msg] = Envelope(n)
    <3>1. rows[n].msg # 0
      BY <2>1, <2>2 DEF Told
    <3>2. rows[n].msg \in DOMAIN messages /\ messages[rows[n].msg].key = n
      BY <3>1 DEF Owned, OwnMessage
    <3> QED BY <2>1, <3>2 DEF CopiesFaithful
  <2>3. OwnsMessage(n)
    BY <2>1, <2>2 DEF OwnsMessage, Told
  <2>4. rows[n].msg \notin given => SharesNoMessage(n)
    BY <2>1, SharedIdsAreGiven DEF SharesNoMessage, Told
  <2> QED BY <2>1, <2>3, <2>4 DEF Told
<1>3. CrudTypeInv /\ OneMessage /\ Owned /\ KeptInv /\ [CrudNext]_crudVars
        => (CrudTypeInv /\ OneMessage /\ Owned /\ KeptInv)'
  BY CrudTypeStep, KeyStep, OwnedStep, KeptStep
<1> QED BY <1>1, <1>2, <1>3, CrudTypeInit, PTL DEF CrudSpec
=============================================================================
