--------------------- MODULE NotificationLifecycleProofs --------------------
(***************************************************************************)
(* The write engine implements NotificationLifecycle, for every set of     *)
(* callers, requests and recipients: each of its steps is, for the slot it *)
(* touches, a step of the abstract lifecycle, or a stutter.                *)
(***************************************************************************)
EXTENDS NotificationWriteProofs

-----------------------------------------------------------------------------
(* Reading the abstract state off a row.                                   *)

(***************************************************************************)
(* Slots being unique, the holder of a row's slot is that row, and the     *)
(* abstract state of the slot is the row's.                                *)
(***************************************************************************)
LEMMA HolderIsTheRow ==
    ASSUME SlotsUnique, NEW n \in DOMAIN rows
    PROVE  /\ HolderOf(SlotOf(n)) = n
           /\ StateOf(SlotOf(n)) = rows[n].status
           /\ AnnouncedOf(SlotOf(n)) = {k \in Kind : Staged(n, k)}
<1>1. HolderOf(SlotOf(n)) = n
  BY DEF SlotsUnique, HolderOf
<1>2. Held(SlotOf(n)[1], SlotOf(n)[2])
  BY DEF Held, SlotOf
<1> QED BY <1>1, <1>2 DEF StateOf, AnnouncedOf

(***************************************************************************)
(* The same of the state a step leads to.                                  *)
(***************************************************************************)
LEMMA HolderIsTheRowNext ==
    ASSUME SlotsUnique', NEW n \in DOMAIN rows', NEW s, s = SlotOf(n)'
    PROVE  /\ StateOf(s)' = rows'[n].status
           /\ AnnouncedOf(s)' = {k \in Kind : Staged(n, k)'}
<1>1. HolderOf(s)' = n
  BY DEF SlotsUnique, HolderOf
<1>2. Held(s[1], s[2])'
  BY DEF Held, SlotOf
<1> QED BY <1>1, <1>2 DEF StateOf, AnnouncedOf

(***************************************************************************)
(* A slot nobody holds is absent and unannounced.                          *)
(***************************************************************************)
LEMMA FreeIsAbsent ==
    ASSUME NEW s, ~Held(s[1], s[2])
    PROVE  StateOf(s) = "absent" /\ AnnouncedOf(s) = {}
BY DEF StateOf, AnnouncedOf

(***************************************************************************)
(* A stored row's slot is one of Slot.                                     *)
(***************************************************************************)
LEMMA SlotOfRow ==
    ASSUME TypeInv, NEW n \in DOMAIN rows
    PROVE  SlotOf(n) \in Slot
<1>1. rows[n] \in Row
  BY LenProperties, ElementOfSeq DEF TypeInv, TypeOK, TablesTypeOK
<1> QED BY <1>1 DEF Row, SlotOf, Slot

(***************************************************************************)
(* A slot is held exactly by the rows whose slot it is.                    *)
(***************************************************************************)
LEMMA HeldBySomeRow ==
    ASSUME NEW s \in Slot
    PROVE  Held(s[1], s[2]) <=> \E n \in DOMAIN rows : SlotOf(n) = s
BY DEF Held, Slot, SlotOf

-----------------------------------------------------------------------------
(* The steps, mapped.                                                      *)

states    == [s \in Slot |-> StateOf(s)]
announces == [s \in Slot |-> AnnouncedOf(s)]

(***************************************************************************)
(* A claim is the Claim of the free slot it takes.                         *)
(***************************************************************************)
LEMMA ClaimMaps ==
    ASSUME TypeInv, SlotsUnique, SlotsUnique', OutboxAboutRows, NEW row, Claims(row)
    PROVE  Lifecycle!LifecycleNext
<1>1. rows \in Seq(Row) /\ row \in Row /\ rows' = Append(rows, row) /\ outbox' = outbox
  BY DEF Claims, TypeInv, TypeOK, TablesTypeOK
<1>2. PICK n \in Nat : n = Len(rows) + 1
  BY <1>1, LenProperties
<1>3. /\ n \notin DOMAIN rows /\ DOMAIN rows' = DOMAIN rows \cup {n} /\ rows'[n] = row
      /\ \A k \in DOMAIN rows : rows'[k] = rows[k]
  BY <1>1, <1>2, AppendProperties, LenProperties
<1>4. PICK s \in Slot : s = <<EventId[row.req], row.addr>>
  BY <1>1 DEF Row, Slot
<1>5. SlotOf(n)' = s /\ \A k \in DOMAIN rows : SlotOf(k)' = SlotOf(k)
  BY <1>3, <1>4 DEF SlotOf
<1>6. ~Held(s[1], s[2])
  BY <1>4 DEF Claims
<1>7. \A k, kind : Staged(k, kind)' <=> Staged(k, kind)
  BY <1>1 DEF Staged
<1>8. \A kind : ~Staged(n, kind)
  BY <1>3 DEF Staged, OutboxAboutRows
<1>9. StateOf(s)' = "pending" /\ AnnouncedOf(s)' = {}
  <2>1. StateOf(s)' = row.status /\ AnnouncedOf(s)' = {k \in Kind : Staged(n, k)'}
    BY <1>3, <1>5, HolderIsTheRowNext
  <2> QED BY <1>7, <1>8, <2>1 DEF Claims
<1>10. StateOf(s) = "absent" /\ AnnouncedOf(s) = {}
  BY <1>6, FreeIsAbsent
<1>11. ASSUME NEW t \in Slot, t # s PROVE StateOf(t)' = StateOf(t) /\ AnnouncedOf(t)' = AnnouncedOf(t)
  <2>1. ASSUME NEW k \in DOMAIN rows, SlotOf(k) = t
        PROVE  StateOf(t)' = StateOf(t) /\ AnnouncedOf(t)' = AnnouncedOf(t)
    <3>1. StateOf(t) = rows[k].status /\ AnnouncedOf(t) = {kind \in Kind : Staged(k, kind)}
      BY <2>1, HolderIsTheRow
    <3>2. StateOf(t)' = rows'[k].status /\ AnnouncedOf(t)' = {kind \in Kind : Staged(k, kind)'}
      BY <1>3, <1>5, <2>1, HolderIsTheRowNext
    <3> QED BY <1>3, <1>7, <3>1, <3>2
  <2>2. CASE ~\E k \in DOMAIN rows : SlotOf(k) = t
    <3>1. ~Held(t[1], t[2]) /\ ~Held(t[1], t[2])'
      BY <1>3, <1>5, <1>11, <2>2 DEF Held, Slot, SlotOf
    <3> QED BY <3>1 DEF StateOf, AnnouncedOf
  <2> QED BY <2>1, <2>2
<1>12. Lifecycle!Claim(s)
  <2>1. states' = [states EXCEPT ![s] = "pending"]
    BY <1>9, <1>11 DEF states
  <2>2. announces' = announces
    BY <1>9, <1>10, <1>11 DEF announces
  <2> QED BY <1>10, <2>1, <2>2 DEF Lifecycle!Claim, states, announces
<1> QED BY <1>12 DEF Lifecycle!LifecycleNext

(***************************************************************************)
(* A commit or a receipt is a move of the slot of the row it advances; a   *)
(* late one that finds the row moved already is a Repeat.                  *)
(***************************************************************************)
LEMMA AdvanceMaps ==
    ASSUME TypeInv, SlotsUnique, SlotsUnique', NEW n, NEW row, NEW e, Advances(n, row, e)
    PROVE  Lifecycle!LifecycleNext
<1>1. /\ n \in DOMAIN rows /\ DOMAIN rows' = DOMAIN rows /\ rows'[n] = row
      /\ \A k \in DOMAIN rows : k # n => rows'[k] = rows[k]
  BY DEF Advances
<1>2. PICK s \in Slot : s = SlotOf(n)
  BY <1>1, SlotOfRow
<1>3. \A k \in DOMAIN rows : SlotOf(k)' = SlotOf(k)
  BY <1>1 DEF SlotOf, Advances
<1>4. \A k, kind : Staged(k, kind)' <=> Staged(k, kind) \/ (k = n /\ kind = e.kind)
  <2>1. outbox \in Seq(Event) /\ e \in Event /\ outbox' = Append(outbox, e) /\ e.n = n
    BY DEF Advances, TypeInv, TypeOK, TablesTypeOK
  <2>2. /\ Len(outbox) \in Nat /\ DOMAIN outbox = 1..Len(outbox)
        /\ DOMAIN outbox' = 1..(Len(outbox) + 1)
        /\ outbox'[Len(outbox) + 1] = e
        /\ \A i \in DOMAIN outbox : outbox'[i] = outbox[i]
    BY <2>1, AppendProperties, LenProperties
  <2> QED BY <2>1, <2>2 DEF Staged
<1>5. StateOf(s) = rows[n].status /\ AnnouncedOf(s) = {kind \in Kind : Staged(n, kind)}
  BY <1>1, <1>2, HolderIsTheRow
<1>6. StateOf(s)' = row.status /\ AnnouncedOf(s)' = AnnouncedOf(s) \cup {e.kind}
  <2>1. StateOf(s)' = rows'[n].status /\ AnnouncedOf(s)' = {kind \in Kind : Staged(n, kind)'}
    BY <1>1, <1>2, <1>3, HolderIsTheRowNext
  <2>2. e.kind \in Kind
    BY DEF Advances, Event
  <2> QED BY <1>1, <1>4, <1>5, <2>1, <2>2
<1>7. ASSUME NEW t \in Slot, t # s PROVE StateOf(t)' = StateOf(t) /\ AnnouncedOf(t)' = AnnouncedOf(t)
  <2>1. ASSUME NEW k \in DOMAIN rows, SlotOf(k) = t
        PROVE  StateOf(t)' = StateOf(t) /\ AnnouncedOf(t)' = AnnouncedOf(t)
    <3>1. StateOf(t) = rows[k].status /\ AnnouncedOf(t) = {kind \in Kind : Staged(k, kind)}
      BY <2>1, HolderIsTheRow
    <3>2. StateOf(t)' = rows'[k].status /\ AnnouncedOf(t)' = {kind \in Kind : Staged(k, kind)'}
      BY <1>1, <1>3, <2>1, HolderIsTheRowNext
    <3>3. k # n
      BY <1>2, <1>7, <2>1
    <3> QED BY <1>1, <1>4, <3>1, <3>2, <3>3
  <2>2. CASE ~\E k \in DOMAIN rows : SlotOf(k) = t
    <3>1. ~Held(t[1], t[2]) /\ ~Held(t[1], t[2])'
      BY <1>1, <1>3, <2>2 DEF Held, Slot, SlotOf
    <3> QED BY <3>1 DEF StateOf, AnnouncedOf
  <2> QED BY <2>1, <2>2
<1>8. /\ states' = [states EXCEPT ![s] = row.status]
      /\ announces' = [announces EXCEPT ![s] = @ \cup {e.kind}]
      /\ states[s] = rows[n].status
  BY <1>5, <1>6, <1>7 DEF states, announces
<1>9. ASSUME rows[n].status # "pending", row = rows[n],
             e.kind \in {"NotificationDispatched", "NotificationFailed"}
      PROVE  Lifecycle!Repeat(s)
  <2>1. states' = states
    BY <1>5, <1>6, <1>7, <1>9 DEF states
  <2>2. states[s] \notin {"absent", "pending"}
    <3>1. rows[n] \in Row
      BY <1>1, LenProperties, ElementOfSeq DEF TypeInv, TypeOK, TablesTypeOK
    <3> QED BY <1>8, <1>9, <3>1 DEF Row, Status
  <2> QED BY <1>8, <1>9, <2>1, <2>2 DEF Lifecycle!Repeat, states, announces
<1>10. ASSUME NEW from, NEW to, NEW a,
              rows[n].status = from, row.status = to, e.kind = a
       PROVE  Lifecycle!Move(s, from, to, a)
  BY <1>8, <1>10 DEF Lifecycle!Move, states, announces
<1>11. \/ Lifecycle!Repeat(s)
       \/ Lifecycle!Dispatched(s) \/ Lifecycle!Failed(s)
       \/ Lifecycle!Delivered(s) \/ Lifecycle!Undelivered(s)
  BY <1>9, <1>10 DEF Advances, Lifecycle!Dispatched, Lifecycle!Failed, Lifecycle!Delivered,
                     Lifecycle!Undelivered
<1> QED BY <1>11 DEF Lifecycle!LifecycleNext

(***************************************************************************)
(* The engine implements the lifecycle: whoever calls it and wherever they *)
(* crash, a slot is claimed once, moves forward only, and is announced in  *)
(* the step that moves it.                                                 *)
(***************************************************************************)
THEOREM EngineImplementsLifecycle == Spec => ImplementsLifecycle
<1>1. Init => Lifecycle!LifecycleInit
  BY DEF Init, Lifecycle!LifecycleInit, StateOf, AnnouncedOf, Held
<1> DEFINE Inv == TypeInv /\ NotifyInv /\ CorrelateInv /\ OutboxInv
<1>2. Init => Inv
  BY TypeInit DEF Init, NotifyInv, SlotsUnique, MessagesFromRows, KeyedOnce, CorrelateInv,
                  AnswerCorrelates, OutboxInv, OutboxAboutRows, OutboxCoversState
<1>3. Inv /\ [Next]_vars => Inv'
  BY TypeStep, NotifyStep, CorrelateStep, OutboxStep
<1>4. Inv /\ Inv' /\ [Next]_vars => [Lifecycle!LifecycleNext]_<<states, announces>>
  <2> SUFFICES ASSUME TypeInv, NotifyInv, CorrelateInv, OutboxInv, NotifyInv', [Next]_vars
               PROVE  [Lifecycle!LifecycleNext]_<<states, announces>>
    OBVIOUS
  <2>1. CASE UNCHANGED store
    <3>1. rows' = rows /\ outbox' = outbox
      BY <2>1 DEF store
    <3>2. UNCHANGED <<states, announces>>
      BY <3>1 DEF states, announces, StateOf, AnnouncedOf, HolderOf, Held, SlotOf, Staged
    <3> QED BY <3>2
  <2>2. ASSUME NEW row, Claims(row) PROVE Lifecycle!LifecycleNext
    BY <2>2, ClaimMaps DEF NotifyInv, OutboxInv
  <2>3. ASSUME NEW n, NEW row, NEW e, Advances(n, row, e) PROVE Lifecycle!LifecycleNext
    BY <2>3, AdvanceMaps DEF NotifyInv
  <2> QED BY <2>1, <2>2, <2>3, StoreSteps
<1> HIDE DEF Inv
<1> QED BY <1>1, <1>2, <1>3, <1>4, PTL
        DEF Spec, ImplementsLifecycle, Lifecycle!LifecycleSpec, states, announces
=============================================================================
