-------------------------- MODULE NotificationCrud --------------------------
(***************************************************************************)
(* The write engine beside the generic routes of the deployment: where it  *)
(* mounts all_crud_routes, administrators create, edit, soft-delete,       *)
(* restore and purge the same notification rows while the engine's callers *)
(* run; and a seeder may be rolled back.  The module's own comments call   *)
(* this surface unguarded; the properties say what it can and cannot       *)
(* spoil, and that without its write routes only the engine writes.        *)
(*                                                                         *)
(* A caller of the engine dispatches the copy of a row it read or claimed, *)
(* which here may differ from the row by then (taken).  A purged row keeps *)
(* its number, as "gone", and no address, so that it holds no slot.        *)
(* touched and given only record what CRUD has done.                       *)
(***************************************************************************)
EXTENDS NotificationWrite, HttpRoutes

CONSTANTS
    Misfit,          \* the bodies the row rules refuse: blank or over length
    EditStatus,      \* the statuses administrators give a row
    EditReason,      \* the failure reasons they give it
    MaxEdits         \* bound on the writes made through CRUD

VARIABLES
    taken,           \* caller -> the requests it will dispatch, as it read them
    touched,         \* the rows whose content CRUD has written
    given,           \* the message ids it wrote into rows that had another or none
    edits

crud     == <<touched, given, edits>>
crudVars == <<vars, taken, crud>>

CrudStatus == Status \cup {"skipped"}

ASSUME CrudAssumption ==
    /\ Misfit \subseteq Body
    /\ EditStatus \subseteq CrudStatus
    /\ EditReason \subseteq Rejection \cup Bounce \cup {NoReason}
    /\ MaxEdits \in Nat
    /\ Surface \in Surfaces

Gone(n) == rows[n].status = "gone"
Live    == {n \in DOMAIN rows : ~Gone(n) /\ ~rows[n].deleted}
Trash   == {n \in DOMAIN rows : ~Gone(n) /\ rows[n].deleted}

Erased(row) == [row EXCEPT !.addr = NoAddress, !.status = "gone", !.msg = 0,
                           !.reason = NoReason, !.deleted = TRUE]

\* NotificationRowRules: a create is checked whole, an update where it changes.
RowRulesAllowCreate(row) == row.body \notin Misfit /\ row.reason \notin Overlong

RowRulesAllowUpdate(old, row) ==
    /\ row.body # old.body => row.body \notin Misfit
    /\ row.reason # old.reason => row.reason \notin Overlong

-----------------------------------------------------------------------------
(* The engine, over rows that may change under it                          *)

\* Variant: what is sent is the call's template, not the text the row was stored with.
InHandRerendered(w) == [(CHOOSE e \in taken[w] : e.key = cur[w]) EXCEPT !.body = tmpl[w]]

\* The request in hand, as the row stood when it was claimed or listed.
InHand(w) == CHOOSE e \in taken[w] : e.key = cur[w]

\* Claiming or listing takes copies; the end of the call drops them.
Take ==
    taken' = [w \in Worker |->
        IF pc[w] \in {"idle", "claim"} /\ pc'[w] = "dispatch"
          THEN {Envelope(n)' : n \in {cur'[w]} \cup batch'[w]}
          ELSE IF pc'[w] \in {"idle", "claim"} THEN {} ELSE taken[w]]

EngineNext ==
    /\ \/ \E q \in Request : Deliver(q)
       \/ \E w \in Sweeper : SweepBegin(w)
       \/ Record
       \/ \E w \in Worker :
             Proceed(w) \/ Send(w, InHand(w)) \/ SendLost(w, InHand(w)) \/ Crash(w)
       \/ \E m \in DOMAIN messages, o \in Outcome : Report(m, o)
       \/ TemplateWrite
    /\ Take
    /\ UNCHANGED crud

-----------------------------------------------------------------------------
(* The CRUD surface                                                        *)

Mounted(route) == route \in Surface.notification

Edit(rs) ==
    /\ edits' = edits + 1
    /\ rows' = rs
    /\ UNCHANGED <<outbox, templates, writes, gateway, published, broker, faults,
                   pc, locals, taken>>

\* What a caller can write as a message id: that of any message, or none.  Nothing
\* ties it to the row.  An id that no message has correlates with as little as none.
MessageId == 0..Len(messages)

Given(row, was) == given' = given \cup ({row.msg} \ {0, was})

\* The row a create request becomes; the id it is given is a fresh one.
Posted(q, a, b, s, m, r) ==
    [req |-> q, addr |-> a, body |-> b, status |-> s, msg |-> m,
     reason |-> r, deleted |-> FALSE]

\* POST /notifications, one of a bulk create, or an upsert of a new id.
CrudCreate(q, a, b, s, m, r) ==
    LET row == Posted(q, a, b, s, m, r) IN
    /\ Mounted("create")
    /\ RowRulesAllowCreate(row)
    /\ ~Held(EventId[q], a)
    /\ Edit(Append(rows, row))
    /\ touched' = touched \cup {Len(rows) + 1}
    /\ Given(row, 0)

\* apply_update: every field is the caller's.
Replaced(row, q, a, b, s, m, r) ==
    [row EXCEPT !.req = q, !.addr = a, !.body = b, !.status = s, !.msg = m, !.reason = r]

\* apply_patch: a field the caller does not name stands, as if it named what the
\* row holds.
Patched(row, q, a, b, s, m, r) == Replaced(row, q, a, b, s, m, r)

Overwrite(n, row) ==
    /\ Mounted("update")
    /\ n \in Live
    /\ RowRulesAllowUpdate(rows[n], row)
    /\ \A k \in DOMAIN rows \ {n} : SlotOf(k) # <<EventId[row.req], row.addr>>
    /\ Edit([rows EXCEPT ![n] = row])
    /\ touched' = touched \cup {n}
    /\ Given(row, rows[n].msg)

\* PUT and PATCH of a live row.
CrudPut(n, q, a, b, s, m, r) == Overwrite(n, Replaced(rows[n], q, a, b, s, m, r))

CrudPatch(n, q, a, b, s, m, r) == Overwrite(n, Patched(rows[n], q, a, b, s, m, r))

CrudDelete(n) ==
    /\ Mounted("delete")
    /\ n \in Live
    /\ Edit([rows EXCEPT ![n].deleted = TRUE])
    /\ UNCHANGED <<touched, given>>

\* Variant: a restored notification starts over.
CrudRestoreAsNew(n) ==
    /\ Mounted("restore")
    /\ n \in Trash
    /\ Edit([rows EXCEPT ![n] = [@ EXCEPT !.deleted = FALSE, !.status = "pending"]])
    /\ UNCHANGED <<touched, given>>

CrudRestore(n) ==
    /\ Mounted("restore")
    /\ n \in Trash
    /\ Edit([rows EXCEPT ![n].deleted = FALSE])
    /\ UNCHANGED <<touched, given>>

CrudPurge(n) ==
    /\ Mounted("purge")
    /\ n \in Trash
    /\ Edit([rows EXCEPT ![n] = Erased(@)])
    /\ UNCHANGED <<touched, given>>

EmptyTrash ==
    /\ Mounted("purge")
    /\ Trash # {}
    /\ Edit([n \in DOMAIN rows |-> IF n \in Trash THEN Erased(rows[n]) ELSE rows[n]])
    /\ UNCHANGED <<touched, given>>

\* SeedNotificationSeeder::rollback deletes every row, seeded or not.
SeederRollback ==
    /\ rows # <<>>
    /\ Edit([n \in DOMAIN rows |-> Erased(rows[n])])
    /\ UNCHANGED <<touched, given>>

CrudInit ==
    /\ Init
    /\ taken = [w \in Worker |-> {}]
    /\ touched = {} /\ given = {} /\ edits = 0

CrudWrite ==
    \/ \E q \in Request, a \in Address, b \in Body, m \in MessageId :
          \/ \E s \in EditStatus, r \in EditReason :
                \/ CrudCreate(q, a, b, s, m, r)
                \/ \E n \in DOMAIN rows : CrudPut(n, q, a, b, s, m, r)
          \/ \E n \in DOMAIN rows :
                \E s \in EditStatus \cup {rows[n].status}, r \in EditReason \cup {rows[n].reason} :
                   CrudPatch(n, q, a, b, s, m, r)
    \/ \E n \in DOMAIN rows : CrudDelete(n) \/ CrudRestore(n) \/ CrudPurge(n)
    \/ EmptyTrash

CrudNext ==
    \/ EngineNext
    \/ edits < MaxEdits /\ (CrudWrite \/ SeederRollback)

CrudSpec == CrudInit /\ [][CrudNext]_crudVars

-----------------------------------------------------------------------------
(***************************************************************************)
(* Type correctness, with the states only CRUD can put a row in.           *)
(***************************************************************************)
CrudRow == [req : Request, addr : Address \cup {NoAddress}, body : Body,
            status : CrudStatus \cup {"gone"}, msg : Nat,
            reason : Rejection \cup Bounce \cup {NoReason}, deleted : BOOLEAN]

CrudTypeOK ==
    /\ rows \in Seq(CrudRow)
    /\ FramesTypeOK
    /\ \A w \in Worker : pc[w] = "dispatch" => \E e \in taken[w] : e.key = cur[w]
    /\ touched \subseteq DOMAIN rows
    /\ given \subseteq Nat \ {0}
    /\ edits \in 0..MaxEdits

(***************************************************************************)
(* Where the transport dedups, a recipient hears twice of one event only   *)
(* after CRUD has freed the slot in between, by purging the row or giving  *)
(* it another address: two messages of one slot are never both of rows     *)
(* that still hold it, soft-deleted and restored ones included.            *)
(***************************************************************************)
RepeatsNeedAFreedSlot ==
    \A i, j \in DOMAIN messages :
        LET slot == <<EventId[messages[i].req], messages[i].addr>> IN
        /\ i # j
        /\ {ChannelOf(messages[i].req), ChannelOf(messages[j].req)} \subseteq Keyed
        /\ <<EventId[messages[j].req], messages[j].addr>> = slot
        => SlotOf(messages[i].key) # slot \/ SlotOf(messages[j].key) # slot

(***************************************************************************)
(* A notification CRUD never wrote stays as the engine keeps it, through   *)
(* soft deletes and restores of its own and whatever is done to the rows   *)
(* around it: what the outbox says of it is so, and its message and its    *)
(* reports are its own.  Only the announcement of its receipt, and its     *)
(* message id being nobody else's, can CRUD take from it, and only by      *)
(* writing that very id into another row: a receipt moves them both, and   *)
(* one of the two is announced.                                            *)
(***************************************************************************)
UntouchedRowsFaithful ==
    \A n \in DOMAIN rows \ touched : ~Gone(n) =>
        /\ HandOffStaged(n) /\ ReceiptsTrue(n) /\ OwnsMessage(n)
        /\ rows[n].msg \notin given => ReceiptStaged(n) /\ SharesNoMessage(n)

Onward == {<<"pending", "sent">>, <<"pending", "failed">>,
           <<"sent", "delivered">>, <<"sent", "undelivered">>}

Moved == {n \in DOMAIN rows : rows'[n] # rows[n]}

(***************************************************************************)
(* Whatever CRUD has made of a row meanwhile, the engine itself only moves *)
(* it onward from the status it has now, in a step that announces one of   *)
(* the rows it moves: it revives no purged row and overwrites no later     *)
(* state.  It moves two rows at once only where CRUD has given one of them *)
(* the message id of the other.                                            *)
(***************************************************************************)
EngineMovesOnward ==
    [][edits' = edits =>
         /\ \A n \in Moved :
              /\ <<rows[n].status, rows'[n].status>> \in Onward
              /\ <<rows'[n].addr, rows'[n].body, rows'[n].deleted>>
                   = <<rows[n].addr, rows[n].body, rows[n].deleted>>
         /\ Moved # {} => /\ Len(outbox') = Len(outbox) + 1
                          /\ outbox'[Len(outbox')].n \in Moved
         /\ \A i, j \in Moved : i # j =>
              rows[i].msg = rows[j].msg /\ rows[i].msg \in given]_crudVars

(***************************************************************************)
(* Until the first foreign write the engine beside the routes is the       *)
(* engine by itself: the copies its callers took still say what the rows   *)
(* say, so each of its steps is one NotificationWrite allows.              *)
(***************************************************************************)
EngineAloneUntilEdited == [][edits' = 0 => Next]_crudVars
=============================================================================
