--------------------- MODULE NotificationTemplatesProofs --------------------
(***************************************************************************)
(* Proofs about NotificationTemplates, for every set of ids, topics and    *)
(* contents, with and without the composing service's unique index.        *)
(***************************************************************************)
EXTENDS NotificationTemplates, TLAPS

\* Every stored text, served or not, is well formed.
StoredBodiesWellFormed == \A i \in DOMAIN templates : templates[i].body \notin Malformed

TableInv == TemplatesTypeOK /\ StoredBodiesWellFormed

(***************************************************************************)
(* A write of a typed, well-formed row keeps the table so.                 *)
(***************************************************************************)
LEMMA StoreKeepsTable ==
    ASSUME TableInv, NEW i \in TemplateId, NEW row \in TemplateRow, row.body \notin Malformed,
           Write(Stored(i, row))
    PROVE  TableInv'
<1>1. templates' = Stored(i, row) /\ writes' \in 0..MaxTemplateWrites
  BY TemplateAssumption DEF Write, TableInv, TemplatesTypeOK
<1> QED BY <1>1 DEF Stored, TableInv, TemplatesTypeOK, StoredBodiesWellFormed

(***************************************************************************)
(* Every operation on the table keeps its rows typed and well formed: the  *)
(* creates check the body, an update checks it when it changes, the rest   *)
(* carry the stored one over.                                              *)
(***************************************************************************)
LEMMA TableStep ==
    ASSUME TableInv, [TemplatesNext]_templateVars
    PROVE  TableInv'
<1>0. "active" \in TemplateStatus
  BY DEF TemplateStatus
<1>1. ASSUME NEW i \in TemplateId, NEW topic \in Topic, NEW body \in Body,
             NEW status \in TemplateStatus,
             CreateTemplate(i, topic, body) \/ CrudCreate(i, topic, body, status)
      PROVE  TableInv'
  <2>1. \A s \in TemplateStatus :
           NewRow(topic, body, s) \in TemplateRow /\ NewRow(topic, body, s).body = body
    BY DEF NewRow, TemplateRow
  <2> QED BY <1>1, <1>0, <2>1, StoreKeepsTable DEF CreateTemplate, CrudCreate, RowRulesAllowCreate
<1>2. ASSUME NEW i \in TemplateId, NEW topic \in Topic, NEW body \in Body,
             NEW status \in TemplateStatus, NEW named \in SUBSET Field,
             CrudUpdate(i, topic, body, status) \/ CrudPatch(i, named, topic, body, status)
      PROVE  TableInv'
  <2>1. i \in DOMAIN templates
    BY <1>2 DEF CrudUpdate, CrudPatch, Overwrite
  <2>2. PICK row \in TemplateRow : row = templates[i] /\ row.body \notin Malformed
    BY <2>1 DEF TableInv, TemplatesTypeOK, StoredBodiesWellFormed
  <2>3. /\ Replaced(row, topic, body, status) \in TemplateRow
        /\ Patched(row, named, topic, body, status) \in TemplateRow
    BY DEF Replaced, Patched, TemplateRow
  <2>4. PICK new \in TemplateRow : Overwrite(i, new)
    BY <1>2, <2>2, <2>3 DEF CrudUpdate, CrudPatch
  <2>5. new.body \notin Malformed
    BY <2>2, <2>4 DEF Overwrite, RowRulesAllowUpdate
  <2> QED BY <2>4, <2>5, StoreKeepsTable DEF Overwrite
<1>3. ASSUME NEW i \in TemplateId, NEW b \in BOOLEAN, i \in DOMAIN templates,
             Write(Stored(i, [templates[i] EXCEPT !.deleted = b]))
      PROVE  TableInv'
  <2>1. PICK row \in TemplateRow : row = templates[i] /\ row.body \notin Malformed
    BY <1>3 DEF TableInv, TemplatesTypeOK, StoredBodiesWellFormed
  <2>2. PICK marked : marked = [row EXCEPT !.deleted = b]
    OBVIOUS
  <2>3. marked \in TemplateRow /\ marked.body = row.body
    BY <2>2 DEF TemplateRow
  <2> QED BY <1>3, <2>1, <2>2, <2>3, StoreKeepsTable
<1>4. ASSUME NEW i \in TemplateId, SoftDelete(i) \/ Restore(i) PROVE TableInv'
  BY <1>3, <1>4 DEF SoftDelete, Restore
<1>5. ASSUME NEW rows, Remove(rows) PROVE TableInv'
  <2>1. /\ templates' = [j \in DOMAIN templates \ rows |-> templates[j]]
        /\ writes' \in 0..MaxTemplateWrites
    BY <1>5, TemplateAssumption DEF Remove, Write, TableInv, TemplatesTypeOK
  <2> QED BY <2>1 DEF TableInv, TemplatesTypeOK, StoredBodiesWellFormed
<1>6. CASE UNCHANGED templateVars
  BY <1>6 DEF templateVars, TableInv, TemplatesTypeOK, StoredBodiesWellFormed
<1>7. CASE TemplatesNext
  <2>1. CASE EmptyTrash
    BY <1>5, <2>1 DEF EmptyTrash
  <2>2. ASSUME NEW i \in TemplateId, Purge(i) PROVE TableInv'
    BY <1>5, <2>2 DEF Purge
  <2> QED BY <1>0, <1>1, <1>2, <1>4, <1>7, <2>1, <2>2 DEF TemplatesNext
<1> QED BY <1>6, <1>7

(***************************************************************************)
(* The inductive invariant of the table.                                   *)
(***************************************************************************)
LEMMA TableInvariant == TemplatesSpec => []TableInv
<1>1. TemplatesInit => TableInv
  BY TemplateAssumption DEF TemplatesInit, TableInv, TemplatesTypeOK, StoredBodiesWellFormed
<1>2. TableInv /\ [TemplatesNext]_templateVars => TableInv'
  BY TableStep
<1> QED BY <1>1, <1>2, PTL DEF TemplatesSpec

(***************************************************************************)
(* The table holds typed rows, and within the bound on its writes.         *)
(***************************************************************************)
THEOREM TableTyped == TemplatesSpec => []TemplatesTypeOK
<1>1. TableInv => TemplatesTypeOK
  BY DEF TableInv
<1> QED BY <1>1, TableInvariant, PTL

(***************************************************************************)
(* Whatever find_active may hand to notify is neither blank nor over       *)
(* length, however rows are created, edited, retired, trashed and          *)
(* restored, on every surface.                                             *)
(***************************************************************************)
THEOREM ServedAreWellFormed == TemplatesSpec => []ServedBodiesWellFormed
<1>1. TableInv => ServedBodiesWellFormed
  BY DEF TableInv, StoredBodiesWellFormed, ServedBodiesWellFormed, FindActive, Matches
<1> QED BY <1>1, TableInvariant, PTL
=============================================================================
