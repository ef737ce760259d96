----------------------- MODULE NotificationTemplates -----------------------
(***************************************************************************)
(* The notification_templates table: what the write service's              *)
(* create_template and the template CRUD surface do to it, and how notify  *)
(* reads it.  A topic is the pair (event_type, channel) that find_active   *)
(* matches.  The table has no uniqueness of its own; a composing service's *)
(* tenancy decorator may install one (UniqueTopic).                        *)
(***************************************************************************)
EXTENDS Naturals, HttpRoutes

CONSTANTS
    TemplateId,      \* the ids rows can be given
    Topic,           \* (event_type, channel) pairs
    Body,            \* template contents (subject and body)
    Malformed,       \* the contents that are blank or over the column's length
    Surface,         \* the generic routes the deployment mounts
    UniqueTopic,     \* does the deployment install one active template per topic?
    MaxTemplateWrites \* bound on the writes a behaviour makes to the table

ASSUME TemplateAssumption ==
    /\ Malformed \subseteq Body
    /\ Surface \in Surfaces
    /\ UniqueTopic \in BOOLEAN
    /\ MaxTemplateWrites \in Nat

VARIABLES
    templates,       \* the stored rows, by id
    writes           \* number of writes so far

templateVars == <<templates, writes>>

TemplateStatus == {"active", "inactive"}
TemplateRow == [topic : Topic, body : Body, status : TemplateStatus, deleted : BOOLEAN]

-----------------------------------------------------------------------------
\* The rows find_active's WHERE clause matches.
Matches(t, topic) ==
    {i \in DOMAIN t : t[i].topic = topic /\ t[i].status = "active" /\ ~t[i].deleted}

\* What find_active may return: LIMIT 1 with no ORDER BY is any one of them.
FindActive(topic) == {templates[i].body : i \in Matches(templates, topic)}

\* What find_by_id, and so render_template_by_id, finds: any status, not deleted.
FindById(i) == IF i \in DOMAIN templates /\ ~templates[i].deleted
                 THEN {templates[i].body} ELSE {}

\* Would the table with rows t break the decorator's unique index?
BreaksUnique(t) ==
    UniqueTopic /\ \E i, j \in DOMAIN t :
        i # j /\ {i, j} \subseteq Matches(t, t[i].topic)

Stored(i, row) ==
    [j \in DOMAIN templates \cup {i} |-> IF j = i THEN row ELSE templates[j]]

\* A statement that the table's constraints let through.
Write(t) ==
    /\ writes < MaxTemplateWrites
    /\ ~BreaksUnique(t)
    /\ templates' = t
    /\ writes' = writes + 1

-----------------------------------------------------------------------------
Mounted(route) == route \in Surface.template

NewRow(topic, body, status) ==
    [topic |-> topic, body |-> body, status |-> status, deleted |-> FALSE]

\* apply_update: every field is the caller's.
Replaced(row, topic, body, status) ==
    [row EXCEPT !.topic = topic, !.body = body, !.status = status]

\* apply_patch: the fields the caller names, the others as they stand.
Field == {"topic", "body", "status"}
Patched(row, named, topic, body, status) ==
    Replaced(row, IF "topic"  \in named THEN topic  ELSE row.topic,
                  IF "body"   \in named THEN body   ELSE row.body,
                  IF "status" \in named THEN status ELSE row.status)

\* NotificationTemplateRowRules: a create is checked, an update where it changes.
RowRulesAllowCreate(body)      == body \notin Malformed
RowRulesAllowUpdate(row, body) == body # row.body => body \notin Malformed

\* Variant: the row is stored with the status the caller's form carries.
CreateTemplateDraft(i, topic, body) ==
    /\ i \notin DOMAIN templates
    /\ body \notin Malformed
    /\ Write(Stored(i, NewRow(topic, body, "draft")))

\* create_template: a blank body is refused, then a plain INSERT, always active,
\* whose CHECKs refuse what is over length.  It needs no generic route.
CreateTemplate(i, topic, body) ==
    /\ i \notin DOMAIN templates
    /\ body \notin Malformed
    /\ Write(Stored(i, NewRow(topic, body, "active")))

\* The CRUD create, whose status is the caller's.
CrudCreate(i, topic, body, status) ==
    /\ Mounted("create")
    /\ i \notin DOMAIN templates
    /\ RowRulesAllowCreate(body)
    /\ Write(Stored(i, NewRow(topic, body, status)))

\* Variant: the row rules are not attached to the update.
OverwriteUnchecked(i, row) ==
    /\ Mounted("update")
    /\ i \in DOMAIN templates /\ ~templates[i].deleted
    /\ Write(Stored(i, row))

\* The write of an update to a live row, past the row rules.
Overwrite(i, row) ==
    /\ Mounted("update")
    /\ i \in DOMAIN templates /\ ~templates[i].deleted
    /\ RowRulesAllowUpdate(templates[i], row.body)
    /\ Write(Stored(i, row))

CrudUpdate(i, topic, body, status) ==
    Overwrite(i, Replaced(templates[i], topic, body, status))

CrudPatch(i, named, topic, body, status) ==
    Overwrite(i, Patched(templates[i], named, topic, body, status))

\* The CRUD soft delete and restore stamp and clear metadata.deleted_at.
SoftDelete(i) ==
    /\ Mounted("delete")
    /\ i \in DOMAIN templates /\ ~templates[i].deleted
    /\ Write(Stored(i, [templates[i] EXCEPT !.deleted = TRUE]))

Restore(i) ==
    /\ Mounted("restore")
    /\ i \in DOMAIN templates /\ templates[i].deleted
    /\ Write(Stored(i, [templates[i] EXCEPT !.deleted = FALSE]))

\* The permanent delete of trashed rows: one of them, or all.
Trash == {i \in DOMAIN templates : templates[i].deleted}

Remove(rows) == Mounted("purge") /\ Write([j \in DOMAIN templates \ rows |-> templates[j]])

Purge(i)   == i \in Trash /\ Remove({i})
EmptyTrash == Trash # {} /\ Remove(Trash)

TemplatesInit ==
    /\ templates = [i \in {} |-> {}]
    /\ writes = 0

TemplatesNext ==
    \/ \E i \in TemplateId :
          \/ \E topic \in Topic, body \in Body :
                \/ CreateTemplate(i, topic, body)
                \/ \E status \in TemplateStatus :
                      \/ CrudCreate(i, topic, body, status)
                      \/ CrudUpdate(i, topic, body, status)
                      \/ \E named \in SUBSET Field : CrudPatch(i, named, topic, body, status)
          \/ SoftDelete(i)
          \/ Restore(i)
          \/ Purge(i)
    \/ EmptyTrash

TemplatesSpec == TemplatesInit /\ [][TemplatesNext]_templateVars

-----------------------------------------------------------------------------
(***************************************************************************)
(* Type correctness of the table.                                          *)
(***************************************************************************)
TemplatesTypeOK ==
    /\ DOMAIN templates \subseteq TemplateId
    /\ \A i \in DOMAIN templates : templates[i] \in TemplateRow
    /\ writes \in 0..MaxTemplateWrites

(***************************************************************************)
(* Whatever find_active may hand to notify is renderable: neither blank    *)
(* nor over length, although an update checks a body only when it changes. *)
(***************************************************************************)
ServedBodiesWellFormed ==
    \A topic \in Topic : FindActive(topic) \cap Malformed = {}

(***************************************************************************)
(* A topic never resolves to two templates: create_template is documented  *)
(* as defining or replacing the active template of its key, so find_active *)
(* must have at most one row to return.                                    *)
(***************************************************************************)
OneActivePerTopic ==
    \A topic \in Topic : \A i, j \in Matches(templates, topic) : i = j
=============================================================================
