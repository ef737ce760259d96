-------------------------- MODULE TemplateDrafting --------------------------
(***************************************************************************)
(* An author composes a template of plain text and placeholders, creates   *)
(* it, and a host renders it by id with some data, before or after it is   *)
(* retired: render_template_by_id, over the templates table and render.    *)
(***************************************************************************)
EXTENDS TemplateRendering, HttpRoutes

CONSTANTS
    Ink,             \* the characters of plain text, no opening brace among them
    Name,            \* the keys authors refer to
    Data,            \* the JSON objects hosts supply
    TemplateId, Topic,
    MaxSegments      \* bound on the segments of a draft

VARIABLES
    draft,           \* the template as meant: a sequence of segments
    supplied,        \* the data it will be rendered with
    templates, writes

drafting == <<draft, supplied, templates, writes>>

CharsOf(s) == {s[i] : i \in DOMAIN s}

ASSUME DraftingAssumption ==
    /\ "{" \notin Ink \cup Blank /\ "}" \notin Blank
    /\ \A k \in Name : /\ k \in Seq(CharsOf(k)) /\ Trim(k) = k
                       /\ CharsOf(k) \cap {"{", "}"} = {}
    /\ \A data \in Data : \A k \in DOMAIN data : data[k].text \in Seq(CharsOf(data[k].text))
    /\ MaxSegments \in Nat

Table == INSTANCE NotificationTemplates WITH
    Body <- Seq(Ink \cup Blank \cup {"{"}),
    Malformed <- {<<>>} \cup Word(Blank, MaxSegments),
    Surface <- GuardedRoutes, UniqueTopic <- FALSE, MaxTemplateWrites <- 2

\* Plain text, a placeholder with blanks around its key, or braces never closed.
Segment ==
    [kind : {"text"}, chars : Word(Ink, 1), pad : {<<>>}]
    \cup [kind : {"key"}, chars : Name, pad : {<<>>} \cup Word(Blank, 1)]
    \cup [kind : {"open"}, chars : Name, pad : {<<>>}]

Written(s) ==
    CASE s.kind = "text" -> s.chars
      [] s.kind = "key"  -> <<"{", "{">> \o s.pad \o s.chars \o s.pad \o <<"}", "}">>
      [] s.kind = "open" -> <<"{", "{">> \o s.chars

Meant(s) == IF s.kind = "key" THEN ValueOf(supplied, s.chars) ELSE Written(s)

\* The first n of some texts, one after the other.
JoinedUpTo(texts) ==
    LET upto[n \in 0..Len(texts)] == IF n = 0 THEN <<>> ELSE upto[n - 1] \o texts[n]
    IN upto

Joined(texts) == JoinedUpTo(texts)[Len(texts)]

AsWritten == Joined([n \in DOMAIN draft |-> Written(draft[n])])
AsMeant   == Joined([n \in DOMAIN draft |-> Meant(draft[n])])

DraftInit == draft = <<>> /\ supplied \in Data /\ Table!TemplatesInit

\* Nothing is written after braces that were left open.
Compose(s) ==
    /\ templates = [i \in {} |-> {}]
    /\ Len(draft) < MaxSegments
    /\ \A n \in DOMAIN draft : draft[n].kind # "open"
    /\ draft' = Append(draft, s)
    /\ UNCHANGED <<supplied, templates, writes>>

Save(i, topic) ==
    /\ templates = [j \in {} |-> {}]
    /\ Table!CreateTemplate(i, topic, AsWritten)
    /\ UNCHANGED <<draft, supplied>>

Retire(i) == Table!SoftDelete(i) /\ UNCHANGED <<draft, supplied>>

DraftNext ==
    \/ \E s \in Segment : Compose(s)
    \/ \E i \in TemplateId :
          \/ \E topic \in Topic : Save(i, topic)
          \/ Retire(i)

DraftSpec == DraftInit /\ [][DraftNext]_drafting

\* render_template_by_id: no answer is the refusal "template not found".
RenderTemplateById(i) == {Render(b, supplied) : b \in Table!FindById(i)}

(***************************************************************************)
(* A template renders to what its author meant: each placeholder to the    *)
(* value of its key, taken literally even where it holds braces itself, to *)
(* nothing where the key is unknown or null, and all other text verbatim,  *)
(* stray closing braces and unclosed opening ones included.  A template    *)
(* unknown or retired is refused.                                          *)
(***************************************************************************)
RendersAsMeant ==
    \A i \in TemplateId :
        RenderTemplateById(i) =
            IF i \in DOMAIN templates /\ ~templates[i].deleted THEN {AsMeant} ELSE {}
=============================================================================
