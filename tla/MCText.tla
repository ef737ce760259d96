------------------------------- MODULE MCText -------------------------------
(***************************************************************************)
(* Small instances of the two text functions of the engine: a behaviour    *)
(* either spells addresses or drafts a template.                           *)
(***************************************************************************)
EXTENDS AddressSpelling, TemplateDrafting

MCLower == [c \in {"A"} |-> "a"]

key == <<"k">>
MCName == {key, <<"z">>, <<>>}

Json(kind, text) == [n \in {key} |-> [kind |-> kind, text |-> text]]

\* A string, one that looks like a placeholder, a number, null, and no object.
MCData == {Json("string", <<"v">>), Json("string", <<"{", "{", "z", "}", "}">>),
           Json("number", <<"8">>), Json("null", <<"n">>), [n \in {} |-> {}]}

vars == <<spellings, drafting>>

\* Nothing to spell, nothing to draft.
Spelled  == channel = "email" /\ meant = <<<<"a">>, <<"a">>>> /\ spelled = meant
NoDraft  == draft = <<>> /\ supplied = [n \in {} |-> {}] /\ Table!TemplatesInit

TextInit == (SpellingInit /\ NoDraft) \/ (Spelled /\ DraftInit)
TextNext ==
    \/ SpellingNext /\ draft = <<>> /\ UNCHANGED drafting
    \/ DraftNext /\ spelled = meant /\ meant = <<<<"a">>, <<"a">>>> /\ UNCHANGED spellings

TextSpec == TextInit /\ [][TextNext]_vars
=============================================================================
