----------------------------- MODULE Redaction -----------------------------
(***************************************************************************)
(* The redaction of tool results (redaction.py).                           *)
(*                                                                         *)
(* A value is its nodes, each at its path: the sequence of steps to it,    *)
(* <<"field", name>> into a map, <<"item", i>> into a list and             *)
(* <<"parsed", 1>> into the value that a json text parses to.  A node is   *)
(* [is, of]: a "text" of a sequence of parts, or a "json" text, a "map", a *)
(* "list" or a "scalar", of no parts.  A part is [form, name, value, like], *)
(* where name and value matter to some forms:                              *)
(*   "words"     ordinary text                                             *)
(*   "shape"     a token, all of it in the match; "block", a key's header  *)
(*   "setting"   name=value; "option", name value in running text          *)
(*   "runOn"     a setting before a line's end or a quote, with what is     *)
(*               after it: as JSON escapes those, they don't end its value   *)
(*   "userinfo"  the password of a URL; "literal", one SQL quotes          *)
(*   "optionName", an argument that is an option's name alone             *)
(* value is "secret", "reference" (a path, a variable, a boolean, a mask), *)
(* "tokenReference" (a reference with a token in it, as <eyJ...>), "shape" *)
(* (a secret that is a token), "password" (a URL with one) or Marker, and  *)
(* like, whether it looks like a credential.                               *)
(*                                                                         *)
(* The code goes down the value and decides on each node by its own text,  *)
(* the step to it and the nodes beside it, as they were before; so what is *)
(* made of a value is said node by node.  A json text in which nothing was *)
(* replaced is looked at once more as plain text.  What that look finds in *)
(* the strings within is said at their nodes: a setting that runs on, and  *)
(* a token in a placeholder.  Not modelled are what it finds besides, in   *)
(* names and across strings (a map's names are not looked at otherwise),   *)
(* JSON in JSON, and that a text whose escaped quote is cut is JSON no     *)
(* more.                                                                   *)
(***************************************************************************)
EXTENDS Integers, Sequences, FiniteSets, SequencesExt

CONSTANT Marker

\* What a name's words say of it.  "key" is a structural name, "keys" its plural,
\* "password-file" locates a secret and "signature" holds one in a setting only.
NameIsSensitive(name) == name \in {"password", "key", "keys", "password-file"}
FieldNameIsSensitive(name) == NameIsSensitive(name) /\ name # "key"
OptionNameIsSensitive(name) == name \in {"password", "signature"}

\* A bug to catch: what is masked already is taken for a credential.
EmbeddedAgain(part) ==
    /\ part.value # "reference"
    /\ \/ part.form \in {"userinfo", "literal"}
       \/ part.form \in {"setting", "runOn"} /\ OptionNameIsSensitive(part.name)

\* Whether a part is a credential by what surrounds it (_redact_embedded).
Embedded(part) ==
    /\ part.value \notin {"reference", Marker}
    /\ \/ part.form \in {"userinfo", "literal"}
       \/ part.form \in {"setting", "runOn"} /\ OptionNameIsSensitive(part.name)
       \/ part.form = "option" /\ OptionNameIsSensitive(part.name) /\ part.like
       \/ part.form \in {"setting", "runOn", "option"} /\ part.value = "password"

\* A part with a token in it, and one to replace.
Shaped(part) == part.form = "shape" \/ part.value \in {"shape", "tokenReference"}
ToHide(part) == Shaped(part) \/ Embedded(part)

\* One to replace where the text of a JSON document is looked at: with what an escape
\* adds to it, a setting's value is no reference, nor the marker.
RunsOn(part) == part.form = "runOn" /\ OptionNameIsSensitive(part.name)
ToHideRaw(part) == Shaped(part) \/ RunsOn(part)

\* Replaced there, what was after the setting is gone with its value.
Hide(part, raw) ==
    [part EXCEPT !.form = IF @ = "shape" THEN "words" ELSE IF @ = "runOn" /\ raw THEN "setting" ELSE @,
                 !.value = Marker]

Text(parts) == [is |-> "text", of |-> parts]
MarkerPart == [form |-> "words", name |-> "plain", value |-> Marker, like |-> FALSE]
Redacted == Text(<<MarkerPart>>)

\* A bug to catch: a text that holds a reference is one.
IsPlaceholderInPart(v) ==
    v.is = "text" /\ (v.of = <<>> \/ \E i \in DOMAIN v.of : v.of[i].value \in {"reference", Marker})

\* _is_placeholder, of a whole text: by its outward form, whatever it holds.
IsPlaceholder(v) == v.is = "text" /\ (v.of = <<>> \/ (Len(v.of) = 1 /\ v.of[1].form = "words"
                                             /\ v.of[1].value \in {"reference", "tokenReference", Marker}))

\* The node reached by another step from the same one.
Beside(path, step) == [path EXCEPT ![Len(path)] = step]

\* A list's item after an option's name.
FollowsOption(v, path) ==
    /\ Last(path)[1] = "item"
    /\ LET before == Beside(path, <<"item", Last(path)[2] - 1>>) IN
        /\ before \in DOMAIN v /\ v[before].is = "text"
        /\ Len(v[before].of) = 1 /\ v[before].of[1].form = "optionName" /\ OptionNameIsSensitive(v[before].of[1].name)
    /\ v[path].is = "text" /\ ~IsPlaceholder(v[path])
    /\ v[path].of[1].form # "optionName"

\* A map's entry is sensitive by its name, or, in an env var's map, by the value
\* of its `name`.
SensitiveEntry(v, path) ==
    /\ Last(path)[1] = "field"
    /\ \/ FieldNameIsSensitive(Last(path)[2])
       \/ /\ Last(path)[2] = "value" /\ Beside(path, <<"field", "name">>) \in DOMAIN v
          /\ LET name == v[Beside(path, <<"field", "name">>)] IN
              name.is = "text" /\ name.of # <<>> /\ NameIsSensitive(name.of[1].name)

Sensitive(v, path) == path # <<>> /\ (SensitiveEntry(v, path) \/ FollowsOption(v, path))

\* A sensitive name or option marks a text, not what a map or a list holds
\* (_redact_string); nothing is left of what such a json text parses to.
Marked(v, path) == v[path].is \in {"text", "json"} /\ Sensitive(v, path) /\ ~IsPlaceholder(v[path])
Reached(v) == {path \in DOMAIN v : \A above \in DOMAIN v : IsStrictPrefix(above, path) => ~Marked(v, above)}

\* The texts whose parts are looked at, those that go whole, and, of a text that
\* doesn't, the parts that go.
Searched(v, path) == v[path].is = "text" /\ ~Sensitive(v, path)
GoesWhole(v, path) ==
    \/ Marked(v, path)
    \/ Searched(v, path) /\ \E i \in DOMAIN v[path].of : v[path].of[i].form = "block"
Found(v, path) ==
    IF Searched(v, path) /\ ~GoesWhole(v, path) THEN {i \in DOMAIN v[path].of : ToHide(v[path].of[i])} ELSE {}

\* What a look at a JSON document's text takes of a text in it.
FoundRaw(v, path) == {i \in DOMAIN v[path].of : ToHideRaw(v[path].of[i])}

\* Nothing was replaced in what a json text parses to: the text itself is looked at
\* (_redact_json_string gives None).
LooksAtText(v, json) ==
    /\ v[json].is = "json"
    /\ \A path \in Reached(v) : IsStrictPrefix(json, path) => ~GoesWhole(v, path) /\ Found(v, path) = {}
ReadRaw(v, path) == \E json \in Reached(v) : LooksAtText(v, json) /\ IsStrictPrefix(json, path)
Concealed(v, path) == IF ReadRaw(v, path) THEN FoundRaw(v, path) ELSE Found(v, path)

\* _redact: the value redacted, and how many replacements.
RedactNode(v, path) ==
    IF GoesWhole(v, path) THEN Redacted
    ELSE [v[path] EXCEPT !.of = [i \in DOMAIN @ |->
            IF i \in Concealed(v, path) THEN Hide(@[i], ReadRaw(v, path)) ELSE @[i]]]
Replacements(v) == UNION {({path} \X Concealed(v, path)) \cup (IF GoesWhole(v, path) THEN {<<path, 0>>} ELSE {}) :
                          path \in Reached(v)}
Redact(v) == [value |-> [path \in Reached(v) |-> RedactNode(v, path)], count |-> Cardinality(Replacements(v))]

\* Every part of every text of a value.
Parts(v) == UNION {Range(v[path].of) : path \in DOMAIN v}
=============================================================================
