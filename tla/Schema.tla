------------------------------- MODULE Schema -------------------------------
(***************************************************************************)
(* The schema of review documents (internal/schema): what it demands of    *)
(* each field, the failures its validator reports, and the name under      *)
(* which a failure says its field is explained.                            *)
(***************************************************************************)
EXTENDS Document

CONSTANTS
    Admitted, \* the texts an enum, a pattern or a length admits, by field
    Distance  \* the edit distance from an unknown key to a known one

\* The four objects of the schema, with the path of each.
Root == <<>>
Comments == <<"comments">>
Anchors == <<"comments", "anchors">>
Suggestions == <<"comments", "suggestions">>
Levels == {Root, Comments, Anchors, Suggestions}

Properties(level) ==
    CASE level = Root ->
            {"version", "verdict", "summary", "ref", "comments", "profile", "assessment"}
      [] level = Comments ->
            {"id", "priority", "category", "body", "code", "anchors", "suggestions"}
      [] level = Anchors -> {"file", "line", "end_line"}
      [] level = Suggestions -> {"summary", "effort", "scope", "pros", "cons", "code"}

Optional == {"profile", "assessment", "code", "line", "end_line"}
Required(level) == Properties(level) \ Optional

Fields == UNION {{Append(level, key) : key \in Properties(level)} : level \in Levels}
Last(field) == field[Len(field)]

Lists == {<<"comments">>, <<"comments", "anchors">>, <<"comments", "suggestions">>}
StringLists ==
    {<<"comments", "suggestions", "pros">>, <<"comments", "suggestions", "cons">>}
Numbers ==
    {<<"comments", "priority">>, <<"comments", "anchors", "line">>,
     <<"comments", "anchors", "end_line">>}
Strings == Fields \ (Lists \cup StringLists \cup Numbers)

ASSUME SchemaAssumption ==
    /\ Admitted \in [Strings -> SUBSET Texts]
    /\ \A pair \in DOMAIN Distance : Distance[pair] \in Nat

\* An integer, however it is spelled, of the number as it is written; only
\* priority has a maximum.
InRange(field, raw) ==
    /\ raw.twice % 2 = 0 /\ ~raw.residue
    /\ raw.twice >= 2
    /\ Last(field) = "priority" => raw.twice <= 20

\* What the schema demands of the value of one field, its elements aside.
Admits(field, raw) ==
    \/ field \in Strings /\ raw.type = "string" /\ raw.text \in Admitted[field]
    \/ field \in Numbers /\ raw.type = "number" /\ InRange(field, raw)
    \/ field \in Lists \cup StringLists /\ raw.type = "array"

-----------------------------------------------------------------------------

\* A JSON pointer: its indices, and its keys, which is what fieldPath keeps.
Pointer(indices, field) == [at |-> indices, field |-> field]
Failure(pointer, field) == [path |-> pointer, field |-> field]

\* missingField: the field is named when it is the only one.
MissingField(level, missing) ==
    IF \E key \in missing : missing = {key}
    THEN Append(level, CHOOSE key \in missing : TRUE) ELSE level

Near(key, level) == {known \in Properties(level) : Distance[<<key, known>>] <= 2}

\* Every unknown key of an object can be compared with the known ones.
Spelled(raw, level) ==
    (DOMAIN raw.object \ Properties(level)) \X Properties(level) \subseteq DOMAIN Distance

\* nearestField, of those at most 2 edits away.
NearestField(key, level) ==
    CHOOSE known \in Near(key, level) :
        \A other \in Near(key, level) : Distance[<<key, known>>] <= Distance[<<key, other>>]

\* unknownProperties: the first of them with a near field names it.
UnknownField(level, unknown) ==
    IF \E key \in unknown : Near(key, level) # {}
    THEN Append(level, NearestField(CHOOSE key \in unknown : Near(key, level) # {}, level))
    ELSE level

\* The failures of one object of a level, the elements of its lists aside.
ObjectFailures(raw, indices, level) ==
    LET obj == raw.object
        missing == Required(level) \ DOMAIN obj
        unknown == DOMAIN obj \ Properties(level)
        here == Pointer(indices, level) IN
    IF raw.type # "object" THEN {Failure(here, level)}
    ELSE {Failure(here, MissingField(level, missing)) : key \in missing}
         \cup {Failure(here, UnknownField(level, unknown)) : key \in unknown}
         \cup {Failure(Pointer(indices, Append(level, key)), Append(level, key)) :
                  key \in {key \in DOMAIN obj \cap Properties(level) :
                              ~Admits(Append(level, key), obj[key])}}

\* The elements of pros and cons are strings.
StringFailures(raw, indices) ==
    UNION {{Failure(Pointer(Append(indices, k - 1), Append(Suggestions, key)),
                    Append(Suggestions, key)) :
               k \in {k \in DOMAIN Items(raw.object, key) :
                         Items(raw.object, key)[k].type # "string"}} :
            key \in {"pros", "cons"}}

CommentFailures(raw, i) ==
    ObjectFailures(raw, <<i - 1>>, Comments)
    \cup (UNION {ObjectFailures(Items(raw.object, "anchors")[j], <<i - 1, j - 1>>, Anchors) :
                    j \in DOMAIN Items(raw.object, "anchors")})
    \cup (UNION {LET suggestion == Items(raw.object, "suggestions")[j] IN
                 ObjectFailures(suggestion, <<i - 1, j - 1>>, Suggestions)
                 \cup StringFailures(suggestion, <<i - 1, j - 1>>) :
                    j \in DOMAIN Items(raw.object, "suggestions")})

\* Only an approval may come without comments.
EmptyFailures(root) ==
    IF /\ "verdict" \in DOMAIN root /\ root["verdict"].type = "string"
       /\ root["verdict"].text \in {"request_changes", "comment"}
       /\ IsArray(root, "comments") /\ Items(root, "comments") = <<>>
    THEN {Failure(Pointer(<<>>, Comments), Comments)} ELSE {}

\* Validate: the leaf failures of a document.
Failures(root) ==
    ObjectFailures(Object(root), <<>>, Root) \cup EmptyFailures(root)
    \cup UNION {CommentFailures(Items(root, "comments")[i], i) :
                   i \in DOMAIN Items(root, "comments")}

-----------------------------------------------------------------------------

\* uniqueSegments: those in which a single field ends.
Unique(segment) == \A f, g \in Fields : Last(f) = segment /\ Last(g) = segment => f = g

\* A plausible bug: a root field is named bare even where others end like it.
LensBare(field) ==
    IF field = <<>> THEN [space |-> "", path |-> <<"schema">>]
    ELSE IF Unique(Last(field)) THEN [space |-> "", path |-> <<Last(field)>>]
    ELSE [space |-> "", path |-> field]

\* lens, and schemaCheck's "schema" where no field can be named.
Lens(field) ==
    IF field = <<>> THEN [space |-> "", path |-> <<"schema">>]
    ELSE IF Unique(Last(field)) THEN [space |-> "", path |-> <<Last(field)>>]
    ELSE IF Len(field) > 1 THEN [space |-> "", path |-> field]
    ELSE [space |-> "field", path |-> field]

=============================================================================
