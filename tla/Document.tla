------------------------------ MODULE Document ------------------------------
(***************************************************************************)
(* Review documents: the JSON that is submitted, and the fields that       *)
(* review.Parse makes of it (internal/review/review.go).  Parsing is       *)
(* lenient: a field that is missing or of a wrong type is recorded as      *)
(* such, for each check to skip what it cannot read.                       *)
(***************************************************************************)
EXTENDS Integers, Sequences

CONSTANTS
    Texts,         \* the strings that occur in documents
    ExactFloatInt, \* the largest integer a float64 is trusted with (2^53)
    MaxInt         \* the largest integer strconv.Atoi reads (2^63 - 1)

ASSUME DocumentAssumption ==
    /\ "" \in Texts
    /\ ExactFloatInt \in Nat /\ ExactFloatInt % 4 = 0 /\ ExactFloatInt >= 10
    /\ MaxInt \in Nat /\ ExactFloatInt < MaxInt

-----------------------------------------------------------------------------
(***************************************************************************)
(* JSON values, each with every member so that any two can be compared.    *)
(* A number is twice what a float64 makes of it, so that it may have a     *)
(* fractional part, whether a residue is lost by that, as of               *)
(* 5.00000000000000000001, and whether it is spelled with digits alone     *)
(* (100) or not (100.0, 1e2).                                              *)
(***************************************************************************)
NoObject == [key \in {} |-> 0]
Json(type) ==
    [type |-> type, text |-> "", twice |-> 0, residue |-> FALSE, digits |-> FALSE,
     items |-> <<>>, object |-> NoObject]

String(t) == [Json("string") EXCEPT !.text = t]
Digits(n) == [Json("number") EXCEPT !.twice = 2 * n, !.digits = TRUE]
Float(h) == [Json("number") EXCEPT !.twice = h]
Beside(h) == [Float(h) EXCEPT !.residue = TRUE]
Array(s) == [Json("array") EXCEPT !.items = s]
Object(f) == [Json("object") EXCEPT !.object = f]
Null == Json("null")

Abs(n) == IF n < 0 THEN -n ELSE n

\* number.Float64 of an integer: past ExactFloatInt, the even neighbour, the
\* one that 4 divides (up to twice ExactFloatInt).
Float64(n) ==
    IF Abs(n) <= ExactFloatInt \/ n % 2 = 0 THEN n
    ELSE IF (n - 1) % 4 = 0 THEN n - 1 ELSE n + 1

\* A plausible bug: only the digit form is read.
IntegralDigits(raw) == raw.digits /\ Abs(raw.twice \div 2) <= MaxInt

\* integral: 100, 100.0 and 1e2 are one value, and what lies beside it by less
\* than a float64 tells is that value too; a float past the bound is none.
Integral(raw) ==
    /\ raw.twice % 2 = 0
    /\ \/ raw.digits /\ Abs(raw.twice \div 2) <= MaxInt
       \/ Abs(Float64(raw.twice \div 2)) <= ExactFloatInt

IntegerOf(raw) ==
    IF raw.digits /\ Abs(raw.twice \div 2) <= MaxInt
    THEN raw.twice \div 2 ELSE Float64(raw.twice \div 2)

-----------------------------------------------------------------------------

NoString == [value |-> "", present |-> FALSE, ok |-> FALSE]
NoInt == [value |-> 0, present |-> FALSE, ok |-> FALSE]
NoStrings == [value |-> <<>>, present |-> FALSE, ok |-> FALSE]

StringField(obj, key) ==
    IF key \notin DOMAIN obj THEN NoString
    ELSE IF obj[key].type = "string"
         THEN [value |-> obj[key].text, present |-> TRUE, ok |-> TRUE]
         ELSE [NoString EXCEPT !.present = TRUE]

IntField(obj, key) ==
    IF key \notin DOMAIN obj THEN NoInt
    ELSE IF obj[key].type = "number" /\ Integral(obj[key])
         THEN [value |-> IntegerOf(obj[key]), present |-> TRUE, ok |-> TRUE]
         ELSE [NoInt EXCEPT !.present = TRUE]

\* One element of a wrong type spoils the list.
StringsField(obj, key) ==
    IF key \notin DOMAIN obj THEN NoStrings
    ELSE IF /\ obj[key].type = "array"
            /\ \A i \in DOMAIN obj[key].items : obj[key].items[i].type = "string"
         THEN [value |-> [i \in DOMAIN obj[key].items |-> obj[key].items[i].text],
               present |-> TRUE, ok |-> TRUE]
         ELSE [NoStrings EXCEPT !.present = TRUE]

\* The elements of obj[key], none unless it is an array.
Items(obj, key) == IF key \in DOMAIN obj THEN obj[key].items ELSE <<>>
IsArray(obj, key) == key \in DOMAIN obj /\ obj[key].type = "array"

\* A value as the decoder leaves it: what its type does not have is empty.
WellFormed(v) ==
    /\ v.text \in Texts /\ v.twice \in Int /\ v.digits \in BOOLEAN /\ v.residue \in BOOLEAN
    /\ v.digits => v.twice % 2 = 0 /\ ~v.residue
    /\ Len(v.items) \in Nat /\ DOMAIN v.items = 1..Len(v.items)
    /\ v.type # "array" => v.items = <<>>
    /\ v.type # "object" => v.object = NoObject

Elements(obj, key) == {Items(obj, key)[i] : i \in DOMAIN Items(obj, key)}
Members(raw) == {raw.object[key] : key \in DOMAIN raw.object}

\* The elements of the lists of the comments of a document.
Inner(root, key) == UNION {Elements(c.object, key) : c \in Elements(root, "comments")}

\* The values of a document, the elements of pros and cons aside.
ObjectsOf(root) ==
    {Object(root)} \cup Elements(root, "comments")
    \cup Inner(root, "anchors") \cup Inner(root, "suggestions")
ValuesOf(root) == ObjectsOf(root) \cup UNION {Members(raw) : raw \in ObjectsOf(root)}

\* What is no object has no member, and every field of it is missing.
ParseAnchor(raw) ==
    [object |-> raw.type = "object",
     file |-> StringField(raw.object, "file"),
     line |-> IntField(raw.object, "line"),
     endLine |-> IntField(raw.object, "end_line")]

ParseSuggestion(raw) ==
    [object |-> raw.type = "object",
     summary |-> StringField(raw.object, "summary"),
     effort |-> StringField(raw.object, "effort"),
     scope |-> StringField(raw.object, "scope"),
     pros |-> StringsField(raw.object, "pros"),
     cons |-> StringsField(raw.object, "cons")]

ParseComment(raw) ==
    [object |-> raw.type = "object",
     id |-> StringField(raw.object, "id"),
     priority |-> IntField(raw.object, "priority"),
     category |-> StringField(raw.object, "category"),
     body |-> StringField(raw.object, "body"),
     anchors |-> [j \in DOMAIN Items(raw.object, "anchors") |->
                     ParseAnchor(Items(raw.object, "anchors")[j])],
     suggestionsArray |-> IsArray(raw.object, "suggestions"),
     suggestions |-> [j \in DOMAIN Items(raw.object, "suggestions") |->
                         ParseSuggestion(Items(raw.object, "suggestions")[j])]]

\* The bytes given: one JSON value, several (trailing), or none (malformed).
Parses(source) == source.json = "one" /\ source.root.type = "object"

Parse(root) ==
    [version |-> StringField(root, "version"),
     verdict |-> StringField(root, "verdict"),
     summary |-> StringField(root, "summary"),
     ref |-> StringField(root, "ref"),
     profile |-> StringField(root, "profile"),
     assessment |-> StringField(root, "assessment"),
     commentsArray |-> IsArray(root, "comments"),
     commentsWellTyped |->
        /\ IsArray(root, "comments")
        /\ \A i \in DOMAIN Items(root, "comments") :
              Items(root, "comments")[i].type = "object",
     comments |-> [i \in DOMAIN Items(root, "comments") |->
                      ParseComment(Items(root, "comments")[i])]]

\* The anchors of a document, each by the comment it is of and its own index.
AnchorsOf(doc) ==
    UNION {{<<i, j>> : j \in DOMAIN doc.comments[i].anchors} : i \in DOMAIN doc.comments}

=============================================================================
