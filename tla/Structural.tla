----------------------------- MODULE Structural -------------------------------
(***************************************************************************)
(* The structural checks (internal/structural), which decide whether a     *)
(* document can be used.  Each is the set of diagnostics it raises, and    *)
(* none is kept from running by what another found.                        *)
(***************************************************************************)
EXTENDS Schema

CONSTANTS
    Commits,    \* the texts that are 40 lowercase hex digits
    Labels,     \* the texts of the shape of a profile name
    Climbing,   \* those that are absolute or have a ".." segment,
    Unprintable \* those with a backslash or a control character

ASSUME StructuralAssumption ==
    /\ Commits \subseteq Texts /\ Labels \subseteq Texts
    /\ Climbing \subseteq Texts /\ Unprintable \subseteq Texts
    \* TestProfilePatternMatchesThePublishedSchema, and the same of ref.
    /\ Admitted[<<"ref">>] = Commits
    /\ Admitted[<<"profile">>] = Labels

Id(comment) == IF comment.id.ok THEN comment.id.value ELSE ""

Diagnostic(severity, name, comment, path, lens) ==
    [severity |-> severity, name |-> name, comment |-> comment, path |-> path,
     lens |-> lens]

\* LensName: the name of the check, unless the diagnostic says otherwise.
Named(name) == [space |-> "", path |-> <<name>>]
Error(name, comment, path) == Diagnostic("error", name, comment, path, Named(name))

InComment(i, key) == Pointer(<<i - 1>>, Append(Comments, key))
InAnchor(a, key) == Pointer(<<a[1] - 1, a[2] - 1>>, Append(Anchors, key))

-----------------------------------------------------------------------------

\* A plausible bug: only a neighbour is compared.
IdUniqueAdjacent(doc) ==
    {Error("id-unique", Id(doc.comments[i]), InComment(i, "id")) :
        i \in {i \in DOMAIN doc.comments :
                  /\ doc.comments[i].id.ok
                  /\ \E e \in DOMAIN doc.comments :
                        e = i - 1 /\ doc.comments[e].id = doc.comments[i].id}}

IdUnique(doc) ==
    {Error("id-unique", Id(doc.comments[i]), InComment(i, "id")) :
        i \in {i \in DOMAIN doc.comments :
                  /\ doc.comments[i].id.ok
                  /\ \E e \in DOMAIN doc.comments :
                        e < i /\ doc.comments[e].id = doc.comments[i].id}}

AnchorRangeOrdered(doc) ==
    {Error("anchor-range-ordered", Id(doc.comments[a[1]]), InAnchor(a, "end_line")) :
        a \in {a \in AnchorsOf(doc) :
                  LET anchor == doc.comments[a[1]].anchors[a[2]] IN
                  /\ anchor.endLine.ok
                  /\ \/ ~anchor.line.present
                     \/ anchor.line.ok /\ anchor.endLine.value < anchor.line.value}}

AnchorPathSafe(doc) ==
    {Error("anchor-path-safe", Id(doc.comments[a[1]]), InAnchor(a, "file")) :
        a \in {a \in AnchorsOf(doc) :
                  LET file == doc.comments[a[1]].anchors[a[2]].file IN
                  file.ok /\ file.value \in Climbing \cup Unprintable}}

RefFormat(doc) ==
    IF doc.ref.ok /\ doc.ref.value \notin Commits
    THEN {Error("ref-format", "", Pointer(<<>>, <<"ref">>))} ELSE {}

ProfileFormat(doc) ==
    IF doc.profile.ok /\ doc.profile.value \notin Labels
    THEN {Error("profile-format", "", Pointer(<<>>, <<"profile">>))} ELSE {}

Dedicated(doc) ==
    IdUnique(doc) \cup AnchorRangeOrdered(doc) \cup AnchorPathSafe(doc)
    \cup RefFormat(doc) \cup ProfileFormat(doc)

\* A plausible bug: a failure is dropped when its comment has another one.
SchemaCheckByComment(root, doc) ==
    {Diagnostic("error", "schema", "", f.path, Lens(f.field)) :
        f \in {f \in Failures(root) : \A d \in Dedicated(doc) : d.path.at # f.path.at}}

\* schemaCheck: one mistake costs one diagnostic.
SchemaCheck(root, doc) ==
    {Diagnostic("error", "schema", "", f.path, Lens(f.field)) :
        f \in {f \in Failures(root) : \A d \in Dedicated(doc) : d.path # f.path}}

\* Check of the structural tier.
StructuralCheck(root, doc) == SchemaCheck(root, doc) \cup Dedicated(doc)

=============================================================================
