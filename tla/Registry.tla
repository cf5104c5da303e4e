------------------------------ MODULE Registry ------------------------------
(***************************************************************************)
(* The registry of what describe can explain (internal/entry/entry.go): a  *)
(* set of entries, each of a namespace, with a name and aliases, and which *)
(* of them a name given to --lens opens.  A name is its segments, those    *)
(* between dots.                                                           *)
(***************************************************************************)
EXTENDS Integers, Sequences, FiniteSets

Spaces == {"field", "check", "topic"}
NonEmpty == {name \in Seq(STRING) : name # <<>>}
Entry == [space : Spaces, name : NonEmpty, aliases : SUBSET NonEmpty]

\* A name as typed: qualified by a namespace, or bare.
Typed(space, path) == [space |-> space, path |-> path]
Bare(path) == Typed("", path)

NamesOf(e) == {e.name} \cup e.aliases
FinalSegment(path) == <<path[Len(path)]>>

\* A plausible bug: the aliases of an entry are not asked about.
TakenByName(R, e) == \E other \in R : other.space = e.space /\ e.name \in NamesOf(other)

\* add refuses an entry one of whose keys is taken, its own included.
Taken(R, e) == \E other \in R : other.space = e.space /\ NamesOf(other) \cap NamesOf(e) # {}
Repeated(e) == e.name \in e.aliases

\* A plausible bug: final segments are not looked at.
MatchingByName(R, path) == {e \in R : path \in NamesOf(e)}

\* byKey and bySuffix: by a name, or by the final segment of one.
Matching(R, path) ==
    {e \in R : \E name \in NamesOf(e) : path = name \/ path = FinalSegment(name)}

\* Resolve: the entries that a name may mean, the one it opens if only one.
Resolve(R, typed) ==
    IF typed.space = "" THEN Matching(R, typed.path)
    ELSE {e \in R : e.space = typed.space /\ typed.path \in NamesOf(e)}

Opens(R, typed, e) == Resolve(R, typed) = {e}

\* shortest: the least that opens an entry.
Shortest(R, e) ==
    IF Len(e.name) > 1 /\ Matching(R, FinalSegment(e.name)) = {e}
    THEN Bare(FinalSegment(e.name))
    ELSE IF Matching(R, e.name) = {e} THEN Bare(e.name)
    ELSE Typed(e.space, e.name)

=============================================================================
