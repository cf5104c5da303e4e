------------------------------ MODULE Collect ------------------------------
(***************************************************************************)
(* The answers of collect-reviews for one ref while more is submitted      *)
(* (internal/collect, fed by ListDistinctDigests): the order of the        *)
(* submissions, which of a profile is current, and the ids of the comments *)
(* of them all, from one answer to the next.                               *)
(***************************************************************************)
EXTENDS Integers, Sequences, FiniteSets, FiniteSetsExt, Functions

CONSTANTS
    Submitters, \* runs of submit-review, each with one document
    Digests,    \* of the documents, integers for the strings they are ordered as
    ProfileOf,  \* the profile each document claims, likewise
    NoProfile,
    IdsOf,      \* the ids of the comments of each document
    MaxTime     \* bound: seconds that may pass

ASSUME CollectAssumption ==
    /\ Digests \subseteq Int
    /\ NoProfile \in Int
    /\ ProfileOf \in [Digests -> Int]
    /\ MaxTime \in Nat

\* A document with an id twice does not pass submit-review.
ASSUME IdsAssumption == \A d \in Digests : IsInjective(IdsOf[d])

VARIABLES
    now,        \* the clock, in seconds
    inFlight,   \* rows that have been stamped and wait for the database
    rows,       \* the rows of this ref
    answer,     \* the submissions of the latest answer
    previous,   \* and those of the one before
    raced       \* history: digests two runs were recording at one time

collectVars == <<now, inFlight, rows, answer, previous, raced>>

CollectInit ==
    /\ now = 0
    /\ inFlight = {} /\ rows = {}
    /\ answer = <<>> /\ previous = <<>>
    /\ raced = {}

-----------------------------------------------------------------------------

Tick ==
    /\ now < MaxTime
    /\ now' = now + 1
    /\ UNCHANGED <<inFlight, rows, answer, previous, raced>>

\* Save has placed the file; Record reads the clock before it inserts the row.
Stamp(s, d) ==
    /\ \A r \in inFlight \cup rows : r.by # s
    /\ inFlight' = inFlight \cup {[by |-> s, digest |-> d, at |-> now]}
    /\ raced' = raced \cup {r.digest : r \in {r \in inFlight : r.digest = d}}
    /\ UNCHANGED <<now, rows, answer, previous>>

\* A plausible bug: a row that was inserted is inserted again.
InsertAgain(r) ==
    /\ rows' = rows \cup {r}
    /\ UNCHANGED <<now, inFlight, answer, previous, raced>>

Insert(r) ==
    /\ inFlight' = inFlight \ {r}
    /\ rows' = rows \cup {r}
    /\ UNCHANGED <<now, answer, previous, raced>>

-----------------------------------------------------------------------------

\* A plausible bug: a resubmission makes a document the latest again.
LatestDigests ==
    {[digest |-> r.digest, at |-> r.at] :
        r \in {r \in rows : \A q \in rows : q.digest = r.digest => q.at <= r.at}}

\* min(at), grouped by digest.
DistinctDigests ==
    {[digest |-> r.digest, at |-> r.at] :
        r \in {r \in rows : \A q \in rows : q.digest = r.digest => r.at <= q.at}}

\* A plausible bug: no tie-break, so that an unstable sort decides.
EarlierUntied(x, y) == x.at < y.at

\* sortedDigests: ties are broken on the digest.
Earlier(x, y) == \/ x.at < y.at
                 \/ x.at = y.at /\ x.digest < y.digest

Profile(x) == ProfileOf[x.digest]

\* buildSubmissions: profiles in the order of their names, then the unprofiled.
Before(x, y) ==
    \/ Profile(x) = Profile(y) /\ Earlier(x, y)
    \/ /\ Profile(x) \notin {Profile(y), NoProfile}
       /\ (Profile(y) = NoProfile \/ Profile(x) < Profile(y))

\* Every way of sorting a set that an unstable sort may come up with.
Sorted(S) ==
    {subs \in [1..Cardinality(S) -> S] :
        /\ IsInjective(subs)
        /\ \A i, j \in DOMAIN subs : i < j => ~Before(subs[j], subs[i])}

\* Assemble: whatever cannot be read, be it gone, altered or a failed read, is
\* left out.
Assemble ==
    /\ \E read \in SUBSET DistinctDigests : answer' \in Sorted(read)
    /\ previous' = answer
    /\ UNCHANGED <<now, inFlight, rows, raced>>

CollectNext ==
    \/ Tick
    \/ \E s \in Submitters, d \in Digests : Stamp(s, d)
    \/ \E r \in inFlight : Insert(r)
    \/ Assemble

CollectSpec == CollectInit /\ [][CollectNext]_collectVars

-----------------------------------------------------------------------------

\* The later submissions of the profile of one.
Later(subs, i) ==
    {j \in DOMAIN subs : i < j /\ Profile(subs[i]) = Profile(subs[j])}

Superseded(subs, i) == Profile(subs[i]) # NoProfile /\ Later(subs, i) # {}

\* A plausible bug: a submission is superseded by the next one, not the last.
SupersededByNext(subs, i) ==
    IF Superseded(subs, i) THEN {Min(Later(subs, i))} ELSE {}

\* superseded_by: the ordinal it names, if any.
SupersededBy(subs, i) ==
    IF Superseded(subs, i) THEN {Max(Later(subs, i))} ELSE {}

\* A plausible bug: a profile is taken for a qualifier of all its submissions.
QualifierByProfile(subs, i) ==
    IF Profile(subs[i]) # NoProfile
    THEN [kind |-> "profile", of |-> Profile(subs[i])]
    ELSE [kind |-> "ordinal", of |-> i]

\* qualifierFor: "<profile>:" or "#<ordinal>:".
Qualifier(subs, i) ==
    IF Profile(subs[i]) # NoProfile /\ SupersededBy(subs, i) = {}
    THEN [kind |-> "profile", of |-> Profile(subs[i])]
    ELSE [kind |-> "ordinal", of |-> i]

Id(subs, i, k) == [qualifier |-> Qualifier(subs, i), origin |-> IdsOf[subs[i].digest][k]]

-----------------------------------------------------------------------------

DigestRows == [digest : Digests, at : 0..MaxTime]

CollectTypeOK ==
    /\ now \in 0..MaxTime
    /\ inFlight \cup rows \subseteq [by : Submitters, digest : Digests, at : 0..now]
    /\ \A r, q \in inFlight \cup rows : r.by = q.by => r = q
    /\ inFlight \cap rows = {}
    /\ answer \in Seq(DigestRows) /\ previous \in Seq(DigestRows)
    /\ raced \subseteq Digests

\* Two comments of an answer never share an id, whoever wrote them and however
\* often a profile submitted.
QualifiedIdsUnique ==
    \A i, j \in DOMAIN answer :
        \A k \in DOMAIN IdsOf[answer[i].digest], l \in DOMAIN IdsOf[answer[j].digest] :
            Id(answer, i, k) = Id(answer, j, l) => i = j /\ k = l

\* superseded_by names a submission of the same profile that is current itself,
\* and was recorded no earlier.
SupersededByCurrent ==
    \A i \in DOMAIN answer : \A j \in SupersededBy(answer, i) :
        /\ Profile(answer[i]) = Profile(answer[j])
        /\ SupersededBy(answer, j) = {}
        /\ answer[i].at <= answer[j].at

\* Two submissions keep their order from one answer to the next, whatever is
\* submitted, resubmitted or lost in between, unless one of them was being
\* recorded by two runs at once.
OrderIsKept ==
    \A i, j \in DOMAIN previous, k, l \in DOMAIN answer :
        /\ previous[i].digest = answer[k].digest
        /\ previous[j].digest = answer[l].digest
        /\ i < j
        /\ {answer[k].digest, answer[l].digest} \cap raced = {}
        => k < l

=============================================================================
