--------------------------- MODULE Collect_proofs ---------------------------
(***************************************************************************)
(* What holds of Collect.tla for any number of runs, documents, profiles   *)
(* and seconds.                                                            *)
(***************************************************************************)
EXTENDS Collect, FiniteSetTheorems, NaturalsInduction, TLAPS

\* A run records once, and two that record one digest at a time have raced.
RowsInv ==
    /\ CollectTypeOK
    /\ IsFiniteSet(rows)
    /\ \A r \in inFlight : r.digest \notin raced =>
          /\ \A q \in inFlight : q.digest = r.digest => q = r
          /\ \A q \in rows : q.digest = r.digest => q.at <= r.at

\* An answer is in order and has each document once.
InOrder(subs) ==
    /\ \A i, j \in DOMAIN subs : subs[i].digest = subs[j].digest => i = j
    /\ \A i, j \in DOMAIN subs : i < j => ~Before(subs[j], subs[i])

\* The time an answer gives a document remains the earliest of its rows.
Lasting(subs) ==
    \A i \in DOMAIN subs : subs[i].digest \notin raced => subs[i] \in DistinctDigests

CollectInv ==
    /\ RowsInv
    /\ InOrder(answer) /\ InOrder(previous)
    /\ Lasting(answer) /\ Lasting(previous)

-----------------------------------------------------------------------------

LEMMA DigestRowType ==
    ASSUME NEW x \in DigestRows
    PROVE  x.digest \in Digests /\ x.digest \in Int /\ x.at \in 0..MaxTime /\ x.at \in Int
  <1>1. x.digest \in Digests /\ x.at \in 0..MaxTime
    BY DEF DigestRows
  <1>2. Digests \subseteq Int /\ MaxTime \in Nat
    BY CollectAssumption
  <1>3. x.digest \in Int
    BY <1>1, <1>2
  <1>4. x.at \in Int
    BY <1>1, <1>2
  <1> QED BY <1>1, <1>3, <1>4

\* The earliest row of a digest has one time.
LEMMA DigestsAreDistinct ==
    ASSUME CollectTypeOK
    PROVE  /\ DistinctDigests \subseteq DigestRows
           /\ \A x, y \in DistinctDigests : x.digest = y.digest => x = y
  <1>1. \A r \in rows : r.digest \in Digests /\ r.at \in 0..MaxTime /\ r.at \in Int
    BY CollectAssumption DEF CollectTypeOK
  <1>2. DistinctDigests \subseteq DigestRows
    BY <1>1 DEF DistinctDigests, DigestRows
  <1>3. \A x, y \in DistinctDigests : x.digest = y.digest => x = y
    BY <1>1 DEF DistinctDigests
  <1> QED BY <1>2, <1>3

LEMMA DigestsAreFinite ==
    ASSUME IsFiniteSet(rows)
    PROVE  IsFiniteSet(DistinctDigests)
  <1> DEFINE S == {r \in rows : \A q \in rows : q.digest = r.digest => r.at <= q.at}
             f == [r \in S |-> [digest |-> r.digest, at |-> r.at]]
  <1>1. IsFiniteSet(S)
    BY FS_Subset
  <1>2. f \in [S -> DistinctDigests]
    BY DEF DistinctDigests
  <1>3. \A x \in DistinctDigests : \E r \in S : f[r] = x
    BY DEF DistinctDigests
  <1>4. f \in Surjection(S, DistinctDigests)
    BY <1>2, <1>3 DEF Surjection
  <1> QED BY <1>1, <1>4, FS_Surjection

\* Two different documents come in one order or the other.
LEMMA BeforeIsTotal ==
    ASSUME NEW x \in DigestRows, NEW y \in DigestRows, x.digest # y.digest
    PROVE  Before(x, y) \/ Before(y, x)
  <1>1. x.at \in Int /\ y.at \in Int /\ x.digest \in Int /\ y.digest \in Int
    BY DigestRowType
  <1>2. Profile(x) \in Int /\ Profile(y) \in Int /\ NoProfile \in Int
    BY DigestRowType, CollectAssumption DEF Profile
  <1> QED BY <1>1, <1>2 DEF Before, Earlier

LEMMA SortedIsInOrder ==
    ASSUME CollectTypeOK, IsFiniteSet(rows),
           NEW read \in SUBSET DistinctDigests, NEW subs \in Sorted(read)
    PROVE  /\ subs \in Seq(DigestRows)
           /\ \A i \in DOMAIN subs : subs[i] \in DistinctDigests
           /\ InOrder(subs)
  <1>1. IsFiniteSet(read)
    BY DigestsAreFinite, FS_Subset
  <1>2. Cardinality(read) \in Nat
    BY <1>1, FS_CardinalityType
  <1>3. subs \in [1..Cardinality(read) -> read]
    BY DEF Sorted
  <1>4. \A i \in DOMAIN subs : subs[i] \in DistinctDigests /\ subs[i] \in DigestRows
    BY <1>3, DigestsAreDistinct
  <1>5. subs \in Seq(DigestRows)
    BY <1>2, <1>3, <1>4
  <1>6. InOrder(subs)
    BY <1>4, DigestsAreDistinct DEF InOrder, Sorted, IsInjective
  <1> QED BY <1>4, <1>5, <1>6

-----------------------------------------------------------------------------

LEMMA CollectStarts ==
    ASSUME CollectInit
    PROVE  CollectInv
  <1>1. RowsInv
    BY FS_EmptySet, CollectAssumption DEF CollectInit, RowsInv, CollectTypeOK
  <1> QED BY <1>1 DEF CollectInit, CollectInv, InOrder, Lasting

LEMMA StampKeeps ==
    ASSUME CollectInv, NEW s \in Submitters, NEW d \in Digests, Stamp(s, d)
    PROVE  CollectInv'
  <1> DEFINE new == [by |-> s, digest |-> d, at |-> now]
  <1> USE DEF CollectInv, RowsInv
  <1>1. CollectTypeOK'
    BY CollectAssumption DEF Stamp, CollectTypeOK
  <1>2. ASSUME NEW r \in inFlight', r.digest \notin raced'
        PROVE  /\ \A q \in inFlight' : q.digest = r.digest => q = r
               /\ \A q \in rows' : q.digest = r.digest => q.at <= r.at
    <2>1. r.digest \notin raced /\ raced \subseteq raced'
      BY <1>2 DEF Stamp
    <2>2. CASE r = new
      <3>1. \A q \in inFlight : q.digest # d
        BY <1>2, <2>2 DEF Stamp
      <3>2. \A q \in rows : q.at <= now
        BY CollectAssumption DEF CollectTypeOK
      <3> QED BY <2>2, <3>1, <3>2 DEF Stamp
    <2>3. CASE r \in inFlight
      <3>1. r.digest # d
        BY <1>2, <2>3 DEF Stamp
      <3> QED BY <2>1, <2>3, <3>1 DEF Stamp
    <2> QED BY <2>2, <2>3 DEF Stamp
  <1>3. Lasting(answer)' /\ Lasting(previous)'
    BY DEF Stamp, Lasting, DistinctDigests
  <1>4. InOrder(answer)' /\ InOrder(previous)' /\ IsFiniteSet(rows)'
    BY DEF Stamp, InOrder, Before, Earlier, Profile
  <1> QED BY <1>1, <1>2, <1>3, <1>4

LEMMA InsertKeeps ==
    ASSUME CollectInv, NEW r \in inFlight, Insert(r)
    PROVE  CollectInv'
  <1> USE DEF CollectInv, RowsInv
  <1>1. CollectTypeOK'
    BY DEF Insert, CollectTypeOK
  <1>2. IsFiniteSet(rows')
    BY FS_AddElement DEF Insert
  <1>3. ASSUME NEW p \in inFlight', p.digest \notin raced'
        PROVE  /\ \A q \in inFlight' : q.digest = p.digest => q = p
               /\ \A q \in rows' : q.digest = p.digest => q.at <= p.at
    <2>1. p.digest # r.digest
      BY <1>3 DEF Insert
    <2> QED BY <1>3, <2>1 DEF Insert
  <1>4. ASSUME NEW x \in DistinctDigests, x.digest \notin raced
        PROVE  x \in DistinctDigests'
    <2>1. PICK q \in rows : /\ x = [digest |-> q.digest, at |-> q.at]
                            /\ \A p \in rows : p.digest = q.digest => q.at <= p.at
      BY DEF DistinctDigests
    <2>2. r.digest = q.digest => q.at <= r.at
      BY <1>4, <2>1
    <2> QED BY <2>1, <2>2 DEF DistinctDigests, Insert
  <1>5. Lasting(answer)' /\ Lasting(previous)'
    BY <1>4 DEF Insert, Lasting
  <1>6. InOrder(answer)' /\ InOrder(previous)'
    BY DEF Insert, InOrder, Before, Earlier, Profile
  <1> QED BY <1>1, <1>2, <1>3, <1>5, <1>6

LEMMA AssembleKeeps ==
    ASSUME CollectInv, Assemble
    PROVE  CollectInv'
  <1> USE DEF CollectInv, RowsInv
  <1>1. PICK read \in SUBSET DistinctDigests : answer' \in Sorted(read)
    BY DEF Assemble
  <1>2. /\ answer' \in Seq(DigestRows)
        /\ \A i \in DOMAIN answer' : answer'[i] \in DistinctDigests
        /\ InOrder(answer')
    BY <1>1, SortedIsInOrder
  <1>3. CollectTypeOK'
    BY <1>2 DEF Assemble, CollectTypeOK, DigestRows
  <1>4. RowsInv'
    BY <1>3 DEF Assemble
  <1>5. Lasting(answer)' /\ Lasting(previous)'
    BY <1>2 DEF Assemble, Lasting, DistinctDigests
  <1>6. InOrder(answer)' /\ InOrder(previous)'
    BY <1>2 DEF Assemble, InOrder, Before, Earlier, Profile
  <1> QED BY <1>4, <1>5, <1>6

LEMMA CollectStays ==
    ASSUME CollectInv, [CollectNext]_collectVars
    PROVE  CollectInv'
  <1>1. CASE Tick
    <2>1. CollectTypeOK'
      BY <1>1, CollectAssumption DEF Tick, CollectInv, RowsInv, CollectTypeOK
    <2> QED BY <1>1, <2>1 DEF Tick, CollectInv, RowsInv, InOrder, Lasting, Before, Earlier,
                              Profile, DistinctDigests
  <1>2. CASE UNCHANGED collectVars
    BY <1>2 DEF collectVars, CollectInv, RowsInv, CollectTypeOK, InOrder, Lasting, Before,
                Earlier, Profile, DistinctDigests, DigestRows
  <1> QED BY <1>1, <1>2, StampKeeps, InsertKeeps, AssembleKeeps DEF CollectNext

THEOREM CollectAlways == CollectSpec => []CollectInv
  BY CollectStarts, CollectStays, PTL DEF CollectSpec

\* The variables keep their types, and every run records at most one row.
THEOREM CollectTypeCorrect == CollectSpec => []CollectTypeOK
  <1>1. CollectInv => CollectTypeOK
    BY DEF CollectInv, RowsInv
  <1> QED BY <1>1, CollectAlways, PTL

-----------------------------------------------------------------------------

\* Two submissions that are both current have different profiles, and two that
\* are not have different ordinals.
LEMMA QualifiersDiffer ==
    ASSUME NEW subs \in Seq(DigestRows), NEW i \in DOMAIN subs, NEW j \in DOMAIN subs,
           Qualifier(subs, i) = Qualifier(subs, j)
    PROVE  i = j
  <1>1. i \in Int /\ j \in Int
    OBVIOUS
  <1>2. CASE Qualifier(subs, i).kind = "ordinal"
    BY <1>2 DEF Qualifier
  <1>3. CASE Qualifier(subs, i).kind = "profile"
    <2>1. /\ Profile(subs[i]) # NoProfile /\ Profile(subs[i]) = Profile(subs[j])
          /\ SupersededBy(subs, i) = {} /\ SupersededBy(subs, j) = {}
      BY <1>3 DEF Qualifier
    <2>2. j \notin Later(subs, i) /\ i \notin Later(subs, j)
      BY <2>1 DEF SupersededBy, Superseded
    <2> QED BY <1>1, <2>1, <2>2 DEF Later
  <1> QED BY <1>2, <1>3 DEF Qualifier

\* However the profiles are spread over the documents and whatever is lost, the
\* qualified ids of an answer are unique.
THEOREM QualifiedIdsAlwaysUnique == CollectSpec => []QualifiedIdsUnique
  <1>1. CollectInv => QualifiedIdsUnique
    <2> SUFFICES ASSUME CollectInv,
                        NEW i \in DOMAIN answer, NEW j \in DOMAIN answer,
                        NEW k \in DOMAIN IdsOf[answer[i].digest],
                        NEW l \in DOMAIN IdsOf[answer[j].digest],
                        Id(answer, i, k) = Id(answer, j, l)
                 PROVE  i = j /\ k = l
      BY DEF QualifiedIdsUnique
    <2>1. answer \in Seq(DigestRows)
      BY DEF CollectInv, RowsInv, CollectTypeOK
    <2>2. i = j
      BY <2>1, QualifiersDiffer DEF Id
    <2>3. IsInjective(IdsOf[answer[i].digest])
      BY <2>1, DigestRowType, IdsAssumption
    <2>4. IdsOf[answer[i].digest][k] = IdsOf[answer[i].digest][l]
      BY <2>2 DEF Id
    <2>5. k = l
      BY <2>2, <2>3, <2>4 DEF IsInjective
    <2> QED BY <2>2, <2>5
  <1> QED BY <1>1, CollectAlways, PTL

LEMMA LaterHasMax ==
    ASSUME NEW subs \in Seq(DigestRows), NEW i \in DOMAIN subs, Later(subs, i) # {}
    PROVE  /\ Max(Later(subs, i)) \in Later(subs, i)
           /\ \A k \in Later(subs, i) : k <= Max(Later(subs, i))
  <1> DEFINE n == Len(subs)
             T == {n - k : k \in Later(subs, i)}
  <1>1. n \in Nat /\ \A k \in Later(subs, i) : k \in 1..n
    BY DEF Later
  <1>2. T \subseteq Nat /\ T # {}
    BY <1>1
  <1> HIDE DEF T
  <1>3. PICK t \in T : \A u \in T : ~(<<u, t>> \in OpToRel(<, Nat))
    BY <1>2, NatLessThanWellFounded, WFMin
  <1>4. \A u \in T : ~(u < t)
    <2> SUFFICES ASSUME NEW u \in T, u < t
                 PROVE  <<u, t>> \in OpToRel(<, Nat)
      BY <1>3
    <2>1. <<u, t>> \in Nat \X Nat /\ <<u, t>>[1] < <<u, t>>[2]
      BY <1>2
    <2> QED BY <2>1, Zenon DEF OpToRel
  <1>5. \E x \in Later(subs, i) : \A k \in Later(subs, i) : x >= k
    <2>1. PICK x \in Later(subs, i) : t = n - x
      BY DEF T
    <2>2. \A k \in Later(subs, i) : ~(n - k < n - x)
      BY <1>4, <2>1 DEF T
    <2> QED BY <1>1, <2>2
  <1>6. /\ Max(Later(subs, i)) \in Later(subs, i)
        /\ \A k \in Later(subs, i) : Max(Later(subs, i)) >= k
    BY <1>5 DEF Max
  <1> QED BY <1>1, <1>6

\* What supersedes a submission is of its profile, current, and no older.
THEOREM SupersededByAlwaysCurrent == CollectSpec => []SupersededByCurrent
  <1>1. CollectInv => SupersededByCurrent
    <2> SUFFICES ASSUME CollectInv,
                        NEW i \in DOMAIN answer, NEW j \in SupersededBy(answer, i)
                 PROVE  /\ Profile(answer[i]) = Profile(answer[j])
                        /\ SupersededBy(answer, j) = {}
                        /\ answer[i].at <= answer[j].at
      BY DEF SupersededByCurrent
    <2>1. answer \in Seq(DigestRows)
      BY DEF CollectInv, RowsInv, CollectTypeOK
    <2>2. j = Max(Later(answer, i)) /\ Later(answer, i) # {}
      BY DEF SupersededBy, Superseded
    <2>3. j \in Later(answer, i) /\ \A k \in Later(answer, i) : k <= j
      BY <2>1, <2>2, LaterHasMax
    <2>4. j \in DOMAIN answer /\ i < j /\ Profile(answer[i]) = Profile(answer[j])
      BY <2>3 DEF Later
    <2>5. Later(answer, j) = {}
      BY <2>1, <2>3, <2>4 DEF Later
    <2>6. SupersededBy(answer, j) = {}
      BY <2>5 DEF SupersededBy, Superseded
    <2>7. ~Earlier(answer[j], answer[i])
      BY <2>4 DEF CollectInv, InOrder, Before
    <2>8. answer[i].at \in Int /\ answer[j].at \in Int
      BY <2>1, <2>4, DigestRowType
    <2> QED BY <2>4, <2>6, <2>7, <2>8 DEF Earlier
  <1> QED BY <1>1, CollectAlways, PTL

\* Two answers that agree on two documents agree on their order.
LEMMA SameOrder ==
    ASSUME NEW a \in Seq(DigestRows), NEW b \in Seq(DigestRows), InOrder(a), InOrder(b),
           NEW i \in DOMAIN a, NEW j \in DOMAIN a, i < j,
           NEW k \in DOMAIN b, NEW l \in DOMAIN b, a[i] = b[k], a[j] = b[l]
    PROVE  k < l
  <1>1. a[i].digest # a[j].digest
    BY DEF InOrder
  <1>2. Before(a[i], a[j])
    BY <1>1, BeforeIsTotal DEF InOrder
  <1>3. ~(l < k)
    BY <1>2 DEF InOrder
  <1>4. k # l
    BY <1>1
  <1> QED BY <1>3, <1>4

\* An answer and the next agree on the order of what is in both, but for what two
\* runs were recording at once.
THEOREM OrderAlwaysKept == CollectSpec => []OrderIsKept
  <1>1. CollectInv => OrderIsKept
    <2> SUFFICES ASSUME CollectInv,
                        NEW i \in DOMAIN previous, NEW j \in DOMAIN previous,
                        NEW k \in DOMAIN answer, NEW l \in DOMAIN answer,
                        previous[i].digest = answer[k].digest,
                        previous[j].digest = answer[l].digest, i < j,
                        {answer[k].digest, answer[l].digest} \cap raced = {}
                 PROVE  k < l
      BY DEF OrderIsKept
    <2>1. CollectTypeOK /\ answer \in Seq(DigestRows) /\ previous \in Seq(DigestRows)
      BY DEF CollectInv, RowsInv, CollectTypeOK
    <2>2. previous[i] = answer[k] /\ previous[j] = answer[l]
      BY <2>1, DigestsAreDistinct DEF CollectInv, Lasting
    <2> QED BY <2>1, <2>2, SameOrder DEF CollectInv
  <1> QED BY <1>1, CollectAlways, PTL

=============================================================================
