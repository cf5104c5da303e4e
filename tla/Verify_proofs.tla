---------------------------- MODULE Verify_proofs ----------------------------
(***************************************************************************)
(* What verification finds is true, for any repository, any documents, any *)
(* number of failing git commands and whatever others do meanwhile.        *)
(***************************************************************************)
EXTENDS Verify, TLAPS

\* While the anchors of a document are gone through.
Looking == {"anchor", "tree", "blob", "lstat", "revParse", "hash"}

\* Where a command stands, against what it has found so far.
PositionInv ==
    /\ at \in {"discover", "checkHead"} => outcomes = <<>>
    /\ at = "begin" => Len(outcomes) < Len(job.docs)
    /\ at \in Looking \cup {"exists", "type", "head", "finish"} => outcomes # <<>>
    /\ at \in Looking \ {"anchor"} => Len(Found) < Len(Doc.anchors)
    /\ at = "blob" => Entry \in Blobs
    /\ at \in {"lstat", "revParse", "hash"} =>
          /\ isHead
          /\ Anchor.name \in DOMAIN files
          /\ files[Anchor.name].kind = "blob"

\* What the commit holds under a name, as an anchor may know it.
Committed(name) == IF name.spelling = "dotdot" THEN Missing ELSE At(Ref, name.path)

\* A file state, unless an error, tells the truth about the commit.
StateTrue(name, state) ==
    /\ state.kind = "blob" =>
          Committed(name) \in Blobs /\ state.lines = LinesOf[Committed(name)]
    /\ state.kind \in {"none", "tree"} => Committed(name) \notin Blobs

CacheInv == \A name \in DOMAIN files : StateTrue(name, files[name])

\* The history is up to date, and HEAD found to be the ref as long as it is.
HistoryInv ==
    /\ AgreeNow \subseteq agreed
    /\ DifferNow \subseteq differed
    /\ ~strayed => head = Ref
    /\ present => Ref \in objects
    /\ at \in Looking /\ ~strayed /\ faults = 0 => isHead

\* What an outcome claims of its anchor.
Claim(anchor, outcome) ==
    /\ outcome = "verified" => Holds(anchor)
    /\ outcome \in {"missing", "outOfRange"} => ~Holds(anchor)
    /\ ~strayed /\ faults = 0 /\ outcome \in {"verified", "outOfRange"} =>
          anchor.name.path \in agreed
    /\ outcome = "diverged" =>
          \/ strayed
          \/ anchor.name.path \in differed
          \/ At(Ref, anchor.name.path) \in Links

ClaimsInv ==
    \A k \in DOMAIN outcomes : \A i \in DOMAIN outcomes[k] :
        Claim(AnchorAt(k, i), outcomes[k][i])

UnknownInv == resolved = "unknown" => Ref \notin Commits \/ ~present

VerifyInv ==
    VerifyTypeOK /\ PositionInv /\ CacheInv /\ HistoryInv /\ ClaimsInv /\ UnknownInv

-----------------------------------------------------------------------------

\* The documents of a command, and the one in hand.
LEMMA JobTypes ==
    ASSUME job \in Jobs
    PROVE  /\ job.docs \in Seq(Documents)
           /\ Len(job.docs) \in Nat \ {0}
           /\ job.docs[1] \in Documents
           /\ Ref \in Refs \cup {NoRef}
  <1>1. job.docs \in Seq(Documents) /\ Len(job.docs) > 0
    BY VerifyAssumption
  <1>2. Len(job.docs) \in Nat \ {0} /\ job.docs[1] \in Documents
    BY <1>1
  <1>3. Ref \in Refs \cup {NoRef}
    BY <1>2 DEF Ref, Documents
  <1> QED BY <1>1, <1>2, <1>3

LEMMA AnchorTypes ==
    ASSUME VerifyTypeOK, outcomes # <<>>
    PROVE  /\ Len(outcomes) \in 1..Len(job.docs)
           /\ outcomes[Len(outcomes)] \in Seq(OutcomeKinds)
           /\ Len(Found) \in Nat
           /\ Doc \in Documents
           /\ Doc.anchors \in Seq(Anchors)
           /\ Len(Found) < Len(Doc.anchors) => Anchor \in Anchors
           /\ Len(Found) < Len(Doc.anchors) => Anchor.name \in Names /\ Anchor.last \in Nat
  <1>1. Len(outcomes) \in 1..Len(job.docs) /\ outcomes[Len(outcomes)] \in Seq(OutcomeKinds)
    BY JobTypes DEF VerifyTypeOK
  <1>2. Doc \in Documents /\ Len(Found) \in Nat
    BY <1>1, JobTypes DEF VerifyTypeOK, Doc, Found
  <1>3. Doc.anchors \in Seq(Anchors)
    BY <1>2 DEF Documents
  <1>4. Len(Found) < Len(Doc.anchors) => Anchor \in Anchors
    BY <1>2, <1>3 DEF Anchor
  <1> QED BY <1>1, <1>2, <1>3, <1>4 DEF Anchors

\* Settling an anchor adds its outcome and changes no other.
LEMMA SettleFacts ==
    ASSUME VerifyTypeOK, outcomes # <<>>, NEW o \in OutcomeKinds, Settle(o)
    PROVE  /\ outcomes' \in Seq(Seq(OutcomeKinds))
           /\ Len(outcomes') = Len(outcomes)
           /\ \A k \in DOMAIN outcomes : k # Len(outcomes) => outcomes'[k] = outcomes[k]
           /\ outcomes'[Len(outcomes)] = Append(Found, o)
           /\ Len(outcomes'[Len(outcomes)]) = Len(Found) + 1
           /\ \A i \in 1..Len(Found) : outcomes'[Len(outcomes)][i] = Found[i]
           /\ outcomes'[Len(outcomes)][Len(Found) + 1] = o
  <1> DEFINE n == Len(outcomes)
  <1>1. n \in 1..n /\ outcomes \in Seq(Seq(OutcomeKinds)) /\ Found \in Seq(OutcomeKinds)
    BY AnchorTypes DEF VerifyTypeOK, Found
  <1>2. Append(Found, o) \in Seq(OutcomeKinds)
    BY <1>1
  <1>3. outcomes' = [outcomes EXCEPT ![n] = Append(Found, o)]
    BY DEF Settle, Found
  <1>4. /\ outcomes' \in Seq(Seq(OutcomeKinds))
        /\ Len(outcomes') = Len(outcomes)
        /\ \A k \in DOMAIN outcomes : k # n => outcomes'[k] = outcomes[k]
        /\ outcomes'[n] = Append(Found, o)
    BY <1>1, <1>2, <1>3
  <1>5. /\ Len(Append(Found, o)) = Len(Found) + 1
        /\ \A i \in 1..Len(Found) : Append(Found, o)[i] = Found[i]
        /\ Append(Found, o)[Len(Found) + 1] = o
    BY <1>1
  <1> QED BY <1>4, <1>5

\* What a step of the command leaves as it is.
Frame == UNCHANGED <<head, objects, worktree, agreed, differed, strayed, present, job>>

LEMMA FrameFacts ==
    ASSUME VerifyTypeOK, Works \/ Fails, Frame
    PROVE  /\ faults' \in 0..MaxFaults /\ (faults' = 0 => faults = 0)
           /\ RepositoryTypeOK' /\ Ref' = Ref
           /\ AgreeNow' = AgreeNow /\ DifferNow' = DifferNow
           /\ \A name, state : StateTrue(name, state) => StateTrue(name, state)'
           /\ \A anchor, o : Claim(anchor, o) => Claim(anchor, o)'
  <1>1. faults' \in 0..MaxFaults /\ (faults' = 0 => faults = 0)
    BY FaultsAssumption DEF VerifyTypeOK, Works, Fails
  <1>2. RepositoryTypeOK' /\ Ref' = Ref
    BY DEF Frame, VerifyTypeOK, RepositoryTypeOK, Ref
  <1>3. \A ref, path : At(ref, path)' = At(ref, path)
    BY DEF At
  <1>4. AgreeNow' = AgreeNow
    <2>1. \A path : Opened(path)' = Opened(path)
      BY DEF Frame, Opened, Behind
    <2> QED BY <1>2, <1>3, <2>1 DEF Frame, AgreeNow, Agrees
  <1>5. DifferNow' = DifferNow
    BY <1>2, <1>3 DEF Frame, DifferNow, Changed
  <1>6. \A name, state : StateTrue(name, state) => StateTrue(name, state)'
    BY <1>2, <1>3 DEF StateTrue, Committed
  <1>7. \A anchor : Holds(anchor)' <=> Holds(anchor)
    BY <1>2, <1>3 DEF Holds
  <1>8. \A anchor, o : Claim(anchor, o) => Claim(anchor, o)'
    BY <1>1, <1>2, <1>3, <1>7 DEF Claim, Frame
  <1> QED BY <1>1, <1>2, <1>4, <1>5, <1>6, <1>8

\* A step that adds no outcome.
LEMMA KeepFacts ==
    ASSUME VerifyInv, Works \/ Fails, Frame, UNCHANGED outcomes
    PROVE  /\ ClaimsInv'
           /\ UNCHANGED files => CacheInv'
           /\ UNCHANGED resolved => UnknownInv'
           /\ (at' \in Looking /\ ~strayed /\ faults' = 0 => isHead') => HistoryInv'
           /\ Doc' = Doc /\ Found' = Found /\ Anchor' = Anchor /\ Entry' = Entry
  <1> USE DEF VerifyInv
  <1>1. ClaimsInv'
    BY FrameFacts DEF ClaimsInv, Frame, AnchorAt
  <1>2. UNCHANGED files => CacheInv'
    BY FrameFacts DEF CacheInv
  <1>3. UNCHANGED resolved => UnknownInv'
    BY FrameFacts DEF UnknownInv, Frame
  <1>4. (at' \in Looking /\ ~strayed /\ faults' = 0 => isHead') => HistoryInv'
    BY FrameFacts DEF HistoryInv, Frame
  <1>5. Doc' = Doc /\ Found' = Found /\ Anchor' = Anchor
    BY DEF Frame, Doc, Found, Anchor
  <1>6. Entry' = Entry
    BY <1>5, FrameFacts DEF Entry, At
  <1> QED BY <1>1, <1>2, <1>3, <1>4, <1>5, <1>6

-----------------------------------------------------------------------------

\* The outcome by the lines of a file that was read is true.
LEMMA InRangeIsTrue ==
    ASSUME VerifyInv, outcomes # <<>>, Len(Found) < Len(Doc.anchors),
           NEW state \in FileStates, StateTrue(Anchor.name, state), state.kind = "blob",
           ~strayed /\ faults = 0 => Anchor.name.path \in agreed
    PROVE  InRange(state.lines) \in OutcomeKinds /\ Claim(Anchor, InRange(state.lines))
  <1>1. Anchor.last \in Nat
    BY AnchorTypes DEF VerifyInv
  <1>2. Committed(Anchor.name) \in Blobs /\ state.lines = LinesOf[Committed(Anchor.name)]
    BY DEF StateTrue
  <1>3. state.lines \in Nat
    BY DEF FileStates
  <1>4. Holds(Anchor) <=> Anchor.last <= state.lines
    BY <1>2, RepositoryAssumption DEF Holds, Committed
  <1> QED BY <1>1, <1>3, <1>4 DEF InRange, OutcomeKinds, Claim

\* Judging an anchor by a true file state yields a true outcome, or leaves it to
\* the working tree.
LEMMA JudgeIsTrue ==
    ASSUME VerifyInv, at \in Looking, Len(Found) < Len(Doc.anchors),
           NEW state \in FileStates, StateTrue(Anchor.name, state), Judge(state)
    PROVE  \/ at' = "lstat" /\ UNCHANGED outcomes /\ isHead /\ state.kind = "blob"
           \/ \E o \in OutcomeKinds : Settle(o) /\ Claim(Anchor, o)
  <1>0. outcomes # <<>>
    BY DEF VerifyInv, PositionInv
  <1>1. CASE state.kind = "error"
    BY <1>1 DEF Judge, Claim, OutcomeKinds
  <1>2. CASE state.kind \in {"none", "tree"}
    <2>1. Settle("missing")
      BY <1>2 DEF Judge
    <2>2. ~Holds(Anchor)
      BY <1>2 DEF StateTrue, Holds, Committed
    <2> QED BY <2>1, <2>2 DEF Claim, OutcomeKinds
  <1>3. CASE state.kind = "blob" /\ isHead
    BY <1>3 DEF Judge, Go
  <1>4. CASE state.kind = "blob" /\ ~isHead
    <2>1. Settle(InRange(state.lines))
      BY <1>4 DEF Judge
    <2>2. ~(~strayed /\ faults = 0)
      BY <1>4 DEF VerifyInv, HistoryInv
    <2> QED BY <1>0, <1>4, <2>1, <2>2, InRangeIsTrue
  <1> QED BY <1>1, <1>2, <1>3, <1>4 DEF FileStates

\* A step that settles an anchor with a true outcome keeps the invariant.
LEMMA SettleStep ==
    ASSUME VerifyInv, at \in Looking, Len(Found) < Len(Doc.anchors),
           NEW o \in OutcomeKinds, Settle(o), Claim(Anchor, o), Works \/ Fails, Frame,
           UNCHANGED <<source, resolved, isHead, result>>,
           DOMAIN files' \subseteq Names,
           \A name \in DOMAIN files' : files'[name] \in FileStates,
           CacheInv'
    PROVE  VerifyInv'
  <1> USE DEF VerifyInv
  <1>0. outcomes # <<>> /\ at' = "anchor"
    BY DEF PositionInv, Settle, Go
  <1> DEFINE n == Len(outcomes)
  <1>1. /\ n \in Nat \ {0} /\ n <= Len(job.docs) /\ DOMAIN outcomes = 1..n
        /\ Found = outcomes[n] /\ Doc = job.docs[n]
        /\ Len(Found) \in Nat /\ DOMAIN Found = 1..Len(Found)
        /\ Doc.anchors \in Seq(Anchors) /\ Len(Doc.anchors) \in Nat
    <2>1. outcomes \in Seq(Seq(OutcomeKinds)) /\ Found \in Seq(OutcomeKinds)
      BY <1>0, AnchorTypes DEF VerifyTypeOK, Found
    <2>2. DOMAIN outcomes = 1..n /\ DOMAIN Found = 1..Len(Found) /\ n \in Nat \ {0}
      BY <1>0, <2>1
    <2>3. Doc.anchors \in Seq(Anchors) /\ Len(Found) \in Nat
      BY <1>0, AnchorTypes
    <2>4. Len(Doc.anchors) \in Nat
      BY <2>3
    <2> QED BY <2>2, <2>3, <2>4 DEF Found, Doc, VerifyTypeOK
  <1>2. /\ outcomes' \in Seq(Seq(OutcomeKinds))
        /\ Len(outcomes') = n
    BY <1>0, SettleFacts DEF VerifyTypeOK
  <1>3. /\ \A k \in 1..n : k # n => outcomes'[k] = outcomes[k]
        /\ Len(outcomes'[n]) = Len(Found) + 1
        /\ \A i \in 1..Len(Found) : outcomes'[n][i] = Found[i]
        /\ outcomes'[n][Len(Found) + 1] = o
    BY <1>0, <1>1, SettleFacts DEF VerifyTypeOK
  <1>a. n \in Nat \ {0} /\ Len(Found) \in Nat
    BY <1>1
  <1>b. Len(outcomes'[n]) = Len(Found) + 1
    BY <1>3
  <1>c. DOMAIN outcomes' = 1..n /\ DOMAIN outcomes'[n] = 1..(Len(Found) + 1)
    <2>1. DOMAIN outcomes' = 1..n /\ outcomes'[n] \in Seq(OutcomeKinds)
      BY <1>a, <1>2
    <2>2. DOMAIN outcomes'[n] = 1..Len(outcomes'[n])
      BY <2>1
    <2> QED BY <1>b, <2>1, <2>2
  <1>4. VerifyTypeOK'
    <2>1. \A k \in 1..Len(outcomes') : Len(outcomes'[k]) <= Len(job'.docs[k].anchors)
      <3> SUFFICES ASSUME NEW k \in 1..n
                   PROVE  Len(outcomes'[k]) <= Len(job.docs[k].anchors)
        BY <1>2 DEF Frame
      <3>1. CASE k = n
        <4>1. Len(Doc.anchors) \in Nat /\ Len(Doc.anchors) = Len(job.docs[n].anchors)
          BY <1>1
        <4>2. Len(outcomes'[n]) <= Len(Doc.anchors)
          BY <1>a, <1>b, <4>1
        <4> QED BY <3>1, <4>1, <4>2
      <3>2. CASE k # n
        BY <1>3, <3>2 DEF VerifyTypeOK
      <3> QED BY <3>1, <3>2
    <2>2. faults' \in 0..MaxFaults /\ RepositoryTypeOK'
      BY FrameFacts
    <2> QED BY <1>0, <1>1, <1>2, <2>1, <2>2 DEF VerifyTypeOK, Frame
  <1>5. PositionInv'
    <2>1. outcomes' # <<>>
      <3>1. Len(outcomes') > 0
        BY <1>a, <1>2
      <3> QED BY <3>1
    <2> QED BY <1>0, <2>1 DEF PositionInv, Looking
  <1>6. HistoryInv'
    BY <1>0, FrameFacts DEF HistoryInv, Looking, Frame
  <1>7. ClaimsInv'
    <2>1. ASSUME NEW k \in 1..n, NEW i \in DOMAIN outcomes'[k]
          PROVE  Claim(AnchorAt(k, i), outcomes'[k][i])
      <3>1. CASE k # n
        BY <1>1, <1>3, <3>1 DEF ClaimsInv
      <3>2. CASE k = n /\ i \in 1..Len(Found)
        BY <1>1, <1>3, <3>2 DEF ClaimsInv
      <3>3. CASE k = n /\ i = Len(Found) + 1
        BY <1>1, <1>3, <3>3 DEF AnchorAt, Anchor
      <3>4. k = n => i \in 1..(Len(Found) + 1)
        BY <1>c
      <3>5. k = n => i \in 1..Len(Found) \/ i = Len(Found) + 1
        BY <1>a, <3>4
      <3> QED BY <3>1, <3>2, <3>3, <3>5
    <2>2. \A k \in DOMAIN outcomes' : \A i \in DOMAIN outcomes'[k] :
              Claim(AnchorAt(k, i), outcomes'[k][i])
      BY <1>c, <2>1
    <2> QED BY <2>2, FrameFacts DEF ClaimsInv, Frame, AnchorAt
  <1>8. UnknownInv'
    BY FrameFacts DEF UnknownInv, Frame
  <1> QED BY <1>4, <1>5, <1>6, <1>7, <1>8

-----------------------------------------------------------------------------

\* One lemma for each action.  The first ones add no outcome.
LEMMA EarlySteps ==
    ASSUME VerifyInv, Frame,
           Discover \/ CheckHead \/ CatFileExists \/ CatFileType \/ RefIsHead
    PROVE  VerifyInv'
  <1> USE DEF VerifyInv
  <1>1. Works \/ Fails
    BY DEF Discover, CheckHead, CatFileExists, CatFileType, RefIsHead
  <1>2. UNCHANGED outcomes /\ UNCHANGED files
    BY DEF Discover, CheckHead, CatFileExists, CatFileType, RefIsHead
  <1>3. VerifyTypeOK'
    <2>1. /\ at' \in {"checkHead", "begin", "report", "finish", "type", "head", "anchor"}
          /\ source' \in {"repo", "none", "unavailable"}
          /\ resolved' \in {"yes", "unusable", "unknown", "unavailable"}
          /\ UNCHANGED result
      <3>1. CASE Discover \/ CheckHead
        BY <3>1 DEF VerifyTypeOK, Discover, CheckHead, Go
      <3>2. CASE CatFileExists
        <4>1. resolved' \in {resolved, "unknown", "unavailable"}
          BY <3>2 DEF CatFileExists
        <4> QED BY <3>2, <4>1 DEF VerifyTypeOK, CatFileExists, Go
      <3>3. CASE CatFileType \/ RefIsHead
        BY <3>3 DEF VerifyTypeOK, CatFileType, RefIsHead, Go
      <3> QED BY <3>1, <3>2, <3>3
    <2>0. isHead' \in BOOLEAN
      BY DEF VerifyTypeOK, Discover, CheckHead, CatFileExists, CatFileType, RefIsHead
    <2>2. /\ job' \in Jobs /\ agreed' \subseteq Paths /\ differed' \subseteq Paths
          /\ strayed' \in BOOLEAN /\ present' \in BOOLEAN
      BY DEF VerifyTypeOK, Frame
    <2>3. /\ DOMAIN files' \subseteq Names
          /\ \A name \in DOMAIN files' : files'[name] \in FileStates
          /\ outcomes' \in Seq(Seq(OutcomeKinds))
          /\ Len(outcomes') <= Len(job'.docs)
          /\ \A k \in 1..Len(outcomes') : Len(outcomes'[k]) <= Len(job'.docs[k].anchors)
      BY <1>2 DEF VerifyTypeOK, Frame
    <2>4. RepositoryTypeOK' /\ faults' \in 0..MaxFaults
      BY <1>1, FrameFacts
    <2>5. result' \in {"none", "valid", "invalid", "precondition", "collected"}
      BY <2>1 DEF VerifyTypeOK
    <2> QED BY <2>0, <2>1, <2>2, <2>3, <2>4, <2>5 DEF VerifyTypeOK
  <1>4. PositionInv'
    <2>1. CASE Discover \/ CheckHead
      <3>1. at' \in {"checkHead", "begin", "report"} /\ outcomes = <<>>
        BY <2>1 DEF Discover, CheckHead, Go, PositionInv
      <3>2. Len(outcomes) < Len(job.docs)
        <4>1. Len(job.docs) \in Nat \ {0}
          <5>1. job \in Jobs
            BY DEF VerifyTypeOK
          <5> QED BY <5>1, JobTypes
        <4>2. Len(outcomes) = 0
          BY <3>1
        <4> QED BY <4>1, <4>2
      <3> QED BY <1>2, <3>1, <3>2 DEF PositionInv, Looking, Frame
    <2>2. CASE CatFileExists \/ CatFileType \/ RefIsHead
      <3>1. at' \in {"finish", "type", "head", "anchor"} /\ outcomes # <<>>
        BY <2>2 DEF CatFileExists, CatFileType, RefIsHead, Go, PositionInv
      <3> QED BY <1>2, <3>1 DEF PositionInv, Looking, Frame
    <2> QED BY <2>1, <2>2
  <1>5. HistoryInv'
    <2>1. CASE RefIsHead
      <3>1. CASE Works /\ isHead' = (head = Ref)
        BY <1>1, <1>2, <3>1, KeepFacts DEF HistoryInv
      <3>2. CASE Fails
        <4>1. faults' # 0
          BY <3>2, FaultsAssumption DEF Fails, VerifyTypeOK
        <4> QED BY <1>1, <1>2, <4>1, KeepFacts
      <3> QED BY <2>1, <3>1, <3>2 DEF RefIsHead
    <2>2. CASE Discover \/ CheckHead \/ CatFileExists \/ CatFileType
      <3>1. at' \notin Looking
        BY <2>2 DEF Discover, CheckHead, CatFileExists, CatFileType, Go, Looking
      <3> QED BY <1>1, <1>2, <3>1, KeepFacts
    <2> QED BY <2>1, <2>2
  <1>6. UnknownInv'
    <2>1. CASE CatFileExists
      <3>1. CASE UNCHANGED resolved
        BY <1>1, <1>2, <3>1, KeepFacts
      <3>2. ASSUME NEW f \in Failures, ObjectAbsent(f),
                   \/ Ref \notin objects
                   \/ f.exited => f.complained
            PROVE  ~present
        BY <3>2 DEF ObjectAbsent, HistoryInv
      <3>3. CASE resolved' = "unknown" => ~present
        BY <1>1, <3>3, FrameFacts DEF UnknownInv, Frame
      <3> QED BY <2>1, <3>1, <3>2, <3>3 DEF CatFileExists
    <2>2. CASE CatFileType
      BY <1>1, <2>2, FrameFacts DEF UnknownInv, CatFileType, Frame
    <2>3. CASE Discover \/ CheckHead \/ RefIsHead
      <3>1. UNCHANGED resolved
        BY <2>3 DEF Discover, CheckHead, RefIsHead
      <3> QED BY <1>1, <1>2, <3>1, KeepFacts
    <2> QED BY <2>1, <2>2, <2>3
  <1> QED BY <1>1, <1>2, <1>3, <1>4, <1>5, <1>6, KeepFacts

LEMMA EndSteps ==
    ASSUME VerifyInv, Frame, Finish \/ Report
    PROVE  VerifyInv'
  <1> USE DEF VerifyInv
  <1>1. (Works \/ Fails) /\ UNCHANGED <<outcomes, files, resolved>>
    BY DEF Finish, Report
  <1>2. VerifyTypeOK'
    <2>1. /\ at' \in {"begin", "report", "gone"}
          /\ UNCHANGED <<source, isHead>>
          /\ result' \in {"none", "valid", "invalid", "precondition", "collected"}
      BY DEF Finish, Report, Go, VerifyTypeOK
    <2> QED BY <1>1, <2>1, FrameFacts DEF VerifyTypeOK, Frame
  <1>3. PositionInv' /\ HistoryInv'
    <2>1. at' \in {"begin", "report", "gone"}
      BY DEF Finish, Report, Go
    <2>2. at' = "begin" => Len(outcomes) < Len(job.docs)
      BY DEF Finish, Report, Go
    <2> QED BY <1>1, <2>1, <2>2, KeepFacts DEF PositionInv, Looking, Frame
  <1> QED BY <1>1, <1>2, <1>3, KeepFacts

\* The next document has no outcome yet.
LEMMA BeginStep ==
    ASSUME VerifyInv, Frame, Begin
    PROVE  VerifyInv'
  <1> USE DEF VerifyInv
  <1> DEFINE n == Len(outcomes)
  <1>1. /\ Works /\ outcomes' = Append(outcomes, <<>>) /\ UNCHANGED files
        /\ at' \in {"exists", "finish"} /\ at = "begin"
        /\ resolved' \in {"unusable", "yes"}
        /\ UNCHANGED <<source, isHead, result>>
    BY DEF Begin, Go
  <1>2. outcomes \in Seq(Seq(OutcomeKinds)) /\ n \in Nat /\ DOMAIN outcomes = 1..n
    BY DEF VerifyTypeOK
  <1>3. /\ outcomes' \in Seq(Seq(OutcomeKinds))
        /\ Len(outcomes') = n + 1
        /\ DOMAIN outcomes' = 1..(n + 1)
        /\ \A k \in 1..n : outcomes'[k] = outcomes[k]
        /\ outcomes'[n + 1] = <<>>
    <2>1. <<>> \in Seq(OutcomeKinds)
      OBVIOUS
    <2> QED BY <1>1, <1>2, <2>1
  <1>4. n + 1 <= Len(job.docs) /\ job.docs \in Seq(Documents)
    <2>1. job \in Jobs /\ n < Len(job.docs)
      BY <1>1 DEF PositionInv, VerifyTypeOK
    <2>2. Len(job.docs) \in Nat /\ job.docs \in Seq(Documents)
      BY <2>1, JobTypes
    <2> QED BY <1>2, <2>1, <2>2
  <1>5. VerifyTypeOK'
    <2>1. \A k \in 1..Len(outcomes') : Len(outcomes'[k]) <= Len(job'.docs[k].anchors)
      <3> SUFFICES ASSUME NEW k \in 1..(n + 1)
                   PROVE  Len(outcomes'[k]) <= Len(job.docs[k].anchors)
        BY <1>3 DEF Frame
      <3>1. CASE k = n + 1
        <4>1. job.docs[k] \in Documents
          BY <1>2, <1>4, <3>1
        <4>2. Len(job.docs[k].anchors) \in Nat
          BY <4>1 DEF Documents
        <4>3. Len(outcomes'[k]) = 0
          BY <1>3, <3>1
        <4> QED BY <4>2, <4>3
      <3>2. CASE k \in 1..n
        BY <1>3, <3>2 DEF VerifyTypeOK
      <3> QED BY <1>2, <3>1, <3>2
    <2>2. faults' \in 0..MaxFaults /\ RepositoryTypeOK'
      BY <1>1, FrameFacts
    <2>3. Len(outcomes') <= Len(job'.docs) /\ outcomes' \in Seq(Seq(OutcomeKinds))
      BY <1>3, <1>4 DEF Frame
    <2> QED BY <1>1, <2>1, <2>2, <2>3 DEF VerifyTypeOK, Frame
  <1>6. PositionInv'
    <2>1. outcomes' # <<>>
      BY <1>2, <1>3
    <2> QED BY <1>1, <2>1 DEF PositionInv, Looking
  <1>7. HistoryInv'
    BY <1>1, FrameFacts DEF HistoryInv, Looking, Frame
  <1>8. ClaimsInv'
    <2>1. ASSUME NEW k \in 1..(n + 1), NEW i \in DOMAIN outcomes'[k]
          PROVE  Claim(AnchorAt(k, i), outcomes'[k][i])
      <3>1. k \in 1..n
        BY <1>2, <1>3, <2>1
      <3> QED BY <1>2, <1>3, <2>1, <3>1 DEF ClaimsInv
    <2>2. \A k \in DOMAIN outcomes' : \A i \in DOMAIN outcomes'[k] :
              Claim(AnchorAt(k, i), outcomes'[k][i])
      BY <1>3, <2>1
    <2> QED BY <1>1, <2>2, FrameFacts DEF ClaimsInv, Frame, AnchorAt
  <1>9. CacheInv' /\ UnknownInv'
    BY <1>1, FrameFacts DEF CacheInv, UnknownInv, Frame
  <1> QED BY <1>5, <1>6, <1>7, <1>8, <1>9

\* An anchor that is left to git, or to the working tree.
LEMMA LookFurther ==
    ASSUME VerifyInv, Frame, Works \/ Fails, UNCHANGED <<outcomes, source, resolved, isHead, result>>,
           at \in Looking, Len(Found) < Len(Doc.anchors),
           \/ at' = "tree"
           \/ at' = "blob" /\ Entry \in Blobs
           \/ /\ at' \in {"lstat", "revParse", "hash"} /\ isHead
              /\ Anchor.name \in DOMAIN files' /\ files'[Anchor.name].kind = "blob",
           DOMAIN files' \subseteq Names,
           \A name \in DOMAIN files' : files'[name] \in FileStates,
           CacheInv'
    PROVE  VerifyInv'
  <1> USE DEF VerifyInv
  <1>1. VerifyTypeOK'
    <2>1. /\ outcomes' \in Seq(Seq(OutcomeKinds))
          /\ Len(outcomes') <= Len(job'.docs)
          /\ \A k \in 1..Len(outcomes') : Len(outcomes'[k]) <= Len(job'.docs[k].anchors)
      BY DEF VerifyTypeOK, Frame
    <2>2. RepositoryTypeOK' /\ faults' \in 0..MaxFaults
      BY FrameFacts
    <2> QED BY <2>1, <2>2 DEF VerifyTypeOK, Frame
  <1>2. PositionInv'
    <2>1. outcomes' # <<>>
      BY DEF PositionInv
    <2> QED BY <2>1, KeepFacts DEF PositionInv, Looking
  <1>3. HistoryInv'
    BY FrameFacts DEF HistoryInv, Frame
  <1> QED BY <1>1, <1>2, <1>3, KeepFacts

\* A file state is learned, and the anchor judged by it.
LEMMA LearnStep ==
    ASSUME VerifyInv, Frame, Works \/ Fails, at \in {"tree", "blob"},
           NEW state \in FileStates, StateTrue(Anchor.name, state), Learn(state),
           UNCHANGED <<source, resolved, isHead, result>>
    PROVE  VerifyInv'
  <1> USE DEF VerifyInv
  <1>1. /\ at \in Looking /\ Len(Found) < Len(Doc.anchors)
        /\ outcomes # <<>>
    BY DEF PositionInv, Looking
  <1>2. Anchor.name \in Names
    BY <1>1, AnchorTypes
  <1>3. /\ DOMAIN files' = DOMAIN files \cup {Anchor.name}
        /\ \A name \in DOMAIN files' :
              files'[name] = IF name = Anchor.name THEN state ELSE files[name]
    BY DEF Learn
  <1>4. /\ DOMAIN files' \subseteq Names
        /\ \A name \in DOMAIN files' : files'[name] \in FileStates
    BY <1>2, <1>3 DEF VerifyTypeOK
  <1>5. CacheInv'
    <2>1. \A name \in DOMAIN files' : StateTrue(name, files'[name])
      BY <1>3 DEF CacheInv
    <2> QED BY <2>1, FrameFacts DEF CacheInv
  <1>6. Judge(state)
    BY DEF Learn
  <1>7. CASE at' = "lstat" /\ UNCHANGED outcomes /\ isHead /\ state.kind = "blob"
    BY <1>1, <1>3, <1>4, <1>5, <1>7, LookFurther
  <1>8. CASE \E o \in OutcomeKinds : Settle(o) /\ Claim(Anchor, o)
    BY <1>1, <1>4, <1>5, <1>8, SettleStep
  <1> QED BY <1>1, <1>6, <1>7, <1>8, JudgeIsTrue

LEMMA TakeAnchorStep ==
    ASSUME VerifyInv, Frame, TakeAnchor
    PROVE  VerifyInv'
  <1> USE DEF VerifyInv
  <1>1. /\ at \in Looking /\ Len(Found) < Len(Doc.anchors) /\ Works
        /\ UNCHANGED <<source, resolved, isHead, files, result>>
    BY DEF TakeAnchor, Looking
  <1>2. /\ DOMAIN files' \subseteq Names
        /\ \A name \in DOMAIN files' : files'[name] \in FileStates
        /\ CacheInv'
    BY <1>1, FrameFacts DEF VerifyTypeOK, CacheInv
  <1>3. CASE Settle("unusable")
    BY <1>1, <1>2, <1>3, SettleStep DEF Claim, OutcomeKinds
  <1>4. CASE Anchor.name \in DOMAIN files /\ Judge(files[Anchor.name])
    <2>1. files[Anchor.name] \in FileStates /\ StateTrue(Anchor.name, files[Anchor.name])
      BY <1>4 DEF VerifyTypeOK, CacheInv
    <2>2. CASE at' = "lstat" /\ UNCHANGED outcomes /\ isHead /\ files[Anchor.name].kind = "blob"
      BY <1>1, <1>2, <1>4, <2>2, LookFurther
    <2>3. CASE \E o \in OutcomeKinds : Settle(o) /\ Claim(Anchor, o)
      BY <1>1, <1>2, <2>3, SettleStep
    <2> QED BY <1>1, <1>4, <2>1, <2>2, <2>3, JudgeIsTrue
  <1>5. CASE Go("tree") /\ UNCHANGED outcomes
    BY <1>1, <1>2, <1>5, LookFurther DEF Go
  <1> QED BY <1>3, <1>4, <1>5 DEF TakeAnchor

\* What ls-tree lists under a name is what the commit holds under it.
LEMMA EntryIsCommitted == Entry = Committed(Anchor.name)
  BY DEF Entry, Committed

LEMMA ReadSteps ==
    ASSUME VerifyInv, Frame, LsTree \/ CatFileBlob
    PROVE  VerifyInv'
  <1> USE DEF VerifyInv
  <1>1. /\ at \in {"tree", "blob"} /\ (Works \/ Fails)
        /\ UNCHANGED <<source, resolved, isHead, result>>
    BY DEF LsTree, CatFileBlob
  <1>2. at \in Looking /\ Len(Found) < Len(Doc.anchors)
    BY <1>1 DEF PositionInv, Looking
  <1>3. \A kind \in {"error", "none", "tree"} : Is(kind) \in FileStates /\ Is(kind).kind = kind
    BY DEF Is, FileStates
  <1>4. CASE Learn(Is("error"))
    <2>1. StateTrue(Anchor.name, Is("error"))
      BY <1>3 DEF StateTrue
    <2> QED BY <1>1, <1>3, <1>4, <2>1, LearnStep
  <1>5. CASE Entry \in {Directory, Missing} /\ (Learn(Is("tree")) \/ Learn(Is("none")))
    <2>1. Committed(Anchor.name) \notin Blobs
      BY <1>5, EntryIsCommitted, RepositoryAssumption
    <2>2. StateTrue(Anchor.name, Is("tree")) /\ StateTrue(Anchor.name, Is("none"))
      BY <1>3, <2>1 DEF StateTrue
    <2> QED BY <1>1, <1>3, <1>5, <2>2, LearnStep
  <1>6. CASE Entry \in Blobs /\ Go("blob") /\ UNCHANGED <<files, outcomes>>
    <2>1. /\ DOMAIN files' \subseteq Names
          /\ \A name \in DOMAIN files' : files'[name] \in FileStates
          /\ CacheInv'
      BY <1>1, <1>6, FrameFacts DEF VerifyTypeOK, CacheInv
    <2> QED BY <1>1, <1>2, <1>6, <2>1, LookFurther DEF Go
  <1>7. CASE at = "blob" /\ Learn([kind |-> "blob", lines |-> LinesOf[Entry]])
    <2> DEFINE state == [kind |-> "blob", lines |-> LinesOf[Entry]]
    <2>1. Entry \in Blobs
      BY <1>7 DEF PositionInv, Looking
    <2>2. LinesOf[Entry] \in Nat
      BY <2>1, RepositoryAssumption
    <2>3. state \in FileStates
      BY <2>2 DEF FileStates
    <2>4. StateTrue(Anchor.name, state)
      BY <2>1, EntryIsCommitted DEF StateTrue
    <2> QED BY <1>1, <1>7, <2>3, <2>4, LearnStep
  <1>8. CASE LsTree
    BY <1>4, <1>5, <1>6, <1>8 DEF LsTree
  <1>9. CASE CatFileBlob
    BY <1>4, <1>7, <1>9 DEF CatFileBlob
  <1> QED BY <1>8, <1>9

\* The working tree is asked about a file the commit holds.
LEMMA CompareSteps ==
    ASSUME VerifyInv, Frame, Lstat \/ RevParse \/ HashObject
    PROVE  VerifyInv'
  <1> USE DEF VerifyInv
  <1> DEFINE name == Anchor.name
             path == Anchor.name.path
  <1>1. /\ at \in {"lstat", "revParse", "hash"} /\ (Works \/ Fails)
        /\ UNCHANGED <<source, resolved, isHead, files, result>>
    BY DEF Lstat, RevParse, HashObject
  <1>2. /\ at \in Looking /\ Len(Found) < Len(Doc.anchors) /\ isHead /\ outcomes # <<>>
        /\ name \in DOMAIN files /\ files[name].kind = "blob"
    BY <1>1 DEF PositionInv, Looking
  <1>3. /\ DOMAIN files' \subseteq Names
        /\ \A n \in DOMAIN files' : files'[n] \in FileStates
        /\ CacheInv'
    BY <1>1, FrameFacts DEF VerifyTypeOK, CacheInv
  <1>4. name \in Names /\ path \in Paths
    <2>1. name \in Names
      BY <1>2 DEF VerifyTypeOK
    <2> QED BY <2>1 DEF Names
  <1>5. files[name] \in FileStates /\ StateTrue(name, files[name])
    BY <1>2 DEF VerifyTypeOK, CacheInv
  <1>6. Entry = At(Ref, path) /\ Entry \in Blobs
    BY <1>2, <1>5, RepositoryAssumption DEF StateTrue, Committed, Entry
  <1>7. CASE Settle("unchecked")
    BY <1>1, <1>2, <1>3, <1>7, SettleStep DEF Claim, OutcomeKinds
  <1>8. CASE at' \in {"revParse", "hash"} /\ UNCHANGED outcomes
    BY <1>1, <1>2, <1>3, <1>8, LookFurther
  <1>9. CASE (Copy = Missing \/ Text = Entry) /\ Settle(InRange(Lines))
    <2>1. path \in agreed
      BY <1>4, <1>6, <1>9 DEF HistoryInv, AgreeNow, Agrees, Copy, Text
    <2>2. InRange(Lines) \in OutcomeKinds /\ Claim(Anchor, InRange(Lines))
      BY <1>2, <1>5, <2>1, InRangeIsTrue DEF Lines
    <2> QED BY <1>1, <1>2, <1>3, <1>9, <2>2, SettleStep
  <1>10. CASE Text \in Blobs \ {Entry} /\ Settle("diverged")
    <2>1. Entry \in Links \/ Changed(Ref, path)
      <3>1. CASE Copy \in Links
        BY <1>6, <3>1, RepositoryAssumption DEF Changed, Copy
      <3>2. CASE Copy \notin Links
        BY <1>6, <1>10, <3>2, RepositoryAssumption DEF Changed, Copy, Text, Opened
      <3> QED BY <3>1, <3>2
    <2>2. ~strayed => path \in differed \/ Entry \in Links
      BY <1>4, <2>1 DEF HistoryInv, DifferNow
    <2>3. Claim(Anchor, "diverged")
      BY <1>6, <2>2 DEF Claim
    <2> QED BY <1>1, <1>2, <1>3, <1>10, <2>3, SettleStep DEF OutcomeKinds
  <1> QED BY <1>7, <1>8, <1>9, <1>10 DEF Lstat, RevParse, HashObject, Go

\* Others may move HEAD and write files, and the history takes note of it.
LEMMA OthersStep ==
    ASSUME VerifyInv, Others
    PROVE  VerifyInv'
  <1> USE DEF VerifyInv
  <1>1. /\ UNCHANGED <<faults, job, at, source, resolved, isHead, files, outcomes, result, present>>
        /\ RepositoryNext /\ Ref' = Ref
        /\ agreed' = agreed \cup AgreeNow' /\ differed' = differed \cup DifferNow'
        /\ strayed' = (strayed \/ head' # Ref)
    BY DEF Others, jobVars, Ref
  <1>2. RepositoryTypeOK' /\ objects \subseteq objects'
    <2> USE DEF VerifyTypeOK, RepositoryTypeOK
    <2>1. TreeOf \in [Commits -> [Paths -> Blobs \cup {Directory, Missing}]] /\ Commits \subseteq Refs
      BY RepositoryAssumption
    <2>2. CASE Checkout
      BY <2>1, <2>2 DEF Checkout
    <2>3. CASE Edit \/ Commit \/ Fetch
      BY <2>1, <2>3 DEF Edit, Commit, Fetch
    <2> QED BY <1>1, <2>2, <2>3 DEF RepositoryNext
  <1>3. AgreeNow' \subseteq Paths /\ DifferNow' \subseteq Paths
    BY DEF AgreeNow, DifferNow
  <1>4. VerifyTypeOK'
    BY <1>1, <1>2, <1>3 DEF VerifyTypeOK
  <1>5. /\ Doc' = Doc /\ Found' = Found /\ Anchor' = Anchor
        /\ \A ref, path : At(ref, path)' = At(ref, path)
    BY <1>1 DEF Doc, Found, Anchor, At
  <1>6. Entry' = Entry
    BY <1>1, <1>5 DEF Entry
  <1>7. PositionInv'
    BY <1>1, <1>5, <1>6 DEF PositionInv
  <1>8. CacheInv'
    BY <1>1, <1>5 DEF CacheInv, StateTrue, Committed
  <1>9. HistoryInv'
    BY <1>1, <1>2 DEF HistoryInv
  <1>10. ClaimsInv'
    <2>1. \A anchor : Holds(anchor)' <=> Holds(anchor)
      BY <1>1, <1>5 DEF Holds
    <2>2. \A anchor, o : Claim(anchor, o) => Claim(anchor, o)'
      BY <1>1, <1>5, <2>1 DEF Claim
    <2> QED BY <1>1, <2>2 DEF ClaimsInv, AnchorAt
  <1>11. UnknownInv'
    BY <1>1 DEF UnknownInv
  <1> QED BY <1>4, <1>7, <1>8, <1>9, <1>10, <1>11

LEMMA InitVerifies == VerifyInit => VerifyInv
  <1> SUFFICES ASSUME VerifyInit
               PROVE  VerifyInv
    OBVIOUS
  <1>1. job \in Jobs /\ outcomes = <<>> /\ files = NoFiles /\ at = "discover"
    BY DEF VerifyInit
  <1>2. RepositoryTypeOK
    BY DEF VerifyInit, RepositoryInit, RepositoryTypeOK
  <1>3. AgreeNow \subseteq Paths /\ DifferNow \subseteq Paths
    BY DEF AgreeNow, DifferNow
  <1>4. Len(outcomes) <= Len(job.docs) /\ Len(outcomes) = 0 /\ outcomes \in Seq(Seq(OutcomeKinds))
    <2>1. Len(job.docs) \in Nat \ {0}
      BY <1>1, JobTypes
    <2> QED BY <1>1, <2>1
  <1>5. DOMAIN files = {}
    BY <1>1 DEF NoFiles
  <1>6. VerifyTypeOK
    <2>1. \A k \in 1..Len(outcomes) : Len(outcomes[k]) <= Len(job.docs[k].anchors)
      BY <1>4
    <2>2. faults \in 0..MaxFaults
      BY FaultsAssumption DEF VerifyInit
    <2>3. strayed \in BOOLEAN /\ present \in BOOLEAN
      BY DEF VerifyInit
    <2>4. agreed \subseteq Paths /\ differed \subseteq Paths
      BY <1>3 DEF VerifyInit
    <2>5. /\ source = "repo" /\ resolved = "yes" /\ isHead \in BOOLEAN /\ result = "none"
      BY DEF VerifyInit
    <2> QED BY <1>1, <1>2, <1>4, <1>5, <2>1, <2>2, <2>3, <2>4, <2>5 DEF VerifyTypeOK
  <1>7. PositionInv
    BY <1>1 DEF PositionInv, Looking
  <1>8. CacheInv /\ ClaimsInv
    BY <1>1, <1>5 DEF CacheInv, ClaimsInv
  <1>9. HistoryInv /\ UnknownInv
    BY DEF VerifyInit, HistoryInv, UnknownInv, Looking
  <1> QED BY <1>6, <1>7, <1>8, <1>9 DEF VerifyInv

LEMMA NextVerifies == VerifyInv /\ [VerifyNext]_verifyVars => VerifyInv'
  <1> SUFFICES ASSUME VerifyInv, [VerifyNext]_verifyVars
               PROVE  VerifyInv'
    OBVIOUS
  <1>1. CASE VerifyStep /\ UNCHANGED <<repositoryVars, historyVars>>
    <2>1. UNCHANGED job
      BY <1>1 DEF VerifyStep, Discover, CheckHead, Begin, CatFileExists, CatFileType, RefIsHead,
           TakeAnchor, LsTree, CatFileBlob, Lstat, RevParse, HashObject, Finish, Report
    <2>2. Frame
      BY <1>1, <2>1 DEF Frame, repositoryVars, historyVars
    <2> QED BY <1>1, <2>2, EarlySteps, EndSteps, BeginStep, TakeAnchorStep, ReadSteps, CompareSteps
         DEF VerifyStep
  <1>2. CASE Others
    BY <1>2, OthersStep
  <1>3. CASE Gone \/ UNCHANGED verifyVars
    <2>1. UNCHANGED verifyVars
      BY <1>3 DEF Gone
    <2>2. Frame /\ Works /\ UNCHANGED <<at, source, resolved, isHead, files, outcomes, result>>
      BY <2>1 DEF verifyVars, repositoryVars, jobVars, historyVars, Frame, Works
    <2>3. CacheInv' /\ HistoryInv' /\ ClaimsInv' /\ UnknownInv'
      BY <2>2, KeepFacts DEF VerifyInv, HistoryInv, Works
    <2>4. VerifyTypeOK'
      <3>1. RepositoryTypeOK' /\ faults' \in 0..MaxFaults
        BY <2>2, FrameFacts DEF VerifyInv
      <3>2. isHead' \in BOOLEAN /\ strayed' \in BOOLEAN /\ present' \in BOOLEAN
        BY <2>2, Zenon DEF VerifyInv, VerifyTypeOK, Frame
      <3>3. /\ DOMAIN files' \subseteq Names
            /\ \A name \in DOMAIN files' : files'[name] \in FileStates
            /\ outcomes' \in Seq(Seq(OutcomeKinds))
            /\ Len(outcomes') <= Len(job'.docs)
            /\ \A k \in 1..Len(outcomes') : Len(outcomes'[k]) <= Len(job'.docs[k].anchors)
        BY <2>2 DEF VerifyInv, VerifyTypeOK, Frame
      <3>4. /\ UNCHANGED <<job, at, source, resolved, result, agreed, differed>>
            /\ VerifyTypeOK
        BY <2>2 DEF VerifyInv, Frame
      <3> QED BY <3>1, <3>2, <3>3, <3>4 DEF VerifyTypeOK
    <2>5. PositionInv'
      BY <2>2, KeepFacts DEF VerifyInv, PositionInv, Frame
    <2> QED BY <2>3, <2>4, <2>5 DEF VerifyInv
  <1> QED BY <1>1, <1>2, <1>3 DEF VerifyNext

-----------------------------------------------------------------------------

\* How far a submission came before it is reported on.
ReportInv ==
    /\ at = "finish" => resolved # "yes"
    /\ at = "checkHead" => job.command = "collect"
    /\ at \in {"report", "gone"} /\ job.command = "submit" /\ source = "repo" =>
          /\ Len(outcomes) = 1
          /\ resolved = "yes" => Len(outcomes[1]) = Len(job.docs[1].anchors)
    /\ at # "gone" => result = "none"
    /\ ValidIsVerified

LEMMA ReportIsVerified ==
    ASSUME VerifyInv, ReportInv, Report
    PROVE  ValidIsVerified'
  <1> SUFFICES ASSUME result' = "valid", NEW i \in DOMAIN job.docs[1].anchors
               PROVE  outcomes # <<>> /\ i \in DOMAIN outcomes[1] /\ outcomes[1][i] = "verified"
    BY DEF ValidIsVerified, Report
  <1> DEFINE anchors == job.docs[1].anchors
  <1>1. job \in Jobs /\ outcomes \in Seq(Seq(OutcomeKinds))
    BY DEF VerifyInv, VerifyTypeOK
  <1>2. job.command = "submit" /\ "diverged" \notin Outcomes /\ ~Errors
    <2>1. job.command \in {"submit", "collect"}
      BY <1>1, VerifyAssumption
    <2>2. job.command # "collect" /\ "diverged" \notin Outcomes /\ ~Errors
      BY DEF Report
    <2> QED BY <2>1, <2>2
  <1>3. anchors \in Seq(Anchors) /\ Len(anchors) > 0
    <2>1. anchors \in Seq(Anchors)
      BY <1>1, JobTypes DEF Documents
    <2> QED BY <2>1
  <1>4. source = "repo" /\ resolved = "yes" /\ Outcomes \cap {"unusable", "unchecked"} = {}
    BY <1>2, <1>3 DEF Errors, Unverified
  <1>5. Outcomes \cap {"missing", "outOfRange"} = {}
    BY <1>2 DEF Errors
  <1>6. Len(outcomes) = 1 /\ Len(outcomes[1]) = Len(anchors)
    BY <1>2, <1>4 DEF ReportInv, Report
  <1>7. outcomes # <<>> /\ outcomes[1] \in Seq(OutcomeKinds) /\ Found = outcomes[1]
    <2>1. outcomes # <<>> /\ 1 \in DOMAIN outcomes
      BY <1>1, <1>6
    <2> QED BY <1>1, <1>6, <2>1 DEF Found
  <1>8. i \in 1..Len(outcomes[1]) /\ DOMAIN outcomes[1] = 1..Len(outcomes[1])
    BY <1>3, <1>6, <1>7
  <1>9. outcomes[1][i] \in Outcomes /\ outcomes[1][i] \in OutcomeKinds
    BY <1>7, <1>8 DEF Outcomes
  <1> QED BY <1>2, <1>4, <1>5, <1>7, <1>8, <1>9 DEF OutcomeKinds

LEMMA InitReports == VerifyInit => ReportInv
  BY DEF VerifyInit, ReportInv, ValidIsVerified

LEMMA NextReports == VerifyInv /\ ReportInv /\ [VerifyNext]_verifyVars => ReportInv'
  <1> SUFFICES ASSUME VerifyInv, ReportInv, [VerifyNext]_verifyVars
               PROVE  ReportInv'
    OBVIOUS
  <1>1. CASE Report
    BY <1>1, ReportIsVerified DEF Report, Go, ReportInv
  <1>2. CASE Finish
    <2>1. /\ at' \in {"begin", "report"} /\ at \in {"finish", "anchor"}
          /\ UNCHANGED <<job, source, resolved, outcomes, result>>
          /\ at' = "report" => ~(Len(outcomes) < Len(job.docs))
          /\ at = "finish" \/ Len(Found) = Len(Doc.anchors)
      BY <1>2 DEF Finish
    <2>2. ASSUME at' = "report", job.command = "submit"
          PROVE  /\ Len(outcomes) = 1
                 /\ resolved = "yes" => Len(outcomes[1]) = Len(job.docs[1].anchors)
      <3>1. Len(job.docs) = 1
        BY <2>2, VerifyAssumption DEF VerifyInv, VerifyTypeOK
      <3>2. Len(outcomes) = 1
        <4>1. outcomes # <<>> /\ outcomes \in Seq(Seq(OutcomeKinds)) /\ Len(outcomes) <= Len(job.docs)
          BY <2>1 DEF VerifyInv, PositionInv, VerifyTypeOK, Looking
        <4>2. Len(outcomes) \in Nat
          BY <4>1
        <4> QED BY <2>1, <2>2, <3>1, <4>1, <4>2
      <3> QED BY <2>1, <3>2 DEF ReportInv, Found, Doc
    <2>3. result' = "none" /\ at' # "finish" /\ at' # "checkHead" /\ at' # "gone"
      BY <2>1 DEF ReportInv
    <2> QED BY <2>1, <2>2, <2>3 DEF ReportInv, ValidIsVerified
  <1>3. CASE Discover \/ CheckHead
    <2>1. job.command \in {"submit", "collect"}
      BY VerifyAssumption DEF VerifyInv, VerifyTypeOK
    <2>2. /\ at' \in {"begin", "checkHead", "report"} /\ UNCHANGED <<job, result>>
          /\ at' = "checkHead" => job.command # "submit"
          /\ at' = "report" => source' # "repo" \/ job.command = "collect"
          /\ result = "none"
      BY <1>3 DEF Discover, CheckHead, Go, ReportInv
    <2> QED BY <2>1, <2>2 DEF ReportInv, ValidIsVerified
  <1>4. CASE Begin \/ CatFileExists \/ CatFileType \/ RefIsHead
    <2>1. /\ at' \in {"exists", "finish", "type", "head", "anchor"} /\ at # "gone"
          /\ UNCHANGED result
      BY <1>4 DEF Begin, CatFileExists, CatFileType, RefIsHead, Go
    <2>2. at' = "finish" => resolved' # "yes"
      BY <1>4 DEF Begin, CatFileExists, CatFileType, RefIsHead, Go
    <2> QED BY <2>1, <2>2 DEF ReportInv, ValidIsVerified
  <1>5. CASE TakeAnchor \/ LsTree \/ CatFileBlob \/ Lstat \/ RevParse \/ HashObject
    <2>1. /\ at' \in Looking /\ at # "gone"
          /\ UNCHANGED result
      BY <1>5 DEF TakeAnchor, LsTree, CatFileBlob, Lstat, RevParse, HashObject, Learn, Judge,
           Settle, Go, Looking
    <2> QED BY <2>1 DEF ReportInv, ValidIsVerified, Looking
  <1>6. CASE Others \/ Gone \/ UNCHANGED verifyVars
    <2>1. UNCHANGED <<job, at, source, resolved, outcomes, result>>
      BY <1>6 DEF Others, Gone, verifyVars, jobVars
    <2> QED BY <2>1 DEF ReportInv, ValidIsVerified
  <1> QED BY <1>1, <1>2, <1>3, <1>4, <1>5, <1>6 DEF VerifyNext, VerifyStep

LEMMA AlwaysVerifyInv == VerifySpec => []VerifyInv
  BY InitVerifies, NextVerifies, PTL DEF VerifySpec

\* Each variable of a verification keeps its type, for any repository, jobs and
\* number of faults.
THEOREM VerifyTypeCorrect == VerifySpec => []VerifyTypeOK
  <1>1. VerifyInv => VerifyTypeOK
    BY DEF VerifyInv
  <1> QED BY <1>1, AlwaysVerifyInv, PTL

\* A verified anchor holds of the commit, a missing or short file is missing or
\* short there, and an unknown ref is one, whichever git commands fail.
THEOREM FindingsAlwaysTrue == VerifySpec => []FindingsAreTrue
  <1>1. VerifyInv => FindingsAreTrue
    BY DEF VerifyInv, ClaimsInv, Claim, UnknownInv, FindingsAreTrue
  <1> QED BY <1>1, AlwaysVerifyInv, PTL

\* While HEAD stays at the ref and git answers, each file that passes was as
\* committed, or absent, at some moment of the run.
THEOREM CleanMeansAgreed == VerifySpec => []CleanOnceAgreed
  <1>1. VerifyInv => CleanOnceAgreed
    BY DEF VerifyInv, ClaimsInv, Claim, CleanOnceAgreed
  <1> QED BY <1>1, AlwaysVerifyInv, PTL

\* A divergence is told only of a file that was changed since HEAD, of a HEAD
\* that moved, or of a symbolic link, whose file is hashed in its place.
THEOREM DivergedMeansDiffered == VerifySpec => []DivergedOnceDiffered
  <1>1. VerifyInv => DivergedOnceDiffered
    BY DEF VerifyInv, ClaimsInv, Claim, DivergedOnceDiffered
  <1> QED BY <1>1, AlwaysVerifyInv, PTL

\* A document that passes has had each of its anchors verified, whatever was not
\* answered on the way.
THEOREM ValidMeansVerified == VerifySpec => []ValidIsVerified
  <1>1. ReportInv => ValidIsVerified
    BY DEF ReportInv
  <1>2. VerifySpec => []ReportInv
    BY AlwaysVerifyInv, InitReports, NextReports, PTL DEF VerifySpec
  <1> QED BY <1>1, <1>2, PTL

=============================================================================
