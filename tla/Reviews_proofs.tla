--------------------------- MODULE Reviews_proofs ---------------------------
(***************************************************************************)
(* What holds of Reviews.tla for any number of runs, readers, documents    *)
(* and failures, whoever tampers with the stored files.                    *)
(***************************************************************************)
EXTENDS Reviews, Save_proofs, FiniteSetTheorems

\* The readers change nothing the runs see, so all that Save_proofs.tla proves
\* of the runs still holds.
THEOREM ReadersOnlyRead ==
    ASSUME Tampers = {}
    PROVE  ReadersSpec => Spec
  <1>1. ReadersInit => Init
    BY DEF ReadersInit
  <1>2. [ReadersNext]_<<vars, readerVars>> => [Next]_vars
    BY DEF ReadersNext, Tamper
  <1> QED BY <1>1, <1>2, PTL DEF ReadersSpec, Spec

-----------------------------------------------------------------------------
(* The store beside which readers work. *)

\* Whoever tampers, the store keeps its types; where nobody does, its promises.
StoreInv ==
    /\ TypeOK
    /\ TempComplete
    /\ Tampers = {} => FilesInv

LEMMA StoreStays ==
    ASSUME StoreInv, \/ [Next]_vars
                     \/ UNCHANGED vars
                     \/ Tamper
    PROVE  StoreInv'
  <1>1. CASE [Next]_vars \/ UNCHANGED vars
    BY <1>1, NextTypes, NextFiles DEF StoreInv
  <1>2. CASE Tamper
    <2>1. PICK path \in StorePaths, c \in Tampers : file' = [file EXCEPT ![path] = c]
      BY <1>2 DEF Tamper
    <2>2. c \in Contents \cup {Absent}
      BY ReviewsAssumption
    <2>3. /\ UNCHANGED <<temp, write, target, payload, faults>>
          /\ UNCHANGED dbVars /\ UNCHANGED saveVars
      BY <1>2 DEF Tamper
    <2>4. AtomicFileTypeOK' /\ TempComplete'
      BY <2>1, <2>2, <2>3 DEF StoreInv, TypeOK, AtomicFileTypeOK, TempComplete
    <2>5. DatabaseTypeOK(Rows)'
      BY <2>3 DEF StoreInv, TypeOK, DatabaseTypeOK, dbVars, dataVars
    <2>6. TypeOK'
      BY <2>3, <2>4, <2>5 DEF StoreInv, TypeOK, saveVars
    <2> QED BY <2>1, <2>4, <2>6 DEF StoreInv
  <1> QED BY <1>1, <1>2

\* Rows are only ever added, at the end.
LEMMA RowsStay ==
    ASSUME StoreInv, [Next]_vars
    PROVE  /\ Len(rows) <= Len(rows')
           /\ \A i \in DOMAIN rows : i \in DOMAIN rows' /\ rows'[i] = rows[i]
  <1>0. rows \in Seq(Rows)
    BY DEF StoreInv, TypeOK, DatabaseTypeOK
  <1>1. CASE UNCHANGED rows
    BY <1>0, <1>1
  <1>2. ASSUME NEW r \in Runs, rows' = Append(rows, RowOf(r))
        PROVE  /\ Len(rows) <= Len(rows')
               /\ \A i \in DOMAIN rows : i \in DOMAIN rows' /\ rows'[i] = rows[i]
    BY <1>0, <1>2, RowOfType DEF StoreInv
  <1> QED BY <1>1, <1>2, RowSteps

LEMMA RowsAreNumbered ==
    ASSUME StoreInv, NEW q
    PROVE  /\ Len(rows) \in Nat /\ DOMAIN rows = 1..Len(rows)
           /\ Matching(q) \subseteq 1..Len(rows)
           /\ IsFiniteSet(Matching(q))
           /\ Cardinality(Matching(q)) \in 0..Len(rows)
  <1>1. Len(rows) \in Nat /\ DOMAIN rows = 1..Len(rows)
    BY DEF StoreInv, TypeOK, DatabaseTypeOK
  <1>2. Matching(q) \subseteq 1..Len(rows)
    BY <1>1 DEF Matching
  <1>3. IsFiniteSet(1..Len(rows)) /\ Cardinality(1..Len(rows)) = Len(rows)
    <2>1. 1 \in Int /\ Len(rows) \in Int
      BY <1>1
    <2>2. /\ IsFiniteSet(1..Len(rows))
          /\ Cardinality(1..Len(rows)) = IF 1 > Len(rows) THEN 0 ELSE Len(rows) - 1 + 1
      BY <2>1, FS_Interval
    <2> QED BY <1>1, <2>2
  <1>4. /\ IsFiniteSet(Matching(q)) /\ Cardinality(Matching(q)) \in Nat
        /\ Cardinality(Matching(q)) <= Cardinality(1..Len(rows))
    BY <1>2, <1>3, FS_Subset, FS_CardinalityType
  <1> QED BY <1>1, <1>2, <1>3, <1>4

-----------------------------------------------------------------------------
(* What a reader gathers. *)

\* A reader's answer, as a record.
AnswerRecords ==
    [known : BOOLEAN, columns : BOOLEAN, listed : SUBSET Nat, total : Nat,
     unread : SUBSET Nat, shown : SUBSET [row : Nat, content : Contents]]

\* What p shows of a row is what the row promises.
IsPromised(p, s) ==
    Tampers = {} \/ asked[p].command = "collect" =>
        \E path \in FilesOf(rows[s.row]) : s.content = Promised(path)

\* An answer that is of rows that match, each shown or unread if it is listed.
Gathered(p, a) ==
    /\ a \in AnswerRecords
    /\ a.listed \subseteq Matching(asked[p])
    /\ a.total <= Len(rows)
    /\ a.unread \subseteq a.listed
    /\ \A s \in a.shown : s.row \in a.listed /\ IsPromised(p, s)

\* Whether p has asked for the rows.
Queried(p) ==
    /\ ask[p] = "rows"
    /\ stage[p] \notin {"resolve", "load", "exists", "open", "query"}

\* How far p has come says what is in its answer.
Progress(p, a) ==
    /\ ~Queried(p) => a.listed = {} /\ a.unread = {} /\ a.shown = {}
    /\ stage[p] = "enabled" => ask[p] = "enabled"
    /\ stage[p] # "gone" => code[p] = Running
    /\ asked[p].command \in {"reviews", "failed"}
       /\ (stage[p] \in {"answered", "content", "read"} \/ code[p] = ExitValid) =>
          Cardinality(a.listed) <= a.total

AnswersInv == \A p \in Readers : Gathered(p, answer[p]) /\ Progress(p, answer[p])

ReaderTypes ==
    /\ asked \in [Readers -> Asked]
    /\ stage \in [Readers -> {"resolve", "load", "exists", "open", "query", "count",
                             "answered", "enabled", "content", "read", "gone"}]
    /\ ask \in [Readers -> {"known", "enabled", "rows"}]
    /\ answer \in [Readers -> AnswerRecords]
    /\ since \in [Readers -> 0..Len(rows)]
    /\ code \in [Readers -> ExitCodes \cup {Running}]
    /\ slips \in 0..MaxSlips

ReadersInv == StoreInv /\ ReaderTypes /\ AnswersInv

LEMMA ReadersStart == ReadersInit => ReadersInv
  <1> SUFFICES ASSUME ReadersInit PROVE ReadersInv
    OBVIOUS
  <1>1. Init /\ StoreInv
    BY InitTypes, InitFiles DEF ReadersInit, StoreInv
  <1>2. rows = <<>> /\ Len(rows) = 0
    BY <1>1 DEF Init
  <1>3. NoAnswer \in AnswerRecords
    BY DEF NoAnswer, AnswerRecords
  <1>4. /\ NoAnswer.listed = {} /\ NoAnswer.total = 0
        /\ NoAnswer.unread = {} /\ NoAnswer.shown = {}
    BY DEF NoAnswer
  <1>5. Running \in ExitCodes \cup {Running} /\ MaxSlips \in Nat
    BY ReviewsAssumption
  <1>6. ReaderTypes
    BY <1>2, <1>3, <1>5 DEF ReadersInit, ReaderTypes
  <1>7. ASSUME NEW p \in Readers PROVE Gathered(p, answer[p]) /\ Progress(p, answer[p])
    <2>1. /\ answer[p] = NoAnswer /\ code[p] = Running /\ stage[p] = "resolve"
      BY DEF ReadersInit
    <2> HIDE DEF NoAnswer
    <2>2. Gathered(p, NoAnswer)
      BY <1>2, <1>3, <1>4 DEF Gathered
    <2>3. Progress(p, NoAnswer)
      BY <1>4, <2>1 DEF Progress, Running, ExitValid
    <2> QED BY <2>1, <2>2, <2>3
  <1> QED BY <1>1, <1>6, <1>7 DEF ReadersInv, AnswersInv

\* What has been gathered stays true while rows are added.
LEMMA GatheredStays ==
    ASSUME StoreInv, NEW p, NEW a, Gathered(p, a), UNCHANGED asked,
           Len(rows) <= Len(rows'), Len(rows') \in Nat,
           \A i \in DOMAIN rows : i \in DOMAIN rows' /\ rows'[i] = rows[i]
    PROVE  /\ a \in AnswerRecords
           /\ a.listed \subseteq Matching(asked[p])'
           /\ a.total <= Len(rows')
           /\ a.unread \subseteq a.listed
           /\ \A s \in a.shown :
                 /\ s.row \in a.listed
                 /\ Tampers = {} \/ asked'[p].command = "collect" =>
                       \E path \in FilesOf(rows'[s.row]) : s.content = Promised(path)
  <1>1. Matching(asked[p]) \subseteq Matching(asked[p])'
    BY DEF Matching, Matches
  <1>2. Matching(asked[p]) \subseteq DOMAIN rows
    BY DEF Matching
  <1>3. \A s \in a.shown : rows'[s.row] = rows[s.row]
    BY <1>2 DEF Gathered
  <1>4. a.total \in Nat /\ Len(rows) \in Nat
    BY RowsAreNumbered DEF Gathered, AnswerRecords
  <1> QED BY <1>1, <1>3, <1>4 DEF Gathered, IsPromised

\* A step of the runs, or of whoever tampers, leaves the readers their answers.
LEMMA RunsKeepReaders ==
    ASSUME ReadersInv, [Next]_vars \/ Tamper, UNCHANGED readerVars
    PROVE  ReadersInv'
  <1>1. StoreInv'
    BY StoreStays DEF ReadersInv
  <1>2. /\ Len(rows) <= Len(rows')
        /\ \A i \in DOMAIN rows : i \in DOMAIN rows' /\ rows'[i] = rows[i]
    <2>1. CASE Tamper
      BY <2>1, RowsAreNumbered DEF Tamper, dbVars, dataVars, ReadersInv
    <2> QED BY <2>1, RowsStay DEF ReadersInv
  <1>3. Len(rows) \in Nat /\ Len(rows') \in Nat
    BY <1>1, RowsAreNumbered DEF ReadersInv, StoreInv, TypeOK, DatabaseTypeOK
  <1>4. ReaderTypes'
    BY <1>2, <1>3 DEF ReadersInv, ReaderTypes, readerVars
  <1>5. ASSUME NEW p \in Readers PROVE Gathered(p, answer[p])' /\ Progress(p, answer[p])'
    <2>1. UNCHANGED <<asked, stage, ask, answer, code>>
      BY DEF readerVars
    <2>2. Gathered(p, answer[p]) /\ Progress(p, answer[p]) /\ StoreInv
      BY DEF ReadersInv, AnswersInv
    <2>3. Gathered(p, answer[p])'
      <3> DEFINE a == answer[p]
      <3>1. answer'[p] = a
        BY <2>1
      <3>2. Gathered(p, a) /\ UNCHANGED asked
        BY <2>1, <2>2
      <3> HIDE DEF a
      <3>3. /\ a \in AnswerRecords
            /\ a.listed \subseteq Matching(asked[p])'
            /\ a.total <= Len(rows')
            /\ a.unread \subseteq a.listed
            /\ \A s \in a.shown :
                  /\ s.row \in a.listed
                  /\ Tampers = {} \/ asked'[p].command = "collect" =>
                        \E path \in FilesOf(rows'[s.row]) : s.content = Promised(path)
        BY <1>2, <1>3, <2>2, <3>2, GatheredStays
      <3> QED BY <3>1, <3>3 DEF Gathered, IsPromised
    <2>4. Progress(p, answer[p])'
      BY <2>1, <2>2 DEF Progress, Queried
    <2> QED BY <2>3, <2>4
  <1> QED BY <1>1, <1>4, <1>5 DEF ReadersInv, AnswersInv

\* A step of one reader p keeps what is kept of the others, if p's own answer
\* is gathered and fits how far p has come.
LEMMA OthersUntouched ==
    ASSUME ReadersInv, UNCHANGED vars, UNCHANGED asked, NEW p \in Readers, ReaderTypes',
           Gathered(p, answer'[p]), Progress(p, answer[p])',
           \A q \in Readers \ {p} : UNCHANGED <<stage[q], ask[q], answer[q], code[q]>>
    PROVE  ReadersInv'
  <1>1. StoreInv'
    BY StoreStays DEF ReadersInv
  <1>2. UNCHANGED rows
    BY DEF vars, dbVars, dataVars
  <1>3. ASSUME NEW q \in Readers PROVE Gathered(q, answer[q])' /\ Progress(q, answer[q])'
    <2>1. CASE q = p
      BY <1>2, <2>1 DEF Gathered, IsPromised, Matching, Matches
    <2>2. CASE q # p
      <3>1. UNCHANGED <<stage[q], ask[q], answer[q], code[q]>>
        BY <2>2
      <3>2. Gathered(q, answer[q]) /\ Progress(q, answer[q])
        BY DEF ReadersInv, AnswersInv
      <3>3. Gathered(q, answer[q])'
        BY <1>2, <3>1, <3>2 DEF Gathered, IsPromised, Matching, Matches
      <3>4. Progress(q, answer[q])'
        BY <3>1, <3>2 DEF Progress, Queried
      <3> QED BY <3>3, <3>4
    <2> QED BY <2>1, <2>2
  <1> QED BY <1>1, <1>3 DEF ReadersInv, AnswersInv

\* Where a reader may go from where it stands.
Goes(p) ==
    /\ stage[p] # "gone"
    /\ \E to \in {"load", "exists", "open", "query", "count", "answered",
                  "enabled", "content", "read", "gone"} :
          stage' = [stage EXCEPT ![p] = to]

\* An exit code is set at the end only.
Ends(p) ==
    \/ UNCHANGED code
    \/ /\ stage' = [stage EXCEPT ![p] = "gone"]
       /\ \E c \in {ExitValid, ExitUsage, ExitTool} : code' = [code EXCEPT ![p] = c]

Asks(p) ==
    \/ UNCHANGED ask
    \/ \E q \in {"known", "enabled", "rows"} : ask' = [ask EXCEPT ![p] = q]

\* A step of a reader moves that reader on, and no other.
LEMMA ReaderStepFrame ==
    ASSUME ReaderTypes, NEW p \in Readers, ReaderStep(p)
    PROVE  /\ UNCHANGED asked
           /\ Goes(p) /\ Ends(p) /\ Asks(p)
           /\ Slip!Works \/ Slip!Fails
           /\ UNCHANGED since \/ since' = [since EXCEPT ![p] = Len(rows)]
  <1> USE DEF Proceed, Finish, LoadsConfig, Slip!Works, Slip!Fails, Goes, Ends, Asks
  <1>1. CASE Resolve(p)
    <2>1. ask[p] \in {"known", "enabled", "rows"}
      BY DEF ReaderTypes
    <2>2. Asks(p)
      <3>1. CASE asked[p].command = "list"
        BY <1>1, <3>1 DEF Resolve
      <3>2. CASE asked[p].command # "list"
        BY <1>1, <2>1, <3>2 DEF Resolve
      <3> QED BY <3>1, <3>2
    <2>3. UNCHANGED asked /\ since' = [since EXCEPT ![p] = Len(rows)]
      BY <1>1 DEF Resolve
    <2>4. Goes(p) /\ Ends(p) /\ (Slip!Works \/ Slip!Fails)
      BY <1>1 DEF Resolve
    <2> QED BY <2>2, <2>3, <2>4
  <1>2. CASE Load(p) \/ Exists(p) \/ OpenReadOnly(p)
    BY <1>2 DEF Load, Exists, OpenReadOnly
  <1>3. CASE Query(p)
    BY <1>3 DEF Query
  <1>4. CASE Count(p) \/ StoreEnabled(p) \/ ReviewPathOf(p) \/ Deliver(p)
    BY <1>4 DEF Count, StoreEnabled, ReviewPathOf, Deliver
  <1>5. CASE NextQuestion(p)
    BY <1>5 DEF NextQuestion, ReaderTypes
  <1>6. CASE ReadContent(p)
    BY <1>6 DEF ReadContent
  <1> QED BY <1>1, <1>2, <1>3, <1>4, <1>5, <1>6 DEF ReaderStep

\* The types of everything but the answer follow.
LEMMA ReaderStepTypes ==
    ASSUME ReadersInv, UNCHANGED vars, NEW p \in Readers, ReaderStep(p),
           answer' \in [Readers -> AnswerRecords]
    PROVE  ReaderTypes'
  <1>1. /\ UNCHANGED asked
        /\ Goes(p) /\ Ends(p) /\ Asks(p)
        /\ Slip!Works \/ Slip!Fails
        /\ UNCHANGED since \/ since' = [since EXCEPT ![p] = Len(rows)]
    BY ReaderStepFrame DEF ReadersInv
  <1>2. UNCHANGED rows /\ Len(rows) \in Nat
    BY RowsAreNumbered DEF vars, dbVars, dataVars, ReadersInv
  <1>3. /\ asked' \in [Readers -> Asked]
        /\ since' \in [Readers -> 0..Len(rows')]
    BY <1>1, <1>2 DEF ReadersInv, ReaderTypes
  <1>4. stage' \in [Readers -> {"resolve", "load", "exists", "open", "query", "count",
                                "answered", "enabled", "content", "read", "gone"}]
    BY <1>1 DEF ReadersInv, ReaderTypes, Goes
  <1>5. ask' \in [Readers -> {"known", "enabled", "rows"}]
    BY <1>1 DEF ReadersInv, ReaderTypes, Asks
  <1>6. code' \in [Readers -> ExitCodes \cup {Running}]
    BY <1>1 DEF ReadersInv, ReaderTypes, Ends, ExitCodes
  <1>7. slips' \in 0..MaxSlips
    BY <1>1, ReviewsAssumption DEF ReadersInv, ReaderTypes, Slip!Works, Slip!Fails
  <1> QED BY <1>3, <1>4, <1>5, <1>6, <1>7 DEF ReaderTypes

\* A reader's answer only changes by what the step says; where it does not, how
\* far the reader has come still fits it.
LEMMA QuietSteps ==
    ASSUME ReadersInv, UNCHANGED vars, NEW p \in Readers, UNCHANGED answer,
           ReaderStep(p), ~Count(p), ~ReadContent(p),
           ~(Query(p) /\ ask[p] = "rows" /\ stage'[p] # "gone")
    PROVE  Progress(p, answer[p])'
  <1> USE DEF Proceed, Finish, LoadsConfig
  <1>0. /\ Progress(p, answer[p]) /\ answer'[p] = answer[p] /\ asked' = asked
        /\ p \in DOMAIN stage /\ p \in DOMAIN ask /\ p \in DOMAIN code
        /\ answer[p].total \in Nat
        /\ ask[p] \in {"known", "enabled", "rows"}
    BY ReaderStepFrame DEF ReadersInv, AnswersInv, ReaderTypes, AnswerRecords
  <1>1. Cardinality({}) = 0
    BY FS_EmptySet
  <1>2. ~Queried(p) => Cardinality(answer[p].listed) <= answer[p].total
    BY <1>0, <1>1 DEF Progress
  <1>3. stage[p] # "gone" /\ code[p] = Running
    BY <1>0, ReaderStepFrame DEF ReadersInv, Goes, Progress
  <1> USE DEF ExitValid, ExitUsage, ExitTool, Running
  <1>4. CASE Resolve(p)
    <2>1. /\ stage[p] = "resolve" /\ stage'[p] \in {"load", "gone"}
          /\ stage'[p] # "gone" => code'[p] = Running
          /\ code'[p] # ExitValid
      BY <1>0, <1>3, <1>4 DEF Resolve
    <2> QED BY <1>0, <2>1 DEF Progress, Queried
  <1>5. CASE Load(p)
    <2>1. /\ stage[p] = "load" /\ stage'[p] \in {"exists", "gone"} /\ ask' = ask
          /\ stage'[p] # "gone" => code'[p] = Running
          /\ code'[p] # ExitValid
      BY <1>0, <1>3, <1>5 DEF Load
    <2> QED BY <1>0, <2>1 DEF Progress, Queried
  <1>6. CASE Exists(p) \/ OpenReadOnly(p)
    <2>1. /\ stage[p] \in {"exists", "open"} /\ stage'[p] \in {"open", "query", "answered", "gone"}
          /\ ask' = ask
          /\ stage'[p] # "gone" => code'[p] = Running
          /\ code'[p] # ExitValid
      BY <1>0, <1>3, <1>6 DEF Exists, OpenReadOnly
    <2> QED BY <1>0, <1>2, <2>1 DEF Progress, Queried
  <1>7. CASE Query(p)
    <2>1. /\ stage[p] = "query" /\ stage'[p] \in {"answered", "gone", "count"}
          /\ ask' = ask
          /\ stage'[p] # "gone" => code'[p] = Running
          /\ code'[p] # ExitValid
          /\ stage'[p] = "gone" \/ ask[p] # "rows"
      BY <1>0, <1>3, <1>7 DEF Query
    <2> QED BY <1>0, <1>2, <2>1 DEF Progress, Queried
  <1>8. CASE NextQuestion(p)
    <2>1. /\ stage[p] = "answered" /\ code' = code
          /\ ask[p] = "rows" => ask'[p] = "rows" /\ stage'[p] = "content"
          /\ ask[p] # "rows" => \/ ask'[p] = "enabled" /\ stage'[p] = "enabled"
                                \/ ask'[p] = "rows" /\ stage'[p] = "load"
      BY <1>0, <1>8 DEF NextQuestion
    <2> QED BY <1>0, <1>2, <1>3, <2>1 DEF Progress, Queried
  <1>9. CASE StoreEnabled(p)
    <2>1. /\ stage[p] = "enabled" /\ stage'[p] \in {"answered", "gone"} /\ ask' = ask
          /\ stage'[p] # "gone" => code'[p] = Running
          /\ code'[p] # ExitValid
      BY <1>0, <1>3, <1>9 DEF StoreEnabled
    <2>2. Queried(p)' = Queried(p)
      BY <2>1 DEF Queried
    <2> QED BY <1>0, <1>2, <2>1, <2>2 DEF Progress, Queried
  <1>10. CASE ReviewPathOf(p) \/ Deliver(p)
    <2>1. /\ stage[p] = "content" /\ stage'[p] \in {"read", "gone"} /\ ask' = ask
          /\ stage'[p] # "gone" => code'[p] = Running
      BY <1>0, <1>3, <1>10 DEF ReviewPathOf, Deliver
    <2>2. Queried(p)' = Queried(p)
      BY <2>1 DEF Queried
    <2> QED BY <1>0, <2>1, <2>2 DEF Progress
  <1> QED BY <1>4, <1>5, <1>6, <1>7, <1>8, <1>9, <1>10 DEF ReaderStep

\* A new answer of p that is gathered, and fits how far p has come.
LEMMA NewAnswer ==
    ASSUME ReadersInv, UNCHANGED vars, NEW p \in Readers, ReaderStep(p),
           NEW a, answer' = [answer EXCEPT ![p] = a], Gathered(p, a), Progress(p, answer[p])'
    PROVE  ReadersInv'
  <1>1. answer' \in [Readers -> AnswerRecords] /\ answer'[p] = a
    BY DEF ReadersInv, ReaderTypes, Gathered
  <1>2. /\ UNCHANGED asked
        /\ Goes(p) /\ Ends(p) /\ Asks(p)
    BY ReaderStepFrame DEF ReadersInv
  <1>3. ReaderTypes'
    BY <1>1, ReaderStepTypes
  <1>4. \A q \in Readers \ {p} : UNCHANGED <<stage[q], ask[q], answer[q], code[q]>>
    BY <1>2 DEF Goes, Ends, Asks, ReadersInv, ReaderTypes
  <1> QED BY <1>1, <1>2, <1>3, <1>4, OthersUntouched

LEMMA OpenKeepsReaders ==
    ASSUME ReadersInv, UNCHANGED vars, NEW p \in Readers, OpenReadOnly(p),
           answer' = [answer EXCEPT ![p].columns = db.version >= 2],
           stage' = [stage EXCEPT ![p] = "query"], stage[p] = "open", UNCHANGED <<asked, ask, code>>
    PROVE  ReadersInv'
  <1> DEFINE a == [answer[p] EXCEPT !.columns = db.version >= 2]
  <1>1. /\ Gathered(p, answer[p]) /\ Progress(p, answer[p])
        /\ answer \in [Readers -> AnswerRecords] /\ p \in DOMAIN stage
        /\ code[p] = Running
    BY DEF ReadersInv, AnswersInv, ReaderTypes, Progress
  <1>2. (db.version >= 2) \in BOOLEAN
    BY DEF ReadersInv, StoreInv, TypeOK, DatabaseTypeOK, Databases
  <1>3. /\ a \in AnswerRecords /\ a.listed = answer[p].listed /\ a.shown = answer[p].shown
        /\ a.unread = answer[p].unread /\ a.total = answer[p].total
    BY <1>1, <1>2 DEF AnswerRecords
  <1>4. answer' = [answer EXCEPT ![p] = a]
    BY <1>1
  <1>5. answer'[p] = a
    BY <1>1
  <1> HIDE DEF a
  <1>6. Gathered(p, a)
    BY <1>1, <1>3 DEF Gathered
  <1>7. Progress(p, answer[p])'
    BY <1>1, <1>3, <1>5 DEF Progress, Queried, Running, ExitValid
  <1> QED BY <1>4, <1>6, <1>7, NewAnswer DEF ReaderStep

LEMMA KnownKeepsReaders ==
    ASSUME ReadersInv, UNCHANGED vars, NEW p \in Readers, Query(p), NEW b \in BOOLEAN,
           answer' = [answer EXCEPT ![p].known = b], ask[p] = "known", UNCHANGED ask,
           stage' = [stage EXCEPT ![p] = "answered"], UNCHANGED <<asked, code>>
    PROVE  ReadersInv'
  <1> DEFINE a == [answer[p] EXCEPT !.known = b]
  <1>1. /\ Gathered(p, answer[p]) /\ Progress(p, answer[p])
        /\ answer \in [Readers -> AnswerRecords] /\ p \in DOMAIN stage
    BY DEF ReadersInv, AnswersInv, ReaderTypes
  <1>2. /\ a \in AnswerRecords /\ a.listed = answer[p].listed /\ a.shown = answer[p].shown
        /\ a.unread = answer[p].unread /\ a.total = answer[p].total /\ a.total \in Nat
    BY <1>1 DEF AnswerRecords
  <1>3. answer' = [answer EXCEPT ![p] = a] /\ answer'[p] = a
    BY <1>1
  <1> HIDE DEF a
  <1>4. Gathered(p, a)
    BY <1>1, <1>2 DEF Gathered
  <1>5. stage[p] = "query"
    <2>1. \/ Proceed(p, "query", "answered") \/ Proceed(p, "query", "count")
          \/ Finish(p, "query", ExitTool)
      BY DEF Query
    <2> QED BY <2>1 DEF Proceed, Finish
  <1>6. code[p] = Running /\ ~Queried(p)
    BY <1>1, <1>5 DEF Progress, Queried
  <1>7. Progress(p, answer[p])'
    <2>1. a.listed = {} /\ a.unread = {} /\ a.shown = {} /\ Cardinality({}) = 0
      BY <1>1, <1>2, <1>6, FS_EmptySet DEF Progress
    <2>2. Cardinality(answer'[p].listed) <= answer'[p].total
      <3>1. Cardinality(a.listed) = 0 /\ a.total \in Nat
        BY <1>2, <2>1
      <3>2. Cardinality(a.listed) <= a.total
        BY <3>1
      <3> QED BY <1>3, <3>2
    <2>3. stage'[p] = "answered" /\ code'[p] = Running
      BY <1>1, <1>6
    <2> QED BY <1>3, <2>1, <2>2, <2>3 DEF Progress
  <1> QED BY <1>3, <1>4, <1>7, NewAnswer DEF ReaderStep

\* Listing the rows is the first the answer holds of them.
LEMMA ListKeepsReaders ==
    ASSUME ReadersInv, UNCHANGED vars, NEW p \in Readers, Query(p),
           NEW s \in SUBSET Matching(asked[p]),
           answer' = [answer EXCEPT ![p].listed = s], ask[p] = "rows", UNCHANGED ask,
           stage[p] = "query",
           stage' = [stage EXCEPT ![p] = IF asked[p].command \in {"reviews", "failed"}
                                         THEN "count" ELSE "answered"],
           UNCHANGED <<asked, code>>
    PROVE  ReadersInv'
  <1> DEFINE a == [answer[p] EXCEPT !.listed = s]
  <1>1. /\ Gathered(p, answer[p]) /\ Progress(p, answer[p])
        /\ answer \in [Readers -> AnswerRecords] /\ p \in DOMAIN stage
        /\ answer[p] \in AnswerRecords
    BY DEF ReadersInv, AnswersInv, ReaderTypes
  <1>2. s \in SUBSET Nat
    BY RowsAreNumbered DEF ReadersInv
  <1>3. /\ a \in AnswerRecords /\ a.listed = s /\ a.shown = answer[p].shown
        /\ a.unread = answer[p].unread /\ a.total = answer[p].total
    BY <1>1, <1>2 DEF AnswerRecords
  <1>4. answer' = [answer EXCEPT ![p] = a] /\ answer'[p] = a
    BY <1>1
  <1> HIDE DEF a
  <1>5. code[p] = Running /\ a.unread = {} /\ a.shown = {}
    BY <1>1, <1>3 DEF Progress, Queried
  <1>6. Gathered(p, a)
    BY <1>1, <1>3, <1>5 DEF Gathered
  <1>7. Progress(p, answer[p])'
    <2>1. code'[p] = Running /\ ask'[p] = "rows"
      BY <1>5
    <2>2. CASE asked[p].command \in {"reviews", "failed"}
      <3>1. stage'[p] = "count"
        BY <1>1, <2>2
      <3> QED BY <2>1, <3>1 DEF Progress, Queried, Running, ExitValid
    <2>3. CASE asked[p].command \notin {"reviews", "failed"}
      <3>1. stage'[p] = "answered"
        BY <1>1, <2>3
      <3> QED BY <2>1, <2>3, <3>1 DEF Progress, Queried
    <2> QED BY <2>2, <2>3
  <1> QED BY <1>4, <1>6, <1>7, NewAnswer DEF ReaderStep

\* The queries list rows of the log that match.
LEMMA QueriesListRows ==
    ASSUME NEW q
    PROVE  /\ \A n : \A s \in Newest(n, Matching(q)) : s \in SUBSET Matching(q)
           /\ \A s \in EarliestOfDigests(Matching(q)) : s \in SUBSET Matching(q)
  BY DEF Newest, EarliestOfDigests

LEMMA QueryKeepsReaders ==
    ASSUME ReadersInv, UNCHANGED vars, NEW p \in Readers, Query(p)
    PROVE  ReadersInv' \/ (UNCHANGED answer /\ Finish(p, "query", ExitTool))
  <1>1. CASE /\ ask[p] = "known" /\ Proceed(p, "query", "answered") /\ UNCHANGED code
             /\ answer' = [answer EXCEPT ![p].known = \E i \in DOMAIN rows : rows[i].repo = asked[p].repo]
    <2>1. (\E i \in DOMAIN rows : rows[i].repo = asked[p].repo) \in BOOLEAN
      OBVIOUS
    <2> QED BY <1>1, <2>1, KnownKeepsReaders DEF Query, Proceed
  <1>2. CASE /\ ask[p] = "rows" /\ UNCHANGED code
             /\ Proceed(p, "query", IF asked[p].command \in {"reviews", "failed"} THEN "count" ELSE "answered")
             /\ \E s \in IF asked[p].command = "collect" THEN EarliestOfDigests(Matching(asked[p]))
                         ELSE Newest(asked[p].limit, Matching(asked[p])) :
                   answer' = [answer EXCEPT ![p].listed = s]
    <2>1. PICK s \in SUBSET Matching(asked[p]) : answer' = [answer EXCEPT ![p].listed = s]
      BY <1>2, QueriesListRows
    <2> QED BY <1>2, <2>1, ListKeepsReaders DEF Query, Proceed
  <1>3. CASE UNCHANGED answer /\ Finish(p, "query", ExitTool)
    BY <1>3
  <1> QED BY <1>1, <1>2, <1>3 DEF Query

\* The rows have only become more since they were listed.
LEMMA CountKeepsReaders ==
    ASSUME ReadersInv, UNCHANGED vars, NEW p \in Readers, Count(p),
           answer' = [answer EXCEPT ![p].total = Cardinality(Matching(asked[p]))],
           stage' = [stage EXCEPT ![p] = "answered"], stage[p] = "count",
           UNCHANGED <<asked, ask, code>>
    PROVE  ReadersInv'
  <1> DEFINE n == Cardinality(Matching(asked[p]))
             a == [answer[p] EXCEPT !.total = n]
  <1>1. /\ Gathered(p, answer[p]) /\ Progress(p, answer[p])
        /\ answer \in [Readers -> AnswerRecords] /\ p \in DOMAIN stage
        /\ answer[p] \in AnswerRecords
    BY DEF ReadersInv, AnswersInv, ReaderTypes
  <1>2. n \in 0..Len(rows) /\ Len(rows) \in Nat /\ IsFiniteSet(Matching(asked[p]))
    BY RowsAreNumbered DEF ReadersInv
  <1> HIDE DEF n
  <1>3. /\ a \in AnswerRecords /\ a.listed = answer[p].listed /\ a.shown = answer[p].shown
        /\ a.unread = answer[p].unread /\ a.total = n
    BY <1>1, <1>2 DEF AnswerRecords
  <1>4. answer' = [answer EXCEPT ![p] = a] /\ answer'[p] = a
    BY <1>1 DEF n
  <1> HIDE DEF a
  <1>5. Gathered(p, a)
    BY <1>1, <1>2, <1>3 DEF Gathered
  <1>6. Cardinality(a.listed) <= n
    <2>1. a.listed \subseteq Matching(asked[p])
      BY <1>1, <1>3 DEF Gathered
    <2>2. Cardinality(a.listed) <= Cardinality(Matching(asked[p]))
      BY <1>2, <2>1, FS_Subset
    <2> QED BY <2>2 DEF n
  <1>7. Progress(p, answer[p])'
    <2>1. code'[p] = Running /\ stage'[p] = "answered" /\ ask'[p] = ask[p]
      BY <1>1 DEF Progress
    <2>2. Cardinality(answer'[p].listed) <= answer'[p].total
      BY <1>3, <1>4, <1>6
    <2>3. ~Queried(p)' => a.listed = {} /\ a.unread = {} /\ a.shown = {}
      BY <1>1, <1>3, <2>1 DEF Progress, Queried
    <2> QED BY <1>4, <2>1, <2>2, <2>3 DEF Progress
  <1> QED BY <1>4, <1>5, <1>7, NewAnswer DEF ReaderStep

\* The bytes a reader accepts are what the row promises: where nobody tampers
\* because nothing else is ever in the store, and for collect-reviews because
\* it checks the digest.
LEMMA AcceptedIsPromised ==
    ASSUME ReadersInv, NEW p \in Readers, NEW i \in answer[p].listed, NEW path \in StorePaths,
           path \in FilesOf(rows[i]), file[path] # Absent, Accepts(p, file[path], rows[i])
    PROVE  /\ file[path] \in Contents
           /\ Tampers = {} \/ asked[p].command = "collect" => file[path] = Promised(path)
  <1>1. file[path] \in Contents
    BY ConstantTypes DEF ReadersInv, StoreInv, TypeOK, AtomicFileTypeOK
  <1>2. ASSUME Tampers = {} PROVE file[path] = Promised(path)
    BY <1>2 DEF ReadersInv, StoreInv, FilesInv, NoTornFile
  <1>3. ASSUME asked[p].command = "collect" PROVE file[path] = Promised(path)
    <2>1. Matches(asked[p], rows[i])
      BY DEF ReadersInv, AnswersInv, Gathered, Matching
    <2>2. rows[i].exit = ExitValid
      BY <1>3, <2>1 DEF Matches
    <2>3. path = ReviewPath(rows[i].repo, rows[i].ref, rows[i].digest)
      BY <2>2 DEF FilesOf, ExitValid, ExitInvalid, ExitPrecondition
    <2>4. Promised(path) = rows[i].digest.sha256
      BY <2>3 DEF Promised, ReviewPath
    <2>5. Digest(file[path]) = rows[i].digest
      BY <1>3 DEF Accepts
    <2>6. rows[i].digest.sha256 = file[path]
      BY <2>5 DEF Digest
    <2> QED BY <2>4, <2>6
  <1> QED BY <1>1, <1>2, <1>3

LEMMA ReadKeepsReaders ==
    ASSUME ReadersInv, UNCHANGED vars, NEW p \in Readers, ReadContent(p)
    PROVE  ReadersInv'
  <1>1. /\ Gathered(p, answer[p]) /\ Progress(p, answer[p])
        /\ answer \in [Readers -> AnswerRecords] /\ p \in DOMAIN stage
        /\ answer[p] \in AnswerRecords
    BY DEF ReadersInv, AnswersInv, ReaderTypes
  <1>2. /\ UNCHANGED <<asked, ask, code>>
        /\ stage[p] \in {"read", "content"}
        /\ stage' = [stage EXCEPT ![p] = "content"]
    BY DEF ReadContent, Proceed
  <1>3. PICK i \in Pending(p), path \in StorePaths :
           /\ path \in FilesOf(rows[i])
           /\ \/ answer' = [answer EXCEPT ![p].unread = @ \cup {i}]
              \/ /\ file[path] # Absent /\ Accepts(p, file[path], rows[i])
                 /\ answer' = [answer EXCEPT ![p].shown =
                                  @ \cup {[row |-> i, content |-> file[path]]}]
    BY DEF ReadContent
  <1>4. i \in answer[p].listed /\ i \in Nat
    BY <1>1 DEF Pending, AnswerRecords
  <1>5. ASSUME NEW a, answer'[p] = a, a.listed = answer[p].listed, a.total = answer[p].total
        PROVE  Progress(p, answer[p])'
    <2>1. code'[p] = Running /\ stage'[p] = "content" /\ ask'[p] = ask[p] /\ asked' = asked
      BY <1>1, <1>2 DEF Progress
    <2>2. Queried(p)
      BY <1>1, <1>2, <1>4 DEF Progress
    <2>3. Queried(p)'
      BY <2>1, <2>2 DEF Queried
    <2>4. asked[p].command \in {"reviews", "failed"} =>
             Cardinality(answer[p].listed) <= answer[p].total
      BY <1>1, <1>2 DEF Progress
    <2> QED BY <1>5, <2>1, <2>3, <2>4 DEF Progress
  <1>6. CASE answer' = [answer EXCEPT ![p].unread = @ \cup {i}]
    <2> DEFINE a == [answer[p] EXCEPT !.unread = @ \cup {i}]
    <2>1. /\ a \in AnswerRecords /\ a.listed = answer[p].listed /\ a.shown = answer[p].shown
          /\ a.unread = answer[p].unread \cup {i} /\ a.total = answer[p].total
      BY <1>1, <1>4 DEF AnswerRecords
    <2>2. answer' = [answer EXCEPT ![p] = a] /\ answer'[p] = a
      BY <1>1, <1>6
    <2> HIDE DEF a
    <2>3. Gathered(p, a)
      BY <1>1, <1>4, <2>1 DEF Gathered
    <2>4. Progress(p, answer[p])'
      BY <1>5, <2>1, <2>2
    <2> QED BY <2>2, <2>3, <2>4, NewAnswer DEF ReaderStep
  <1>7. CASE /\ file[path] # Absent /\ Accepts(p, file[path], rows[i])
             /\ answer' = [answer EXCEPT ![p].shown =
                              @ \cup {[row |-> i, content |-> file[path]]}]
    <2> DEFINE new == [row |-> i, content |-> file[path]]
               a == [answer[p] EXCEPT !.shown = @ \cup {new}]
    <2>1. /\ file[path] \in Contents
          /\ Tampers = {} \/ asked[p].command = "collect" => file[path] = Promised(path)
      BY <1>3, <1>4, <1>7, AcceptedIsPromised
    <2>2. new \in [row : Nat, content : Contents] /\ new.row = i /\ new.content = file[path]
      BY <1>4, <2>1
    <2>3. answer' = [answer EXCEPT ![p].shown = @ \cup {new}]
      BY <1>7
    <2> HIDE DEF new
    <2>4. /\ a \in AnswerRecords /\ a.listed = answer[p].listed
          /\ a.shown = answer[p].shown \cup {new}
          /\ a.unread = answer[p].unread /\ a.total = answer[p].total
      BY <1>1, <2>2 DEF AnswerRecords
    <2>5. answer' = [answer EXCEPT ![p] = a] /\ answer'[p] = a
      BY <1>1, <2>3
    <2> HIDE DEF a
    <2>6. IsPromised(p, new)
      BY <1>3, <2>1, <2>2 DEF IsPromised
    <2>7. Gathered(p, a)
      BY <1>1, <1>4, <2>2, <2>4, <2>6 DEF Gathered
    <2>8. Progress(p, answer[p])'
      BY <1>5, <2>4, <2>5
    <2> QED BY <2>5, <2>7, <2>8, NewAnswer DEF ReaderStep
  <1> QED BY <1>3, <1>6, <1>7

LEMMA ReaderStepKeeps ==
    ASSUME ReadersInv, UNCHANGED vars, NEW p \in Readers, ReaderStep(p)
    PROVE  ReadersInv'
  <1>1. ASSUME UNCHANGED answer, ~Count(p), ~ReadContent(p),
               ~(Query(p) /\ ask[p] = "rows" /\ stage'[p] # "gone")
        PROVE  ReadersInv'
    <2>1. Gathered(p, answer[p]) /\ answer \in [Readers -> AnswerRecords]
      BY DEF ReadersInv, AnswersInv, ReaderTypes
    <2>2. Progress(p, answer[p])'
      BY <1>1, QuietSteps
    <2>3. answer' = [answer EXCEPT ![p] = answer[p]]
      BY <1>1, <2>1
    <2> QED BY <2>1, <2>2, <2>3, NewAnswer
  <1>2. CASE OpenReadOnly(p)
    <2>1. CASE UNCHANGED answer
      <3>1. ~Count(p) /\ ~ReadContent(p) /\ ~Query(p)
        BY <1>2 DEF OpenReadOnly, Count, ReadContent, Query, Proceed, Finish
      <3> QED BY <1>1, <2>1, <3>1
    <2>2. CASE /\ Proceed(p, "open", "query") /\ UNCHANGED code
               /\ answer' = [answer EXCEPT ![p].columns = db.version >= 2]
      BY <1>2, <2>2, OpenKeepsReaders DEF OpenReadOnly, Proceed
    <2> QED BY <1>2, <2>1, <2>2 DEF OpenReadOnly
  <1>3. CASE Query(p)
    <2>1. CASE UNCHANGED answer /\ Finish(p, "query", ExitTool)
      <3>1. stage[p] = "query" /\ p \in DOMAIN stage /\ stage'[p] = "gone"
        BY <2>1 DEF Finish, Proceed, ReadersInv, ReaderTypes
      <3>2. ~Count(p) /\ ~ReadContent(p)
        BY <3>1 DEF Count, ReadContent, Proceed, Finish
      <3> QED BY <1>1, <2>1, <3>1, <3>2
    <2> QED BY <1>3, <2>1, QueryKeepsReaders
  <1>4. CASE Count(p)
    <2>1. CASE Proceed(p, "count", "answered") /\ UNCHANGED code
               /\ answer' = [answer EXCEPT ![p].total = Cardinality(Matching(asked[p]))]
      BY <1>4, <2>1, CountKeepsReaders DEF Count, Proceed
    <2>2. CASE Finish(p, "count", ExitTool) /\ UNCHANGED answer
      <3>1. Gathered(p, answer[p]) /\ Progress(p, answer[p]) /\ answer \in [Readers -> AnswerRecords]
            /\ p \in DOMAIN stage /\ p \in DOMAIN code
        BY DEF ReadersInv, AnswersInv, ReaderTypes
      <3>2. /\ stage[p] = "count" /\ stage'[p] = "gone" /\ code'[p] = ExitTool
            /\ UNCHANGED <<asked, ask>>
        BY <1>4, <2>2, <3>1 DEF Finish, Proceed, Count
      <3>3. Progress(p, answer[p])'
        BY <2>2, <3>1, <3>2 DEF Progress, Queried, ExitTool, ExitValid
      <3>4. answer' = [answer EXCEPT ![p] = answer[p]]
        BY <2>2, <3>1
      <3> QED BY <3>1, <3>3, <3>4, NewAnswer
    <2> QED BY <1>4, <2>1, <2>2 DEF Count
  <1>5. CASE ReadContent(p)
    BY <1>5, ReadKeepsReaders
  <1>6. CASE \/ Resolve(p) \/ Load(p) \/ Exists(p) \/ NextQuestion(p) \/ StoreEnabled(p)
             \/ ReviewPathOf(p) \/ Deliver(p)
    <2>1. UNCHANGED answer
      BY <1>6 DEF Resolve, Load, Exists, NextQuestion, StoreEnabled, ReviewPathOf, Deliver
    <2>2. CASE Count(p)
      BY <1>4, <2>2
    <2>3. CASE ReadContent(p)
      BY <1>5, <2>3
    <2>4. CASE Query(p)
      BY <1>3, <2>4
    <2> QED BY <1>1, <2>1, <2>2, <2>3, <2>4
  <1> QED BY <1>2, <1>3, <1>4, <1>5, <1>6 DEF ReaderStep

\* Readers, runs and tampering leave the readers' invariant true.
THEOREM ReadersInvariant == ReadersSpec => []ReadersInv
  <1>1. ReadersInv /\ [ReadersNext]_<<vars, readerVars>> => ReadersInv'
    <2> SUFFICES ASSUME ReadersInv, [ReadersNext]_<<vars, readerVars>> PROVE ReadersInv'
      OBVIOUS
    <2>1. CASE Next /\ UNCHANGED readerVars
      BY <2>1, RunsKeepReaders
    <2>2. CASE (\E p \in Readers : ReaderStep(p)) /\ UNCHANGED vars
      BY <2>2, ReaderStepKeeps
    <2>3. CASE Tamper
      BY <2>3, RunsKeepReaders DEF Tamper
    <2>4. CASE UNCHANGED <<vars, readerVars>>
      BY <2>4, RunsKeepReaders
    <2> QED BY <2>1, <2>2, <2>3, <2>4 DEF ReadersNext
  <1> QED BY <1>1, ReadersStart, PTL DEF ReadersSpec

-----------------------------------------------------------------------------

\* Every variable of the readers keeps its type; what is shown or unread is
\* listed, and what is listed is in the log.
THEOREM ReadersTypeCorrect == ReadersSpec => []ReadersTypeOK
  <1>1. ASSUME ReadersInv PROVE ReadersTypeOK
    <2>1. ASSUME NEW p \in Readers
          PROVE  /\ answer[p].known \in BOOLEAN /\ answer[p].columns \in BOOLEAN
                 /\ answer[p].listed \subseteq DOMAIN rows
                 /\ answer[p].total \in 0..Len(rows)
                 /\ answer[p].unread \subseteq answer[p].listed
                 /\ answer[p].shown \subseteq [row : answer[p].listed, content : Contents]
      <3>1. Gathered(p, answer[p]) /\ answer[p] \in AnswerRecords
        BY <1>1 DEF ReadersInv, AnswersInv, ReaderTypes
      <3>2. Matching(asked[p]) \subseteq DOMAIN rows /\ Len(rows) \in Nat
        BY <1>1, RowsAreNumbered DEF ReadersInv
      <3>3. answer[p].shown \subseteq [row : answer[p].listed, content : Contents]
        BY <3>1 DEF Gathered, AnswerRecords
      <3>4. answer[p].total \in 0..Len(rows)
        BY <3>1, <3>2 DEF Gathered, AnswerRecords
      <3> QED BY <3>1, <3>2, <3>3, <3>4 DEF Gathered, AnswerRecords
    <2> QED BY <1>1, <2>1 DEF ReadersInv, ReaderTypes, ReadersTypeOK
  <1> QED BY <1>1, ReadersInvariant, PTL

\* What a reader shows of a row is what was submitted in that run, whichever
\* runs and readers work beside it and wherever runs fail or are killed;
\* collect-reviews even where stored files are removed and replaced.
THEOREM ReadersShowWhatWasSubmitted == ReadersSpec => []ShownIsPromised
  <1>1. ReadersInv => ShownIsPromised
    BY DEF ReadersInv, AnswersInv, Gathered, IsPromised, ShownIsPromised
  <1> QED BY <1>1, ReadersInvariant, PTL

\* No answer lists more than it counts, though the rows and their total are
\* two statements with runs recording in between.
THEOREM TotalAlwaysCoversListed == ReadersSpec => []TotalCoversListed
  <1>1. ReadersInv => TotalCoversListed
    BY DEF ReadersInv, AnswersInv, Progress, TotalCoversListed, Answered
  <1> QED BY <1>1, ReadersInvariant, PTL

-----------------------------------------------------------------------------
(* Rows that are listed can be read. *)

\* Only an input that names a commit is found valid, and recorded as such.
JudgedInv ==
    /\ \A r \in Runs : outcome[r] = "valid" => RefOf[input[r]] # NoRef
    /\ \A i \in DOMAIN rows :
          rows[i].exit = ExitValid => RefOf[rows[i].digest.sha256.doc] # NoRef

LEMMA NextJudged ==
    ASSUME TypeOK, JudgedInv, [Next]_vars
    PROVE  JudgedInv'
  <1>1. ASSUME NEW r \in Runs PROVE outcome'[r] = "valid" => RefOf[input'[r]] # NoRef
    <2>1. UNCHANGED input
      BY DEF Next, Step, Validate, LoadConfig, Create, Materialized, Open, NameRepo, Place,
             Placed, Record, Recorded, Render, Kill, Deadline, EditConfig, Seconds, AllGone,
             vars, saveVars
    <2>2. CASE UNCHANGED outcome
      BY <2>1, <2>2 DEF JudgedInv
    <2>3. ASSUME NEW s \in Runs, Validate(s) PROVE outcome'[r] = "valid" => RefOf[input[r]] # NoRef
      BY <2>3 DEF Validate, Outcomes, JudgedInv, TypeOK
    <2> QED BY <2>1, <2>2, <2>3
            DEF Next, Step, LoadConfig, Create, Materialized, Open, NameRepo, Place, Placed,
                Record, Recorded, Render, Kill, Deadline, EditConfig, Seconds, AllGone, vars,
                saveVars
  <1>2. ASSUME NEW i \in DOMAIN rows', rows'[i].exit = ExitValid
        PROVE  RefOf[rows'[i].digest.sha256.doc] # NoRef
    <2>1. CASE UNCHANGED rows
      BY <1>2, <2>1 DEF JudgedInv
    <2>2. ASSUME NEW r \in Runs, rows' = Append(rows, RowOf(r))
          PROVE  RefOf[rows'[i].digest.sha256.doc] # NoRef
      <3>1. rows \in Seq(Rows) /\ RowOf(r) \in Rows
        BY RowOfType DEF TypeOK, DatabaseTypeOK
      <3>2. CASE i \in DOMAIN rows /\ rows'[i] = rows[i]
        BY <1>2, <3>2 DEF JudgedInv
      <3>3. CASE rows'[i] = RowOf(r)
        <4>1. ExitOf(r) = ExitValid
          BY <1>2, <3>3 DEF RowOf
        <4>2. outcome[r] = "valid"
          BY <4>1 DEF ExitOf, TypeOK, ExitValid, ExitInvalid, ExitPrecondition
        <4>3. RowOf(r).digest.sha256.doc = input[r]
          BY DEF RowOf, Digest, Source
        <4> QED BY <3>3, <4>2, <4>3 DEF JudgedInv
      <3> QED BY <2>2, <3>1, <3>2, <3>3
    <2> QED BY <2>1, <2>2, RowSteps
  <1> QED BY <1>1, <1>2 DEF JudgedInv

LEMMA JudgedInvariant == Spec => []JudgedInv
  <1>1. Init => JudgedInv
    BY DEF Init, JudgedInv
  <1>2. TypeOK /\ JudgedInv /\ [Next]_vars => JudgedInv'
    BY NextJudged
  <1> QED BY <1>1, <1>2, TypeCorrect, PTL DEF Spec

\* The file of a listed row is there, and is one its reader accepts.
LEMMA ListedIsReadable ==
    ASSUME ReadersInv, JudgedInv, Tampers = {}, NEW p \in Readers, NEW i \in answer[p].listed,
           NEW path \in FilesOf(rows[i])
    PROVE  file[path] # Absent /\ Accepts(p, file[path], rows[i])
  <1>1. i \in DOMAIN rows /\ Matches(asked[p], rows[i])
    BY DEF ReadersInv, AnswersInv, Gathered, Matching
  <1>2. path \in StorePaths /\ file[path] = Promised(path)
    BY <1>1 DEF ReadersInv, StoreInv, FilesInv, RowHasFile, Kept
  <1>3. rows[i] \in Rows
    BY <1>1 DEF ReadersInv, StoreInv, TypeOK, DatabaseTypeOK
  <1>4. PICK d \in Docs : rows[i].digest = [sha256 |-> Source(d)]
    <2>1. rows[i].digest \in Digests
      BY <1>3 DEF Rows
    <2> QED BY <2>1 DEF Digests
  <1>5. Promised(path) \in Documents
    <2>1. PICK c \in Docs : path.digest = [sha256 |-> Source(c)]
      <3>1. path.digest \in Digests
        BY <1>2 DEF StorePaths
      <3> QED BY <3>1 DEF Digests
    <2>2. Source(c) \in Documents /\ Truncate(Source(c)) \in Documents
      BY DEF Source, Documents, Truncate
    <2> QED BY <2>1, <2>2 DEF Promised
  <1>6. file[path] # Absent
    BY <1>2, <1>5, ConstantTypes, AtomicFileAssumption
  <1>7. ASSUME asked[p].command \in {"collect", "reviews"}
        PROVE  file[path] = Source(d) /\ RefOf[d] # NoRef
    <2>1. rows[i].exit = ExitValid
      BY <1>1, <1>7 DEF Matches, ReadersInv
    <2>2. path = ReviewPath(rows[i].repo, rows[i].ref, rows[i].digest)
      BY <2>1 DEF FilesOf, ExitValid, ExitInvalid, ExitPrecondition
    <2>3. Promised(path) = Source(d)
      BY <1>4, <2>2 DEF Promised, ReviewPath
    <2>4. rows[i].digest.sha256.doc = d
      BY <1>4 DEF Source
    <2> QED BY <1>1, <1>2, <2>1, <2>3, <2>4 DEF JudgedInv
  <1>8. Accepts(p, file[path], rows[i])
    <2>1. CASE asked[p].command = "collect"
      BY <1>4, <1>7, <2>1 DEF Accepts, Digest
    <2>2. CASE asked[p].command = "reviews"
      BY <1>7, <2>2, ReviewsAssumption DEF Accepts
    <2>3. CASE asked[p].command \notin {"collect", "reviews"}
      BY <2>3 DEF Accepts
    <2> QED BY <2>1, <2>2, <2>3
  <1> QED BY <1>6, <1>8

\* Every unread row has cost a slip.
SlipsInv ==
    \A p \in Readers :
        IsFiniteSet(answer[p].unread) /\ Cardinality(answer[p].unread) <= slips

LEMMA NextSlips ==
    ASSUME ReadersInv, JudgedInv, SlipsInv, Tampers = {},
           [ReadersNext]_<<vars, readerVars>>
    PROVE  SlipsInv'
  <1>1. CASE UNCHANGED readerVars
    BY <1>1 DEF SlipsInv, readerVars
  <1>2. ASSUME NEW p \in Readers, ReaderStep(p) PROVE SlipsInv'
    <2>0. answer \in [Readers -> AnswerRecords] /\ slips \in 0..MaxSlips /\ MaxSlips \in Nat
      BY ReviewsAssumption DEF ReadersInv, ReaderTypes
    <2>1. slips' \in Nat /\ slips <= slips'
      BY <1>2, <2>0, ReaderStepFrame DEF ReadersInv, Slip!Works, Slip!Fails
    <2>2. CASE \A q \in Readers : UNCHANGED answer[q].unread
      <3> SUFFICES ASSUME NEW q \in Readers
                   PROVE  IsFiniteSet(answer'[q].unread) /\ Cardinality(answer'[q].unread) <= slips'
        BY DEF SlipsInv
      <3>1. IsFiniteSet(answer[q].unread) /\ Cardinality(answer[q].unread) <= slips
        BY DEF SlipsInv
      <3>2. Cardinality(answer[q].unread) \in Nat
        BY <3>1, FS_CardinalityType
      <3>3. Cardinality(answer[q].unread) <= slips'
        BY <2>0, <2>1, <3>1, <3>2
      <3> QED BY <2>2, <3>1, <3>3
    <2>3. ASSUME ReadContent(p), ~(\A q \in Readers : UNCHANGED answer[q].unread) PROVE SlipsInv'
      <3>1. PICK i \in answer[p].listed :
               /\ Slip!Fails
               /\ answer' = [answer EXCEPT ![p].unread = @ \cup {i}]
        <4>1. PICK i \in Pending(p), path \in StorePaths :
                 /\ path \in FilesOf(rows[i])
                 /\ \/ /\ file[path] = Absent \/ ~Accepts(p, file[path], rows[i])
                       /\ answer' = [answer EXCEPT ![p].unread = @ \cup {i}]
                    \/ answer' = [answer EXCEPT ![p].shown =
                                     @ \cup {[row |-> i, content |-> file[path]]}]
                    \/ /\ Slip!Fails
                       /\ answer' = [answer EXCEPT ![p].unread = @ \cup {i}]
          BY <2>3 DEF ReadContent
        <4>2. i \in answer[p].listed
          BY <4>1, <2>3 DEF Pending
        <4>3. file[path] # Absent /\ Accepts(p, file[path], rows[i])
          BY <4>1, <4>2, ListedIsReadable
        <4>4. ~(answer' = [answer EXCEPT ![p].shown =
                                     @ \cup {[row |-> i, content |-> file[path]]}])
          BY <2>0, <2>3 DEF AnswerRecords
        <4> QED BY <4>1, <4>2, <4>3, <4>4
      <3>2. slips' = slips + 1
        BY <3>1 DEF Slip!Fails
      <3>3. answer'[p].unread = answer[p].unread \cup {i}
        BY <2>0, <3>1 DEF AnswerRecords
      <3>4. \A q \in Readers \ {p} : answer'[q] = answer[q]
        BY <2>0, <3>1
      <3>5. ASSUME NEW q \in Readers
            PROVE  IsFiniteSet(answer'[q].unread) /\ Cardinality(answer'[q].unread) <= slips'
        <4>1. IsFiniteSet(answer[q].unread) /\ Cardinality(answer[q].unread) <= slips
              /\ Cardinality(answer[q].unread) \in Nat
          BY FS_CardinalityType DEF SlipsInv
        <4>2. CASE q # p
          BY <2>0, <2>1, <3>2, <3>4, <4>1, <4>2
        <4>3. CASE q = p
          <5>1. IsFiniteSet(answer[q].unread \cup {i})
            BY <4>1, FS_AddElement
          <5>2. \/ Cardinality(answer[q].unread \cup {i}) = Cardinality(answer[q].unread)
                \/ Cardinality(answer[q].unread \cup {i}) = Cardinality(answer[q].unread) + 1
            BY <4>1, FS_AddElement
          <5>3. Cardinality(answer[q].unread \cup {i}) <= slips'
            BY <2>0, <3>2, <4>1, <5>2
          <5> QED BY <3>3, <4>3, <5>1, <5>3
        <4> QED BY <4>2, <4>3
      <3> QED BY <3>5 DEF SlipsInv
    <2>4. CASE ~ReadContent(p)
      <3>1. \/ UNCHANGED answer
            \/ \E b : answer' = [answer EXCEPT ![p].columns = b]
            \/ \E b : answer' = [answer EXCEPT ![p].known = b]
            \/ \E b : answer' = [answer EXCEPT ![p].listed = b]
            \/ \E b : answer' = [answer EXCEPT ![p].total = b]
        <4>1. CASE Resolve(p) \/ Load(p) \/ Exists(p) \/ NextQuestion(p) \/ StoreEnabled(p)
                     \/ ReviewPathOf(p) \/ Deliver(p)
          BY <4>1 DEF Resolve, Load, Exists, NextQuestion, StoreEnabled, ReviewPathOf, Deliver
        <4>2. CASE OpenReadOnly(p)
          BY <4>2 DEF OpenReadOnly
        <4>3. CASE Query(p)
          BY <4>3 DEF Query
        <4>4. CASE Count(p)
          BY <4>4 DEF Count
        <4> QED BY <1>2, <2>4, <4>1, <4>2, <4>3, <4>4 DEF ReaderStep
      <3>2. \A q \in Readers : UNCHANGED answer[q].unread
        BY <2>0, <3>1 DEF AnswerRecords
      <3> QED BY <2>2, <3>2
    <2> QED BY <2>2, <2>3, <2>4
  <1> QED BY <1>1, <1>2 DEF ReadersNext, Tamper

\* Where nobody tampers with the files, every file that a reader reports as
\* unreadable is one it failed to read: runs that fail or die leave none that is
\* missing or partial.
THEOREM UnreadableAlwaysHasCause ==
    ASSUME Tampers = {}
    PROVE  ReadersSpec => []UnreadableHasCause
  <1>1. ASSUME ReadersInit PROVE SlipsInv
    <2>1. IsFiniteSet({}) /\ Cardinality({}) = 0
      BY FS_EmptySet
    <2>2. \A p \in Readers : answer[p].unread = {}
      BY <1>1 DEF ReadersInit, NoAnswer
    <2>3. slips = 0
      BY <1>1 DEF ReadersInit
    <2>4. Cardinality({}) <= slips
      BY <2>1, <2>3
    <2> QED BY <2>1, <2>2, <2>4 DEF SlipsInv
  <1>2. ReadersInv /\ JudgedInv /\ SlipsInv /\ [ReadersNext]_<<vars, readerVars>> => SlipsInv'
    BY NextSlips
  <1>3. SlipsInv => UnreadableHasCause
    BY DEF SlipsInv, UnreadableHasCause
  <1> QED BY <1>1, <1>2, <1>3, ReadersInvariant, ReadersOnlyRead, JudgedInvariant, PTL DEF ReadersSpec

=============================================================================
