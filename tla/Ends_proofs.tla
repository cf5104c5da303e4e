----------------------------- MODULE Ends_proofs ----------------------------
(***************************************************************************)
(* How runs (Save.tla) and readers (Reviews.tla) end, for any number of    *)
(* them, of documents and of failures.  That a run has only so many steps  *)
(* to take and is never without one; what an exit code says of the files,  *)
(* the rows and the temporary files a run has left; that a reader which    *)
(* ends in exit 0 has missed nothing that was in the log when it was       *)
(* started, whoever records, migrates, dies or tampers in between, and one *)
(* which ends in exit 101 has a failed call of its own to blame.           *)
(***************************************************************************)
EXTENDS Reviews_proofs

Verdicts == {ExitValid, ExitInvalid, ExitPrecondition}

\* Where a run's connection is when the run is where it is.
SessionAt(r) ==
    /\ pc[r] \in {"validate", "load", "materialize"} => session[r] = "closed"
    /\ pc[r] = "open" => session[r] \notin {"insert", "recorded", "dead"}
    /\ pc[r] = "place" => session[r] = "open"
    /\ pc[r] = "record" => session[r] \in {"open", "insert", "recorded", "failed"}
    /\ pc[r] = "render" => session[r] \in {"closed", "recorded"}

\* What an exit code tells of the run that had it.
EndOf(r) ==
    /\ exit[r] # Running => pc[r] = "gone"
    /\ exit[r] \in Verdicts =>
          /\ exit[r] = ExitOf(r)
          /\ session[r] \in {"closed", "recorded"}
          /\ temp[r] = Absent
    /\ exit[r] = ExitTool => session[r] \notin {"recorded", "dead"}

\* Which file a run was last asked for.
TargetOf(r) ==
    /\ pc[r] # "gone" => target[r] \in {Config} \cup FilesOf(RowOf(r))
    /\ \/ pc[r] \in {"validate", "load", "materialize", "open"}
       \/ pc[r] = "place" /\ write[r] = "idle"
       \/ pc[r] = "render" /\ session[r] = "closed"
       => target[r] = Config

\* A temporary file is there only between CreateTemp and Rename, or for good.
TempOf(r) ==
    pc[r] # "gone" /\ write[r] \in {"idle", "mkdir", "stat", "create", "placed"} =>
        temp[r] = Absent

RowOfRun(r) == session[r] = "recorded" => \E i \in DOMAIN rows : rows[i] = RowOf(r)

RunInv(r) == SessionAt(r) /\ EndOf(r) /\ TargetOf(r) /\ TempOf(r) /\ RowOfRun(r)

EndsInv == \A r \in Runs : RunInv(r)

-----------------------------------------------------------------------------
(* What is a run's own. *)

\* Everything the invariant says of a run, but the log.
OwnVars(r) ==
    <<pc[r], session[r], exit[r], write[r], target[r], temp[r],
      input[r], outcome[r], repo[r], at[r]>>

\* Rows are only added.
Grows == \A i \in DOMAIN rows : i \in DOMAIN rows' /\ rows'[i] = rows[i]

LEMMA RowsGrow ==
    ASSUME TypeOK, [Next]_vars
    PROVE  Grows
  <1>1. rows \in Seq(Rows)
    BY DEF TypeOK, DatabaseTypeOK
  <1>2. CASE UNCHANGED rows
    BY <1>2 DEF Grows
  <1>3. ASSUME NEW r \in Runs, rows' = Append(rows, RowOf(r)) PROVE Grows
    BY <1>1, <1>3 DEF Grows
  <1> QED BY <1>2, <1>3, RowSteps

LEMMA OwnRowStays ==
    ASSUME NEW r \in Runs, UNCHANGED <<input[r], outcome[r], repo[r], at[r]>>
    PROVE  RowOf(r)' = RowOf(r) /\ ExitOf(r)' = ExitOf(r)
                                /\ FilesOf(RowOf(r))' = FilesOf(RowOf(r))
  <1>1. ExitOf(r)' = ExitOf(r)
    BY DEF ExitOf
  <1>2. RowOf(r)' = RowOf(r)
    BY <1>1 DEF RowOf
  <1> QED BY <1>1, <1>2 DEF FilesOf, ReviewPath, RejectedPath

\* What other runs do leaves the invariant true of this one.
LEMMA OthersKeep ==
    ASSUME NEW r \in Runs, UNCHANGED OwnVars(r), Grows, RunInv(r)
    PROVE  RunInv(r)'
  <1>1. UNCHANGED <<input[r], outcome[r], repo[r], at[r]>>
    BY DEF OwnVars
  <1>2. RowOf(r)' = RowOf(r) /\ ExitOf(r)' = ExitOf(r)
                             /\ FilesOf(RowOf(r))' = FilesOf(RowOf(r))
    BY <1>1, OwnRowStays
  <1>3. UNCHANGED <<pc[r], session[r], exit[r], write[r], target[r], temp[r]>>
    BY DEF OwnVars
  <1>4. SessionAt(r)' /\ TempOf(r)'
    BY <1>3 DEF RunInv, SessionAt, TempOf
  <1>5. EndOf(r)'
    BY <1>2, <1>3 DEF RunInv, EndOf
  <1>6. TargetOf(r)'
    BY <1>2, <1>3 DEF RunInv, TargetOf
  <1>7. RowOfRun(r)'
    BY <1>2, <1>3 DEF RunInv, RowOfRun, Grows
  <1> QED BY <1>4, <1>5, <1>6, <1>7 DEF RunInv

\* What happens beside the steps of the runs.
Outside ==
    EditConfig \/ Seconds \/ AllGone \/ UNCHANGED vars \/ \E r \in Runs : Deadline(r)

LEMMA NextCases ==
    ASSUME [Next]_vars
    PROVE  Outside \/ \E r \in Runs : Step(r) \/ Kill(r)
  BY DEF Next, Outside

LEMMA OutsideFrame ==
    ASSUME Outside
    PROVE  UNCHANGED <<saveVars, temp, write, target, payload, db, rows, session, at>>
  BY DEF Outside, EditConfig, Seconds, Tick, AllGone, Deadline, DeadlinePasses, vars, fileVars,
         dbVars, dataVars

\* A step is of one run at a time.
LEMMA StepsAreOwn ==
    ASSUME TypeOK, NEW r \in Runs, Step(r) \/ Kill(r), NEW s \in Runs \ {r}
    PROVE  UNCHANGED OwnVars(s)
  <1> USE DEF TypeOK, AtomicFileTypeOK, DatabaseTypeOK, OwnVars, Move, Exit, Advance, Go,
              fileVars, dbVars, dataVars, saveVars
  <1>1. CASE Validate(r)
    BY <1>1 DEF Validate
  <1>2. CASE LoadConfig(r)
    BY <1>2 DEF LoadConfig, Call
  <1>3. CASE Create(r)
    BY <1>3 DEF Create, CreateStep, MkdirAll, Stat, CreateTemp, Write, Close, Rename,
                RemoveTemp
  <1>4. CASE Materialized(r) \/ Placed(r)
    BY <1>4 DEF Materialized, Placed, Return
  <1>5. CASE Open(r)
    BY <1>5 DEF Open, New, OpenStep, Ping, ConvertToWAL, SetJournalMode, Backoff,
                ConvertedToWAL, BeginMigration, CheckVersion, ApplySchema,
                ApplyMigration0002, Applies, SetVersion, CommitMigration, Rollback
  <1>6. CASE NameRepo(r) \/ Recorded(r) \/ Render(r)
    BY <1>6 DEF NameRepo, Recorded, Render
  <1>7. CASE Place(r)
    BY <1>7 DEF Place, Call
  <1>8. CASE Record(r)
    BY <1>8 DEF Record, StampAt, Insert
  <1>9. CASE Kill(r)
    BY <1>9 DEF Kill, KillWriter, KillSession
  <1> QED BY <1>1, <1>2, <1>3, <1>4, <1>5, <1>6, <1>7, <1>8, <1>9 DEF Step

-----------------------------------------------------------------------------
(* A run's own steps. *)

LEMMA ExitsDiffer ==
    /\ Verdicts \cap {ExitTool, ExitUsage, Running} = {}
    /\ ExitTool # Running /\ ExitTool # ExitUsage /\ ExitUsage # Running
    /\ \A r \in Runs : TypeOK => ExitOf(r) \in Verdicts
  BY DEF Verdicts, ExitValid, ExitInvalid, ExitPrecondition, ExitTool, ExitUsage, Running,
         ExitOf, TypeOK

LEMMA RunStays ==
    ASSUME FilesInv, TypeOK', NEW r \in Runs, Step(r) \/ Kill(r), RunInv(r), Grows
    PROVE  RunInv(r)'
  <1>t. TypeOK
    BY DEF FilesInv
  <1>i. pc[r] \in {"validate", "load", "open", "record", "render"} => write[r] = "idle"
    BY DEF FilesInv, FileBeforeRow
  <1>u. ~Validate(r) => UNCHANGED <<input[r], outcome[r], repo[r]>>
    BY DEF Step, LoadConfig, Create, Materialized, Open, NameRepo, Place, Placed, Record,
           Recorded, Render, Kill, saveVars
  <1>r. ASSUME ~Validate(r), UNCHANGED at[r]
        PROVE  RowOf(r)' = RowOf(r) /\ ExitOf(r)' = ExitOf(r)
                                    /\ FilesOf(RowOf(r))' = FilesOf(RowOf(r))
    BY <1>r, <1>u, OwnRowStays
  <1> USE DEF TypeOK, AtomicFileTypeOK, DatabaseTypeOK, Move, Exit, RunInv
  <1>1. CASE Validate(r)
    <2>1. /\ session[r] = "closed" /\ target[r] = Config /\ temp[r] = Absent /\ write[r] = "idle"
          /\ exit[r] = Running
      BY <1>1, <1>t, <1>i DEF Validate, SessionAt, TargetOf, TempOf, EndOf
    <2>2. UNCHANGED <<session[r], target[r], temp[r], write[r]>>
      BY <1>1 DEF Validate, fileVars, dbVars, dataVars
    <2>3. \/ pc'[r] = "load" /\ exit'[r] = Running
          \/ pc'[r] = "gone" /\ exit'[r] = ExitUsage
      BY <1>1, <1>t, <2>1 DEF Validate
    <2> QED BY <2>1, <2>2, <2>3, ExitsDiffer
            DEF SessionAt, TargetOf, TempOf, EndOf, RowOfRun
  <1>2. CASE LoadConfig(r)
    <2>1. /\ session[r] = "closed" /\ target[r] = Config /\ temp[r] = Absent
          /\ exit[r] = Running
      BY <1>2, <1>t, <1>i DEF LoadConfig, SessionAt, TargetOf, TempOf, EndOf
    <2>2. UNCHANGED <<session[r], temp[r]>> /\ target'[r] = Config
      BY <1>2, <1>t, <2>1 DEF LoadConfig, Call, fileVars, dbVars, dataVars
    <2>3. \/ pc'[r] \in {"materialize", "render"} /\ exit'[r] = Running
          \/ pc'[r] = "gone" /\ exit'[r] = ExitTool
      BY <1>2, <1>t, <2>1 DEF LoadConfig
    <2> QED BY <2>1, <2>2, <2>3, ExitsDiffer
            DEF SessionAt, TargetOf, TempOf, EndOf, RowOfRun
  <1>3. CASE Create(r)
    <2>1. UNCHANGED <<session[r], pc[r], exit[r], target[r], at[r], rows>>
      BY <1>3 DEF Create, saveVars, dbVars, dataVars, CreateStep, MkdirAll, Stat,
                  CreateTemp, Write, Close, Rename, RemoveTemp
    <2>2. pc[r] \in {"materialize", "place"} /\ exit[r] = Running /\ ~Validate(r)
      BY <1>3 DEF Create, EndOf, Validate
    <2>3. RowOf(r)' = RowOf(r) /\ FilesOf(RowOf(r))' = FilesOf(RowOf(r))
      BY <1>r, <2>1, <2>2
    <2>4. write[r] # "idle" /\ write'[r] # "idle" /\ TempOf(r)'
      BY <1>3, <1>t, <2>2 DEF Create, CreateStep, MkdirAll, Stat, CreateTemp, Write, Close,
                              Rename, RemoveTemp, Advance, TempOf
    <2>5. SessionAt(r)' /\ EndOf(r)'
      BY <2>1, <2>2, ExitsDiffer DEF SessionAt, EndOf
    <2>6. TargetOf(r)' /\ RowOfRun(r)'
      BY <2>1, <2>2, <2>3, <2>4 DEF TargetOf, RowOfRun
    <2> QED BY <2>4, <2>5, <2>6
  <1>4. CASE Materialized(r)
    <2>1. /\ session[r] = "closed" /\ target[r] = Config /\ exit[r] = Running
      BY <1>4, <1>t DEF Materialized, SessionAt, TargetOf, EndOf
    <2>2. UNCHANGED <<session[r], target[r], temp[r]>>
      BY <1>4 DEF Materialized, Return, dbVars, dataVars
    <2>3. \/ pc'[r] = "open" /\ exit'[r] = Running /\ temp[r] = Absent
          \/ pc'[r] = "gone" /\ exit'[r] = ExitTool
      BY <1>4, <1>t, <2>1 DEF Materialized, Return, Advance, TempOf
    <2> QED BY <2>1, <2>2, <2>3, ExitsDiffer
            DEF SessionAt, TargetOf, TempOf, EndOf, RowOfRun
  <1>5. CASE Open(r)
    <2>1. UNCHANGED <<pc[r], exit[r], write[r], target[r], temp[r], at[r]>> /\ pc[r] = "open"
      BY <1>5 DEF Open, fileVars, saveVars, New, OpenStep, Ping, ConvertToWAL,
                  SetJournalMode, Backoff, ConvertedToWAL, BeginMigration, CheckVersion,
                  ApplySchema, ApplyMigration0002, Applies, SetVersion, CommitMigration, Rollback
    <2>2. session'[r] \notin {"insert", "recorded", "dead"}
      BY <1>5, <1>t DEF Open, New, OpenStep, Ping, ConvertToWAL, SetJournalMode, Backoff,
                        ConvertedToWAL, BeginMigration, CheckVersion, ApplySchema, ApplyMigration0002,
                        Applies, SetVersion, CommitMigration, Rollback, Go
    <2>3. exit[r] = Running /\ target[r] = Config
      BY <2>1 DEF EndOf, TargetOf
    <2> QED BY <2>1, <2>2, <2>3, ExitsDiffer
            DEF SessionAt, TargetOf, TempOf, EndOf, RowOfRun
  <1>6. CASE NameRepo(r)
    <2>1. /\ pc[r] = "open" /\ exit[r] = Running /\ target[r] = Config
          /\ temp[r] = Absent /\ session[r] \in {"open", "failed"}
      BY <1>6, <1>i DEF NameRepo, EndOf, TargetOf, TempOf
    <2>2. UNCHANGED <<session[r], target[r], temp[r]>>
      BY <1>6 DEF NameRepo, fileVars, dbVars, dataVars
    <2>3. \/ pc'[r] = "place" /\ exit'[r] = Running /\ session[r] = "open"
          \/ pc'[r] = "gone" /\ exit'[r] = ExitTool
      BY <1>6, <1>t, <2>1 DEF NameRepo
    <2> QED BY <2>1, <2>2, <2>3, ExitsDiffer
            DEF SessionAt, TargetOf, TempOf, EndOf, RowOfRun
  <1>7. CASE Place(r)
    <2>1. /\ pc[r] = "place" /\ exit[r] = Running /\ session[r] = "open" /\ ~Validate(r)
      BY <1>7 DEF Place, EndOf, SessionAt, Validate
    <2>2. UNCHANGED <<session[r], exit[r], temp[r], at[r]>>
      BY <1>7 DEF Place, Call, fileVars, dbVars, dataVars
    <2>3. FilesOf(RowOf(r))' = FilesOf(RowOf(r))
      BY <1>r, <2>1, <2>2
    <2>4. CASE outcome[r] = "precondition"
      <3>1. pc'[r] = "record" /\ UNCHANGED <<write[r], target[r]>>
        BY <1>7, <1>t, <2>4 DEF Place, fileVars
      <3>2. FilesOf(RowOf(r)) = {}
        BY <1>t, <2>4, FilesOfRun
      <3>3. write[r] = "idle"
        BY <2>1, <3>2 DEF FilesInv, FileBeforeRow
      <3> QED BY <2>1, <2>2, <2>3, <3>1, <3>2, <3>3, ExitsDiffer
              DEF SessionAt, TargetOf, TempOf, EndOf, RowOfRun
    <2>5. CASE outcome[r] \in {"valid", "invalid"}
      <3>1. /\ target'[r] \in FilesOf(RowOf(r)) /\ write'[r] = "mkdir" /\ write[r] = "idle"
            /\ pc'[r] = "place"
        BY <1>7, <1>t, <2>5, FilesOfRun DEF Place, Call, Advance
      <3> QED BY <2>1, <2>2, <2>3, <3>1, ExitsDiffer
              DEF SessionAt, TargetOf, TempOf, EndOf, RowOfRun
    <2> QED BY <1>7, <2>4, <2>5 DEF Place
  <1>8. CASE Placed(r)
    <2>1. /\ pc[r] = "place" /\ exit[r] = Running /\ session[r] = "open" /\ ~Validate(r)
      BY <1>8 DEF Placed, EndOf, SessionAt, Validate
    <2>2. UNCHANGED <<session[r], target[r], temp[r], at[r]>>
      BY <1>8 DEF Placed, Return, dbVars, dataVars
    <2>3. FilesOf(RowOf(r))' = FilesOf(RowOf(r))
      BY <1>r, <2>1, <2>2
    <2>4. \/ pc'[r] = "record" /\ exit'[r] = Running /\ temp[r] = Absent
          \/ pc'[r] = "gone" /\ exit'[r] = ExitTool
      BY <1>8, <1>t, <2>1 DEF Placed, Return, Advance, TempOf
    <2> QED BY <2>1, <2>2, <2>3, <2>4, ExitsDiffer
            DEF SessionAt, TargetOf, TempOf, EndOf, RowOfRun
  <1>9. CASE Record(r)
    <2>1. /\ pc[r] = "record" /\ exit[r] = Running /\ ~Validate(r)
          /\ UNCHANGED <<pc[r], exit[r], write[r], target[r], temp[r], input[r],
                         outcome[r], repo[r]>>
      BY <1>9 DEF Record, EndOf, Validate, fileVars, saveVars
    <2>2. FilesOf(RowOf(r))' = FilesOf(RowOf(r))
      <3>1. UNCHANGED <<input, outcome, repo>>
        BY <1>9 DEF Record, saveVars
      <3> QED BY <1>t, <3>1, FilesOfRunStays
    <2>3. session'[r] \in {"insert", "recorded", "failed"}
      BY <1>9, <1>t DEF Record, StampAt, Insert, Go
    <2>4. RowOfRun(r)'
      <3>1. CASE StampAt(r)
        BY <1>t, <3>1 DEF StampAt, Go, RowOfRun
      <3>2. CASE Insert(r, RowOf(r)) /\ rows' # Append(rows, RowOf(r))
        BY <1>t, <3>2 DEF Insert, Go, RowOfRun
      <3>3. CASE Insert(r, RowOf(r)) /\ rows' = Append(rows, RowOf(r))
        <4>1. UNCHANGED at[r]
          BY <3>3 DEF Insert
        <4>2. RowOf(r)' = RowOf(r)
          BY <1>r, <2>1, <4>1
        <4>3. Len(rows) + 1 \in DOMAIN rows' /\ rows'[Len(rows) + 1] = RowOf(r)
          BY <1>t, <3>3, RowOfType
        <4> QED BY <4>2, <4>3 DEF RowOfRun
      <3> QED BY <1>9, <3>1, <3>2, <3>3 DEF Record
    <2> QED BY <2>1, <2>2, <2>3, <2>4, ExitsDiffer DEF SessionAt, TargetOf, TempOf, EndOf
  <1>10. CASE Recorded(r)
    <2>1. /\ pc[r] = "record" /\ exit[r] = Running /\ ~Validate(r)
          /\ temp[r] = Absent /\ write[r] = "idle"
      BY <1>10, <1>i DEF Recorded, EndOf, Validate, TempOf
    <2>2. UNCHANGED <<session[r], target[r], temp[r], write[r], at[r], rows>>
      BY <1>10 DEF Recorded, fileVars, dbVars, dataVars
    <2>3. RowOf(r)' = RowOf(r) /\ FilesOf(RowOf(r))' = FilesOf(RowOf(r))
      BY <1>r, <2>1, <2>2
    <2>4. \/ pc'[r] = "render" /\ exit'[r] = Running /\ session[r] = "recorded"
          \/ pc'[r] = "gone" /\ exit'[r] = ExitTool /\ session[r] = "failed"
      BY <1>10, <1>t, <2>1 DEF Recorded
    <2> QED BY <2>1, <2>2, <2>3, <2>4, ExitsDiffer
            DEF SessionAt, TargetOf, TempOf, EndOf, RowOfRun
  <1>11. CASE Render(r)
    <2>1. /\ pc[r] = "render" /\ exit[r] = Running /\ ~Validate(r)
          /\ temp[r] = Absent /\ session[r] \in {"closed", "recorded"}
      BY <1>11, <1>i DEF Render, EndOf, Validate, TempOf, SessionAt
    <2>2. UNCHANGED <<session[r], temp[r], at[r], rows>>
      BY <1>11 DEF Render, fileVars, dbVars, dataVars
    <2>3. RowOf(r)' = RowOf(r) /\ ExitOf(r)' = ExitOf(r)
      BY <1>r, <2>1, <2>2
    <2>4. pc'[r] = "gone" /\ exit'[r] \in {ExitOf(r), ExitUsage}
      BY <1>11, <1>t, <2>1 DEF Render
    <2> QED BY <1>t, <2>1, <2>2, <2>3, <2>4, ExitsDiffer
            DEF SessionAt, TargetOf, TempOf, EndOf, RowOfRun
  <1>12. CASE Kill(r)
    <2>1. pc'[r] = "gone" /\ session'[r] = "dead" /\ UNCHANGED exit[r] /\ exit[r] = Running
      BY <1>12, <1>t DEF Kill, KillSession, EndOf
    <2> QED BY <2>1, ExitsDiffer DEF SessionAt, TargetOf, TempOf, EndOf, RowOfRun
  <1> QED BY <1>1, <1>2, <1>3, <1>4, <1>5, <1>6, <1>7, <1>8, <1>9, <1>10, <1>11, <1>12
          DEF Step

LEMMA InitEnds == Init => EndsInv
  <1> SUFFICES ASSUME Init, NEW r \in Runs PROVE RunInv(r)
    BY DEF EndsInv
  <1>1. /\ pc[r] = "validate" /\ session[r] = "closed" /\ exit[r] = Running
        /\ target[r] = Config /\ temp[r] = Absent
    BY DEF Init
  <1> QED BY <1>1, ExitsDiffer DEF RunInv, SessionAt, EndOf, TargetOf, TempOf, RowOfRun

LEMMA NextEnds ==
    ASSUME FilesInv, EndsInv, [Next]_vars
    PROVE  EndsInv'
  <1>t. TypeOK
    BY DEF FilesInv
  <1>p. TypeOK'
    BY NextTypes DEF FilesInv
  <1>g. Grows
    BY <1>t, RowsGrow
  <1>1. ASSUME NEW r \in Runs, Step(r) \/ Kill(r) PROVE EndsInv'
    <2>1. RunInv(r)'
      BY <1>1, <1>g, <1>p, RunStays DEF EndsInv
    <2>2. ASSUME NEW s \in Runs \ {r} PROVE RunInv(s)'
      <3>1. UNCHANGED OwnVars(s)
        BY <1>1, <1>t, <2>2, StepsAreOwn
      <3> QED BY <1>g, <3>1, OthersKeep DEF EndsInv
    <2> QED BY <2>1, <2>2 DEF EndsInv
  <1>2. CASE Outside
    <2>1. \A r \in Runs : UNCHANGED OwnVars(r)
      BY <1>2, OutsideFrame DEF saveVars, OwnVars
    <2> QED BY <1>g, <2>1, OthersKeep DEF EndsInv
  <1> QED BY <1>1, <1>2, NextCases

\* How far a run came before it ended, however many fail or are killed.
THEOREM EndsInvariant == Spec => []EndsInv
  <1>1. FilesInv /\ EndsInv /\ [Next]_vars => EndsInv'
    BY NextEnds
  <1> QED BY <1>1, InitEnds, FilesInvariant, PTL DEF Spec

\* Whoever was told a verdict finds it in the log, unless the store is off.
THEOREM VerdictsAreRecorded == Spec => []VerdictIsRecorded
  <1>1. EndsInv => VerdictIsRecorded
    <2> SUFFICES ASSUME EndsInv, NEW r \in Runs, exit[r] \in Verdicts, session[r] # "closed"
                 PROVE  \E i \in DOMAIN rows : rows[i].run = r /\ rows[i].exit = exit[r]
      BY DEF VerdictIsRecorded, Verdicts
    <2>1. session[r] = "recorded" /\ exit[r] = ExitOf(r)
      BY DEF EndsInv, RunInv, EndOf
    <2>2. PICK i \in DOMAIN rows : rows[i] = RowOf(r)
      BY <2>1 DEF EndsInv, RunInv, RowOfRun
    <2>3. RowOf(r).run = r /\ RowOf(r).exit = ExitOf(r)
      BY DEF RowOf
    <2> QED BY <2>1, <2>2, <2>3
  <1> QED BY <1>1, EndsInvariant, PTL

\* A run that failed may be repeated: it has left no row.
THEOREM ToolFailuresLeaveNoRow == Spec => []ToolFailureLeavesNoRow
  <1>1. EndsInv /\ RowsAreInserted => ToolFailureLeavesNoRow
    BY DEF EndsInv, RunInv, EndOf, RowsAreInserted, ToolFailureLeavesNoRow
  <1> QED BY <1>1, EndsInvariant, RowsInserted, PTL

\* A run that ended in a verdict has cleaned up after itself.
THEOREM VerdictsLeaveNoTemp == Spec => []VerdictLeavesNoTemp
  <1>1. EndsInv => VerdictLeavesNoTemp
    BY DEF EndsInv, RunInv, EndOf, VerdictLeavesNoTemp, Verdicts
  <1> QED BY <1>1, EndsInvariant, PTL

-----------------------------------------------------------------------------
(* What config.json may hold. *)

\* All that a run puts under the name of the config are the defaults.
OnlyDefaults == \A r \in Runs : target[r] = Config => payload[r] = Defaults

LEMMA ConfigSteps ==
    ASSUME TypeOK, TempComplete, OnlyDefaults, [Next]_vars \/ Tamper
    PROVE  OnlyDefaults' /\ file'[Config] \in {file[Config], Defaults} \cup Edits
  <1> USE DEF TypeOK, AtomicFileTypeOK
  <1> DEFINE Saved == OnlyDefaults' /\ file'[Config] \in {file[Config], Defaults} \cup Edits
  <1>0. Config \notin StorePaths /\ Config \in Paths
    BY SaveAssumption
  <1>1. ASSUME NEW r \in Runs, CreateStep(r) PROVE Saved
    <2>1. UNCHANGED <<target, payload>>
      BY <1>1 DEF CreateStep, MkdirAll, Stat, CreateTemp, Write, Close, Rename, RemoveTemp
    <2>2. CASE write[r] = "rename" /\ file' = [file EXCEPT ![target[r]] = temp[r]]
      <3>1. temp[r] = payload[r]
        BY <2>2 DEF TempComplete
      <3>2. target[r] = Config => file'[Config] = Defaults
        BY <1>0, <2>2, <3>1 DEF OnlyDefaults
      <3>3. target[r] # Config => file'[Config] = file[Config]
        BY <1>0, <2>2
      <3> QED BY <1>0, <2>1, <3>2, <3>3 DEF OnlyDefaults
    <2>3. CASE UNCHANGED file
      BY <2>1, <2>3 DEF OnlyDefaults
    <2> QED BY <1>1, <2>2, <2>3
            DEF CreateStep, MkdirAll, Stat, CreateTemp, Write, Close, Rename, RemoveTemp, Advance
  <1>2. ASSUME NEW r \in Runs, LoadConfig(r) PROVE Saved
    <2>1. UNCHANGED file
          /\ \/ UNCHANGED <<target, payload>>
             \/ /\ target' = [target EXCEPT ![r] = Config]
                /\ payload' = [payload EXCEPT ![r] = Defaults]
      BY <1>2 DEF LoadConfig, Call, fileVars
    <2> QED BY <2>1 DEF OnlyDefaults
  <1>3. ASSUME NEW r \in Runs, Place(r) PROVE Saved
    <2>1. UNCHANGED file
          /\ \/ UNCHANGED <<target, payload>>
             \/ \E path \in StorePaths : target' = [target EXCEPT ![r] = path]
                   /\ \E c : payload' = [payload EXCEPT ![r] = c]
      BY <1>3, PlaceTypes DEF Place, Call, fileVars
    <2> QED BY <1>0, <2>1 DEF OnlyDefaults
  <1>4. ASSUME NEW r \in Runs,
               \/ Validate(r) \/ Materialized(r) \/ Open(r) \/ NameRepo(r) \/ Placed(r)
               \/ Record(r) \/ Recorded(r) \/ Render(r) \/ Kill(r)
        PROVE  UNCHANGED <<file, target, payload>>
    BY <1>4 DEF Validate, Materialized, Open, NameRepo, Placed, Record, Recorded, Render,
                Kill, KillWriter, Return, fileVars
  <1>5. CASE EditConfig
    <2>1. UNCHANGED <<target, payload>>
          /\ \E c \in Edits : file' = [file EXCEPT ![Config] = c]
      BY <1>5 DEF EditConfig
    <2> QED BY <1>0, <2>1 DEF OnlyDefaults
  <1>6. CASE Tamper
    <2>1. UNCHANGED <<target, payload>>
          /\ \E path \in StorePaths, c \in Tampers : file' = [file EXCEPT ![path] = c]
      BY <1>6 DEF Tamper
    <2> QED BY <1>0, <2>1 DEF OnlyDefaults
  <1>7. CASE Seconds \/ AllGone \/ UNCHANGED vars \/ \E r \in Runs : Deadline(r)
    BY <1>7 DEF Seconds, AllGone, Deadline, vars, fileVars, OnlyDefaults
  <1>8. CASE UNCHANGED <<file, target, payload>>
    BY <1>8 DEF OnlyDefaults
  <1> QED BY <1>1, <1>2, <1>3, <1>4, <1>5, <1>6, <1>7, <1>8 DEF Next, Step, Create

-----------------------------------------------------------------------------
(* Every run has only so far to go. *)

Ahead(point) ==
    CASE point = "validate" -> 7 [] point = "load" -> 6   [] point = "materialize" -> 5
      [] point = "open" -> 4     [] point = "place" -> 3  [] point = "record" -> 2
      [] point = "render" -> 1   [] point = "gone" -> 0

\* What is left of one call of createAtomic; another call may follow it.
LeftToWrite(step) ==
    CASE step = "idle" -> 8  [] step = "mkdir" -> 7 [] step = "stat" -> 6
      [] step = "create" -> 5 [] step = "fill" -> 4 [] step = "shut" -> 3
      [] step = "rename" -> 2 [] step = "undo" -> 1
      [] step \in {"placed", "refused", "dead"} -> 0

\* What is left of opening the store and of the row.  Before its deadline the
\* conversion to WAL goes from attempt to pause and back; after it there is one
\* pause to end and one attempt to make.
LeftToStore(stand, late) ==
    CASE stand = "closed" -> 13    [] stand = "connect" -> 12
      [] stand = "wal" -> (IF late THEN 9 ELSE 11)
      [] stand = "backoff" -> (IF late THEN 10 ELSE 11)
      [] stand = "converting" -> 8 [] stand = "begin" -> 7    [] stand = "check" -> 6
      [] stand = "apply" -> 5      [] stand = "stamp" -> 4    [] stand = "commit" -> 3
      [] stand = "open" -> 2       [] stand = "insert" -> 1
      [] stand \in {"recorded", "failed", "dead"} -> 0

Stored(r) == LeftToStore(session[r], r \in overdue)

\* More steps than a run can still take, its retries not counted, whatever the
\* others do.
Left(r) == 9 * Ahead(pc[r]) + LeftToWrite(write[r]) + Stored(r)

\* The run pauses or asks again for the conversion to WAL, in time.
Retries(r) ==
    /\ {session[r], session'[r]} = {"wal", "backoff"}
    /\ r \notin overdue /\ r \notin overdue'

\* The steps a run may still take become fewer with each it takes and with the
\* passing of its deadline, and no more with anything that another does.  Only
\* the retries of convertToWAL leave as many, and none is made past the deadline.
EveryStepCounts ==
    [][\A r \in Runs :
          /\ Left(r)' <= Left(r)
          /\ Step(r) \/ Kill(r) \/ Deadline(r) => Left(r)' < Left(r) \/ Retries(r)]_vars

\* Some step of the run has its guard met: it is in a call it can go on with, or
\* has a result of one in hand.
MayGoOn(r) ==
    CASE pc[r] = "load" -> file[Config] \in Configs \cup {Absent}
      [] pc[r] = "materialize" -> write[r] \notin {"idle", "dead"}
      [] pc[r] = "open" ->
            /\ session[r] \notin {"insert", "recorded", "dead"}
            /\ session[r] = "apply" => tx[r].version \in {0, 1}
      [] pc[r] = "place" -> write[r] # "dead"
      [] pc[r] = "record" -> session[r] \in {"open", "insert", "recorded", "failed"}
      [] pc[r] \in {"validate", "render"} -> TRUE
      [] OTHER -> FALSE

\* A run that has not ended can go on, and one that has ended has no lock.
NoRunIsStuck ==
    \A r \in Runs : IF pc[r] = "gone" THEN lock # r ELSE MayGoOn(r)

LEMMA LeftOfStages ==
    /\ Ahead("validate") = 7 /\ Ahead("load") = 6   /\ Ahead("materialize") = 5
    /\ Ahead("open") = 4     /\ Ahead("place") = 3  /\ Ahead("record") = 2
    /\ Ahead("render") = 1   /\ Ahead("gone") = 0
  BY DEF Ahead

LEMMA LeftOfSteps ==
    /\ LeftToWrite("idle") = 8   /\ LeftToWrite("mkdir") = 7  /\ LeftToWrite("stat") = 6
    /\ LeftToWrite("create") = 5 /\ LeftToWrite("fill") = 4   /\ LeftToWrite("shut") = 3
    /\ LeftToWrite("rename") = 2 /\ LeftToWrite("undo") = 1   /\ LeftToWrite("placed") = 0
    /\ LeftToWrite("refused") = 0 /\ LeftToWrite("dead") = 0
  BY DEF LeftToWrite

Ranks(r) ==
    /\ session[r] = "closed" => Stored(r) = 13
    /\ session[r] = "connect" => Stored(r) = 12
    /\ session[r] = "wal" => Stored(r) = (IF r \in overdue THEN 9 ELSE 11)
    /\ session[r] = "backoff" => Stored(r) = (IF r \in overdue THEN 10 ELSE 11)
    /\ session[r] = "converting" => Stored(r) = 8
    /\ session[r] = "begin" => Stored(r) = 7
    /\ session[r] = "check" => Stored(r) = 6
    /\ session[r] = "apply" => Stored(r) = 5
    /\ session[r] = "stamp" => Stored(r) = 4
    /\ session[r] = "commit" => Stored(r) = 3
    /\ session[r] = "open" => Stored(r) = 2
    /\ session[r] = "insert" => Stored(r) = 1
    /\ session[r] \in {"recorded", "failed", "dead"} => Stored(r) = 0

LEMMA StoredIs == \A r \in Runs : Ranks(r)
  <1> SUFFICES ASSUME NEW r \in Runs PROVE Ranks(r)
    OBVIOUS
  <1> QED BY DEF Ranks, Stored, LeftToStore

LEMMA StoredIsThen == (\A r \in Runs : Ranks(r))'
  BY StoredIs, PTL

LEMMA LeftTypes ==
    /\ \A point \in Stages : Ahead(point) \in 0..7
    /\ \A step \in Steps : LeftToWrite(step) \in 0..8
    /\ \A r \in Runs : session[r] \in Sessions => Stored(r) \in 0..13
  BY LeftOfStages, LeftOfSteps, StoredIs DEF Ranks, Stages, Steps, Sessions

LEMMA LeftIsBounded ==
    ASSUME TypeOK, NEW r \in Runs
    PROVE  Left(r) \in 0..84
  <1>1. Ahead(pc[r]) \in 0..7 /\ LeftToWrite(write[r]) \in 0..8 /\ Stored(r) \in 0..13
    BY LeftTypes DEF TypeOK, AtomicFileTypeOK, DatabaseTypeOK
  <1> QED BY <1>1 DEF Left

\* A deadline is its run's own.
LEMMA OverdueIsOwn ==
    ASSUME NEW r \in Runs, Step(r) \/ Kill(r), NEW s \in Runs \ {r}
    PROVE  s \in overdue' <=> s \in overdue
  <1> USE DEF dbVars, dataVars
  <1>1. CASE Open(r)
    BY <1>1 DEF Open, New, OpenStep, Ping, ConvertToWAL, Backoff, ConvertedToWAL,
                BeginMigration, CheckVersion, ApplySchema, ApplyMigration0002, Applies,
                SetVersion, CommitMigration
  <1>2. CASE Kill(r)
    BY <1>2 DEF Kill, KillSession
  <1>3. CASE Step(r) /\ ~Open(r)
    BY <1>3 DEF Step, Validate, LoadConfig, Create, Materialized, NameRepo, Place, Placed,
                Record, StampAt, Insert, Recorded, Render
  <1> QED BY <1>1, <1>2, <1>3

\* A step of a call of createAtomic.
LEMMA CallGetsShorter ==
    ASSUME TypeOK, NEW r \in Runs, Create(r) \/ (Place(r) /\ UNCHANGED pc)
    PROVE  /\ UNCHANGED <<pc, session, overdue>>
           /\ LeftToWrite(write'[r]) < LeftToWrite(write[r])
           /\ write'[r] \in Steps \ {"idle", "dead"}
  <1> USE LeftOfSteps DEF TypeOK, AtomicFileTypeOK, Advance, Steps
  <1>1. UNCHANGED <<pc, session, overdue>>
    BY DEF Create, Place, saveVars, dbVars, dataVars
  <1>2. CASE Create(r)
    <2> USE <1>1, <1>2
    <2>1. CASE MkdirAll(r)
      BY <2>1 DEF MkdirAll
    <2>2. CASE Stat(r)
      BY <2>2 DEF Stat
    <2>3. CASE CreateTemp(r)
      BY <2>3 DEF CreateTemp
    <2>4. CASE Write(r)
      BY <2>4 DEF Write
    <2>5. CASE Close(r)
      BY <2>5 DEF Close
    <2>6. CASE Rename(r)
      BY <2>6 DEF Rename
    <2>7. CASE RemoveTemp(r)
      BY <2>7 DEF RemoveTemp
    <2> QED BY <1>1, <2>1, <2>2, <2>3, <2>4, <2>5, <2>6, <2>7 DEF Create, CreateStep
  <1>3. CASE Place(r) /\ UNCHANGED pc
    <2>1. write[r] = "idle" /\ write'[r] = "mkdir"
      BY <1>3 DEF Place, Call, Move
    <2> QED BY <1>1, <2>1
  <1> QED BY <1>2, <1>3

\* No call to the store is repeated but the conversion to WAL, and that not past
\* its deadline.
LEMMA StoreGetsNearer ==
    ASSUME TypeOK, NEW r \in Runs, Open(r) \/ Record(r)
    PROVE  /\ UNCHANGED <<pc, write>>
           /\ Stored(r)' < Stored(r) \/ (Retries(r) /\ Stored(r)' = Stored(r))
  <1> USE DEF TypeOK, DatabaseTypeOK, Go, Rollback
  <1>1. UNCHANGED <<pc, write>>
    BY DEF Open, Record, saveVars, fileVars
  <1> USE StoredIs, StoredIsThen DEF Ranks
  <1>2. CASE Record(r)
    <2>1. CASE StampAt(r)
      BY <1>1, <2>1 DEF StampAt
    <2>2. CASE Insert(r, RowOf(r))
      BY <1>1, <2>2 DEF Insert
    <2> QED BY <1>2, <2>1, <2>2 DEF Record
  <1>3. CASE Open(r)
    <2> USE <1>1
    <2>1. CASE New(r)
      BY <2>1 DEF New
    <2>2. CASE Ping(r)
      BY <2>2 DEF Ping
    <2>3. CASE ConvertToWAL(r)
      <3>1. CASE session'[r] = "backoff"
        BY <2>3, <3>1 DEF ConvertToWAL, SetJournalMode, Retries
      <3>2. CASE session'[r] # "backoff"
        BY <2>3, <3>2 DEF ConvertToWAL, SetJournalMode
      <3> QED BY <3>1, <3>2
    <2>4. CASE Backoff(r)
      BY <2>4 DEF Backoff, Retries
    <2>5. CASE ConvertedToWAL(r)
      BY <2>5 DEF ConvertedToWAL
    <2>6. CASE BeginMigration(r)
      BY <2>6 DEF BeginMigration
    <2>7. CASE CheckVersion(r)
      BY <2>7 DEF CheckVersion
    <2>8. CASE ApplySchema(r) \/ ApplyMigration0002(r)
      BY <2>8 DEF ApplySchema, ApplyMigration0002, Applies
    <2>9. CASE SetVersion(r)
      BY <2>9 DEF SetVersion
    <2>10. CASE CommitMigration(r)
      BY <2>10 DEF CommitMigration
    <2> QED BY <1>3, <2>1, <2>2, <2>3, <2>4, <2>5, <2>6, <2>7, <2>8, <2>9, <2>10
            DEF Open, OpenStep
  <1> QED BY <1>2, <1>3

\* A step of Save's own, from one call to the next or to the end.
LEMMA SaveGetsNearer ==
    ASSUME TypeOK, NEW r \in Runs,
           \/ Validate(r) \/ LoadConfig(r) \/ Materialized(r) \/ NameRepo(r)
           \/ (Place(r) /\ pc' # pc) \/ Placed(r) \/ Recorded(r) \/ Render(r)
    PROVE  /\ UNCHANGED <<session, overdue>>
           /\ Ahead(pc'[r]) < Ahead(pc[r])
           /\ write'[r] = write[r] \/ write'[r] \in {"idle", "mkdir"}
           /\ pc'[r] = "materialize" => write'[r] = "mkdir"
  <1> USE LeftOfStages DEF TypeOK, AtomicFileTypeOK, Move, Exit, fileVars, dbVars, dataVars
  <1>1. CASE Validate(r)
    BY <1>1 DEF Validate
  <1>2. CASE LoadConfig(r)
    BY <1>2 DEF LoadConfig, Call, Advance
  <1>3. CASE Materialized(r) \/ Placed(r)
    BY <1>3 DEF Materialized, Placed, Return, Advance
  <1>4. CASE NameRepo(r) \/ Recorded(r) \/ Render(r)
    BY <1>4 DEF NameRepo, Recorded, Render
  <1>5. CASE Place(r) /\ pc' # pc
    BY <1>5 DEF Place
  <1> QED BY <1>1, <1>2, <1>3, <1>4, <1>5

LEMMA KillIsTheEnd ==
    ASSUME TypeOK, NEW r \in Runs, Kill(r)
    PROVE  /\ pc[r] # "gone" /\ pc'[r] = "gone"
           /\ write'[r] = "dead" /\ session'[r] = "dead"
  BY DEF TypeOK, AtomicFileTypeOK, DatabaseTypeOK, Kill, Move, KillWriter, KillSession

LEMMA OwnStepCounts ==
    ASSUME TypeOK, TypeOK', NEW r \in Runs, Step(r) \/ Kill(r)
    PROVE  Left(r)' < Left(r) \/ (Retries(r) /\ Left(r)' = Left(r))
  <1> DEFINE a == Ahead(pc[r])  w == LeftToWrite(write[r])  s == Stored(r)
  <1>1. a \in 0..7 /\ w \in 0..8 /\ s \in 0..13
    BY LeftTypes DEF TypeOK, AtomicFileTypeOK, DatabaseTypeOK
  <1>2. a' \in 0..7 /\ w' \in 0..8 /\ s' \in 0..13
    <2>1. session'[r] \in Sessions => Stored(r)' \in 0..13
      BY StoredIsThen DEF Ranks, Sessions
    <2> QED BY <2>1, LeftTypes DEF TypeOK, AtomicFileTypeOK, DatabaseTypeOK
  <1>3. \/ a' = a /\ w' < w /\ s' = s
        \/ a' = a /\ w' = w /\ (s' < s \/ (Retries(r) /\ s' = s))
        \/ a' < a /\ s' <= s
    <2>1. CASE Create(r) \/ (Place(r) /\ UNCHANGED pc)
      BY <2>1, CallGetsShorter DEF Stored
    <2>2. CASE Open(r) \/ Record(r)
      BY <2>2, StoreGetsNearer
    <2>3. CASE \/ Validate(r) \/ LoadConfig(r) \/ Materialized(r) \/ NameRepo(r)
               \/ (Place(r) /\ pc' # pc) \/ Placed(r) \/ Recorded(r) \/ Render(r)
      <3>1. s' = s /\ a' < a
        BY <2>3, SaveGetsNearer DEF Stored
      <3> HIDE DEF a, s
      <3> QED BY <1>1, <3>1
    <2>4. CASE Kill(r)
      <3>1. a' < a
        BY <2>4, KillIsTheEnd, LeftOfStages DEF TypeOK, Stages
      <3>2. s' = 0
        BY <2>4, KillIsTheEnd, StoredIsThen DEF Ranks
      <3> HIDE DEF a, s
      <3> QED BY <1>1, <3>1, <3>2
    <2> QED BY <2>1, <2>2, <2>3, <2>4 DEF Step
  <1>4. Left(r) = 9 * a + w + s /\ Left(r)' = 9 * a' + w' + s'
    BY DEF Left
  <1>5. CASE a' < a /\ s' <= s
    <2>1. 9 * a' + 9 <= 9 * a
      BY <1>1, <1>2, <1>5
    <2> QED BY <1>1, <1>2, <1>4, <1>5, <2>1
  <1> QED BY <1>1, <1>2, <1>3, <1>4, <1>5

\* The deadline leaves one pause and one attempt at most.
LEMMA DeadlineCounts ==
    ASSUME TypeOK, TypeOK', NEW r \in Runs, Deadline(r)
    PROVE  Left(r)' < Left(r)
  <1>1. /\ UNCHANGED <<pc, write, session>>
        /\ session[r] \in {"wal", "backoff"} /\ r \notin overdue /\ r \in overdue'
    BY DEF Deadline, DeadlinePasses, fileVars, saveVars
  <1>2. Stored(r) = 11
    BY <1>1, StoredIs DEF Ranks
  <1>3. Stored(r)' \in {9, 10}
    BY <1>1, StoredIsThen DEF Ranks
  <1>4. Ahead(pc[r]) \in 0..7 /\ LeftToWrite(write[r]) \in 0..8
    BY LeftTypes DEF TypeOK, AtomicFileTypeOK
  <1> QED BY <1>1, <1>2, <1>3, <1>4 DEF Left

\* Nor does anything others do give a run more to do.
LEMMA OthersCountNothing ==
    ASSUME TypeOK, NEW r \in Runs,
           \/ Outside /\ ~Deadline(r)
           \/ \E s \in Runs \ {r} : Step(s) \/ Kill(s)
    PROVE  Left(r)' = Left(r)
  <1>1. CASE Outside /\ ~Deadline(r)
    <2>1. UNCHANGED <<pc, write, session>>
      BY <1>1, OutsideFrame DEF saveVars
    <2>2. r \in overdue' <=> r \in overdue
      BY <1>1 DEF Outside, EditConfig, Seconds, Tick, AllGone, Deadline, DeadlinePasses, vars,
                  dbVars, dataVars
    <2>3. Stored(r)' = Stored(r)
      BY <2>1, <2>2 DEF Stored, LeftToStore
    <2> QED BY <2>1, <2>3 DEF Left
  <1>2. ASSUME NEW s \in Runs \ {r}, Step(s) \/ Kill(s)
        PROVE  Left(r)' = Left(r)
    <2>1. UNCHANGED <<pc[r], write[r], session[r]>>
      BY <1>2, StepsAreOwn DEF OwnVars
    <2>2. r \in overdue' <=> r \in overdue
      BY <1>2, OverdueIsOwn
    <2>3. Stored(r)' = Stored(r)
      BY <2>1, <2>2 DEF Stored, LeftToStore
    <2> QED BY <2>1, <2>3 DEF Left
  <1> QED BY <1>1, <1>2

\* The safety half of EveryRunEnds: a run has at most 84 steps to take, however
\* often it is refused the lock and whoever interferes, but for the retries it
\* makes while its deadline can still pass.
THEOREM EveryStepAlwaysCounts == Spec => EveryStepCounts
  <1> DEFINE Counts ==
        \A r \in Runs :
           /\ Left(r)' <= Left(r)
           /\ Step(r) \/ Kill(r) \/ Deadline(r) => Left(r)' < Left(r) \/ Retries(r)
  <1>1. ASSUME TypeOK, TypeOK', [Next]_vars PROVE Counts
    <2> SUFFICES ASSUME NEW r \in Runs
                 PROVE  /\ Left(r)' <= Left(r)
                        /\ Step(r) \/ Kill(r) \/ Deadline(r) =>
                              Left(r)' < Left(r) \/ Retries(r)
      OBVIOUS
    <2>1. Left(r) \in Int /\ Left(r)' \in Int
      <3>1. Left(r) \in 0..84
        BY <1>1, LeftIsBounded
      <3>2. (Left(r) \in 0..84)'
        BY <1>1, LeftIsBounded, PTL
      <3> QED BY <3>1, <3>2
    <2>2. CASE Step(r) \/ Kill(r)
      BY <1>1, <2>1, <2>2, OwnStepCounts, DeadlineCounts
    <2>3. CASE Deadline(r)
      BY <1>1, <2>1, <2>3, OwnStepCounts, DeadlineCounts
    <2>4. CASE ~(Step(r) \/ Kill(r) \/ Deadline(r))
      <3>1. Left(r)' = Left(r)
        BY <1>1, <2>4, NextCases, OthersCountNothing
      <3> QED BY <2>1, <2>4, <3>1
    <2> QED BY <2>2, <2>3, <2>4
  <1>2. TypeOK /\ TypeOK' /\ [Next]_vars => [Counts]_vars
    BY <1>1
  <1> QED BY <1>2, TypeCorrect, PTL DEF Spec, EveryStepCounts

\* The call a run is in is one it can go on with.
Standing(r) ==
    /\ pc[r] # "gone" => write[r] # "dead"
    /\ pc[r] = "materialize" => write[r] # "idle"

LEMMA StaysStanding ==
    ASSUME TypeOK, TypeOK', NEW r \in Runs, Step(r) \/ Kill(r), Standing(r), SessionAt(r)'
    PROVE  Standing(r)'
  <1> USE DEF Standing
  <1>1. CASE Create(r) \/ (Place(r) /\ UNCHANGED pc)
    BY <1>1, CallGetsShorter
  <1>2. CASE Open(r) \/ Record(r)
    <2>1. pc[r] \in {"open", "record"}
      BY <1>2 DEF Open, Record
    <2> QED BY <1>2, <2>1, StoreGetsNearer DEF SessionAt
  <1>3. CASE NameRepo(r)
    <2>1. session[r] \in {"open", "failed"} /\ pc[r] = "open" /\ pc'[r] \in {"place", "gone"}
          /\ UNCHANGED <<session, write>>
      BY <1>3 DEF NameRepo, Move, Exit, fileVars, dbVars, dataVars, TypeOK
    <2> QED BY <2>1
  <1>4. CASE \/ Validate(r) \/ LoadConfig(r) \/ Materialized(r)
             \/ (Place(r) /\ pc' # pc) \/ Placed(r) \/ Recorded(r) \/ Render(r)
    <2>1. pc[r] \in Stages \ {"open", "gone"}
      BY <1>4 DEF TypeOK, Validate, LoadConfig, Materialized, Place, Placed, Recorded, Render,
                  Move, Exit, Stages
    <2> QED BY <1>4, <2>1, SaveGetsNearer
  <1>5. CASE Kill(r)
    BY <1>5, KillIsTheEnd
  <1> QED BY <1>1, <1>2, <1>3, <1>4, <1>5 DEF Step

LEMMA NextStanding ==
    ASSUME FilesInv, TypeOK', EndsInv', \A r \in Runs : Standing(r), [Next]_vars
    PROVE  \A r \in Runs : Standing(r)'
  <1>t. TypeOK
    BY DEF FilesInv
  <1>1. ASSUME NEW r \in Runs, Step(r) \/ Kill(r), NEW s \in Runs
        PROVE  Standing(s)'
    <2>1. CASE s = r
      BY <1>t, <1>1, <2>1, StaysStanding DEF EndsInv, RunInv
    <2>2. CASE s # r
      BY <1>t, <1>1, <2>2, StepsAreOwn DEF OwnVars, Standing
    <2> QED BY <2>1, <2>2
  <1>2. CASE Outside
    BY <1>2, OutsideFrame DEF saveVars, Standing
  <1> QED BY <1>1, <1>2, NextCases

\* Whatever was killed, failed or locked, no run is left without a step to take
\* before it is gone, and none takes the lock with it.
THEOREM NoRunIsEverStuck == Spec => []NoRunIsStuck
  <1> DEFINE Sound == OnlyDefaults /\ file[Config] \in Configs \cup {Absent}
  <1>1. Init => Sound /\ \A r \in Runs : Standing(r)
    BY ConstantTypes, SaveAssumption DEF Init, OnlyDefaults, Standing
  <1>s. FilesInv /\ Sound /\ [Next]_vars => Sound'
    BY ConfigSteps, SaveAssumption DEF FilesInv, Configs
  <1>2. FilesInv /\ FilesInv' /\ EndsInv' /\ (\A r \in Runs : Standing(r)) /\ [Next]_vars
            => (\A r \in Runs : Standing(r))'
    BY NextStanding DEF FilesInv
  <1>3. FilesInv /\ EndsInv /\ MigrationInv /\ Sound /\ (\A r \in Runs : Standing(r)) => NoRunIsStuck
    <2> SUFFICES ASSUME FilesInv, EndsInv, MigrationInv, Sound, NEW r \in Runs, Standing(r)
                 PROVE  IF pc[r] = "gone" THEN lock # r ELSE MayGoOn(r)
      BY DEF NoRunIsStuck
    <2>1. pc[r] \in Stages
      BY DEF FilesInv, TypeOK
    <2>2. CASE pc[r] = "gone"
      BY <2>2 DEF MigrationInv, OpenerHoldsLock
    <2>3. CASE pc[r] # "gone"
      BY <2>1, <2>3 DEF Standing, EndsInv, RunInv, SessionAt, MigrationInv, MayGoOn, Stages
    <2> QED BY <2>2, <2>3
  <1> QED BY <1>1, <1>s, <1>2, <1>3, FilesInvariant, EndsInvariant, MigrationInvariant, PTL DEF Spec

-----------------------------------------------------------------------------
(* Whose the files of the store are. *)

\* A file of the store appears or changes only when a run places its own.
LEMMA FileSteps ==
    ASSUME FilesInv, EndsInv, [Next]_vars, NEW path \in StorePaths, file'[path] # file[path]
    PROVE  \E r \in Runs : /\ Create(r) /\ pc[r] = "place" /\ target[r] = path
                           /\ path \in FilesOf(RowOf(r))
  <1> USE DEF FilesInv, TypeOK, AtomicFileTypeOK
  <1>1. ASSUME NEW r \in Runs, Create(r)
        PROVE  pc[r] = "place" /\ target[r] = path /\ path \in FilesOf(RowOf(r))
    <2>1. write[r] = "rename" /\ file' = [file EXCEPT ![target[r]] = temp[r]]
      BY <1>1 DEF Create, CreateStep, MkdirAll, Stat, CreateTemp, Write, Close, Rename,
                  RemoveTemp, Advance
    <2>2. target[r] = path
      BY <2>1, ConstantTypes
    <2>3. pc[r] = "place"
      BY <1>1, <2>2, SaveAssumption DEF Create, EndsInv, RunInv, TargetOf
    <2> QED BY <2>1, <2>2, <2>3 DEF FileBeforeRow
  <1>2. ASSUME NEW r \in Runs, Step(r), ~Create(r) PROVE UNCHANGED file
    BY <1>2 DEF Step, Validate, LoadConfig, Materialized, Open, NameRepo, Place, Placed,
                Record, Recorded, Render, Call, Return, fileVars
  <1>3. ASSUME NEW r \in Runs, Kill(r) PROVE UNCHANGED file
    BY <1>3 DEF Kill, KillWriter
  <1>4. CASE EditConfig
    BY <1>4, SaveAssumption DEF EditConfig
  <1>5. CASE Seconds \/ AllGone \/ UNCHANGED vars \/ \E r \in Runs : Deadline(r)
    BY <1>5 DEF Seconds, AllGone, Deadline, vars, fileVars
  <1> QED BY <1>1, <1>2, <1>3, <1>4, <1>5 DEF Next

\* A run that has come to its file keeps its document, repository and outcome.
LEMMA PlacersStay ==
    ASSUME TypeOK, [Next]_vars, NEW r \in Runs,
           pc[r] \in {"place", "record", "render", "gone"}
    PROVE  /\ pc'[r] \in {"place", "record", "render", "gone"}
           /\ UNCHANGED <<input[r], repo[r], outcome[r]>>
  <1>1. ASSUME Step(r) \/ Kill(r)
        PROVE  /\ pc'[r] \in {"place", "record", "render", "gone"}
               /\ UNCHANGED <<input[r], repo[r], outcome[r]>>
    BY <1>1 DEF TypeOK, Step, Validate, LoadConfig, Create, Materialized, Open, NameRepo,
                Place, Placed, Record, Recorded, Render, Kill, Move, Exit, saveVars
  <1>2. ASSUME NEW s \in Runs \ {r}, Step(s) \/ Kill(s) PROVE UNCHANGED OwnVars(r)
    BY <1>2, StepsAreOwn
  <1>3. CASE Outside
    BY <1>3, OutsideFrame DEF saveVars
  <1> QED BY <1>1, <1>2, <1>3, NextCases DEF OwnVars

LEMMA NextTrees ==
    ASSUME FilesInv, EndsInv, TreesTellTruth, [Next]_vars
    PROVE  TreesTellTruth'
  <1> SUFFICES ASSUME NEW path \in StorePaths, file'[path] # Absent
               PROVE  \E r \in Runs :
                         /\ Digest(Source(input'[r])) = path.digest
                         /\ repo'[r] = path.repo
                         /\ outcome'[r] = IF path.tree = "reviews" THEN "valid" ELSE "invalid"
                         /\ pc'[r] \in {"place", "record", "render", "gone"}
    BY DEF TreesTellTruth
  <1>t. TypeOK
    BY DEF FilesInv
  <1>1. PICK r \in Runs : /\ Digest(Source(input[r])) = path.digest
                          /\ repo[r] = path.repo
                          /\ outcome[r] = IF path.tree = "reviews" THEN "valid" ELSE "invalid"
                          /\ pc[r] \in {"place", "record", "render", "gone"}
    <2>1. CASE file'[path] = file[path]
      BY <2>1 DEF TreesTellTruth
    <2>2. CASE file'[path] # file[path]
      <3>1. PICK r \in Runs : pc[r] = "place" /\ path \in FilesOf(RowOf(r))
        BY <2>2, FileSteps
      <3>2. \/ /\ outcome[r] = "valid"
               /\ path = ReviewPath(repo[r], RefOf[input[r]], Digest(Source(input[r])))
            \/ /\ outcome[r] = "invalid"
               /\ path = RejectedPath(repo[r], Digest(Source(input[r])))
        BY <1>t, <3>1, FilesOfRun DEF TypeOK
      <3>3. \/ outcome[r] = "valid" /\ path.tree = "reviews"
            \/ outcome[r] = "invalid" /\ path.tree = "rejected"
        BY <3>2 DEF ReviewPath, RejectedPath
      <3>4. path.digest = Digest(Source(input[r])) /\ path.repo = repo[r]
        BY <3>2 DEF ReviewPath, RejectedPath
      <3> QED BY <3>1, <3>3, <3>4
    <2> QED BY <2>1, <2>2
  <1> QED BY <1>1, <1>t, PlacersStay

\* reviews/ and rejected/ hold what a run examined, under its repository, with
\* the outcome the tree stands for.
THEOREM TreesAlwaysTellTruth == Spec => []TreesTellTruth
  <1>1. Init => TreesTellTruth
    BY ConstantTypes, SaveAssumption DEF Init, TreesTellTruth
  <1>2. FilesInv /\ EndsInv /\ TreesTellTruth /\ [Next]_vars => TreesTellTruth'
    BY NextTrees
  <1> QED BY <1>1, <1>2, FilesInvariant, EndsInvariant, PTL DEF Spec

\* Who has been asked for a file of the store goes on until it is accounted for,
\* or fails.
LEMMA OwnersStay ==
    ASSUME FilesInv, EndsInv, [Next]_vars, NEW r \in Runs, target[r] \in StorePaths,
           exit[r] \in {Running, ExitTool}
    PROVE  \/ UNCHANGED target[r] /\ exit'[r] \in {Running, ExitTool}
           \/ \E i \in DOMAIN rows : target[r] \in FilesOf(rows[i])
  <1>t. TypeOK
    BY DEF FilesInv
  <1>c. target[r] # Config /\ RunInv(r)
    BY SaveAssumption DEF EndsInv
  <1>i. pc[r] \notin {"validate", "load", "materialize", "open"}
    BY <1>c DEF RunInv, TargetOf
  <1>1. ASSUME Render(r)
        PROVE  \E i \in DOMAIN rows : target[r] \in FilesOf(rows[i])
    <2>1. pc[r] = "render"
      BY <1>1 DEF Render, Move, Exit
    <2>2. session[r] = "recorded" /\ target[r] \in FilesOf(RowOf(r))
      BY <1>c, <2>1 DEF RunInv, SessionAt, TargetOf
    <2> QED BY <1>c, <2>2 DEF RunInv, RowOfRun
  <1>2. ASSUME Step(r), ~Render(r)
        PROVE  UNCHANGED target[r] /\ exit'[r] \in {Running, ExitTool}
    <2>1. CASE Place(r)
      <3>1. outcome[r] = "precondition"
        <4>1. pc[r] = "place" /\ (outcome[r] = "precondition" \/ write[r] = "idle")
          BY <2>1 DEF Place, Call, Advance
        <4> QED BY <1>c, <4>1 DEF RunInv, TargetOf
      <3> QED BY <2>1, <3>1 DEF Place, fileVars
    <2>2. CASE Create(r)
      BY <2>2 DEF Create, saveVars, CreateStep, MkdirAll, Stat, CreateTemp, Write, Close,
                  Rename, RemoveTemp
    <2>3. CASE Placed(r) \/ Record(r) \/ Recorded(r)
      BY <1>t, <2>3 DEF TypeOK, Placed, Record, Recorded, Return, Exit, Move, fileVars, saveVars
    <2>4. CASE \/ Validate(r) \/ LoadConfig(r) \/ Materialized(r)
               \/ Open(r) \/ NameRepo(r)
      BY <1>i, <2>4 DEF Validate, LoadConfig, Materialized, Open, NameRepo, Exit, Move
    <2> QED BY <1>2, <2>1, <2>2, <2>3, <2>4 DEF Step
  <1>3. CASE Kill(r)
    BY <1>3 DEF Kill, KillWriter
  <1>4. ASSUME NEW s \in Runs \ {r}, Step(s) \/ Kill(s) PROVE UNCHANGED OwnVars(r)
    BY <1>4, <1>t, StepsAreOwn
  <1>5. CASE Outside
    BY <1>5, OutsideFrame DEF saveVars
  <1> QED BY <1>1, <1>2, <1>3, <1>4, <1>5, NextCases DEF OwnVars

LEMMA NextOrphan ==
    ASSUME FilesInv, EndsInv, OrphanHasCause, [Next]_vars
    PROVE  OrphanHasCause'
  <1> SUFFICES ASSUME NEW path \in StorePaths, file'[path] # Absent
               PROVE  \/ \E i \in DOMAIN rows' : path \in FilesOf(rows'[i])
                      \/ \E r \in Runs : target'[r] = path /\ exit'[r] \in {Running, ExitTool}
    BY DEF OrphanHasCause, FilesOf, ReviewPath, RejectedPath
  <1>g. Grows
    BY RowsGrow DEF FilesInv
  <1>1. CASE file'[path] # file[path]
    <2>1. PICK r \in Runs : Create(r) /\ pc[r] = "place" /\ target[r] = path
      BY <1>1, FileSteps
    <2>2. exit[r] = Running
      BY <2>1 DEF EndsInv, RunInv, EndOf
    <2>3. UNCHANGED target[r] /\ UNCHANGED exit[r]
      BY <2>1 DEF Create, saveVars, CreateStep, MkdirAll, Stat, CreateTemp, Write, Close,
                  Rename, RemoveTemp
    <2> QED BY <2>1, <2>2, <2>3
  <1>2. CASE file'[path] = file[path]
    <2>1. \/ \E i \in DOMAIN rows : path \in FilesOf(rows[i])
          \/ \E r \in Runs : target[r] = path /\ exit[r] \in {Running, ExitTool}
      BY <1>2 DEF OrphanHasCause
    <2>2. CASE \E i \in DOMAIN rows : path \in FilesOf(rows[i])
      BY <1>g, <2>2 DEF Grows
    <2>3. ASSUME NEW r \in Runs, target[r] = path, exit[r] \in {Running, ExitTool}
          PROVE  \/ \E i \in DOMAIN rows' : path \in FilesOf(rows'[i])
                 \/ target'[r] = path /\ exit'[r] \in {Running, ExitTool}
      BY <1>g, <2>3, OwnersStay DEF Grows
    <2> QED BY <2>1, <2>2, <2>3
  <1> QED BY <1>1, <1>2

\* A file no row accounts for is that of a run that is on its way, was killed or
\* reported a failure.
THEOREM OrphansHaveCauses == Spec => []OrphanHasCause
  <1>1. Init => OrphanHasCause
    BY ConstantTypes, SaveAssumption DEF Init, OrphanHasCause
  <1>2. FilesInv /\ EndsInv /\ OrphanHasCause /\ [Next]_vars => OrphanHasCause'
    BY NextOrphan
  <1> QED BY <1>1, <1>2, FilesInvariant, EndsInvariant, PTL DEF Spec

-----------------------------------------------------------------------------
(* How readers end                                                         *)

\* Only a database that is there has a table, and only a table has rows.
WrittenInv ==
    /\ db.table # "none" => db.exists
    /\ rows # <<>> => db.table = "runs+assessment"

LEMMA NextWritten ==
    ASSUME TypeOK, MigrationInv, WrittenInv, [Next]_vars
    PROVE  WrittenInv'
  <1> USE DEF TypeOK, DatabaseTypeOK
  <1>1. CASE UNCHANGED <<db, rows>>
    BY <1>1 DEF WrittenInv
  <1>2. ASSUME NEW r \in Runs, Ping(r) \/ ConvertedToWAL(r) PROVE WrittenInv'
    <2>1. /\ UNCHANGED rows
          /\ \/ UNCHANGED db
             \/ db' = [db EXCEPT !.exists = TRUE]
             \/ db' = [db EXCEPT !.wal = TRUE]
      BY <1>2 DEF Ping, ConvertedToWAL
    <2>2. db'.table = db.table /\ (db.exists => db'.exists)
      BY <2>1 DEF Databases
    <2> QED BY <2>1, <2>2 DEF WrittenInv
  <1>3. ASSUME NEW r \in Runs, CommitMigration(r) PROVE WrittenInv'
    <2>1. UNCHANGED rows /\ session[r] = "commit"
      BY <1>3 DEF CommitMigration, Rollback, Go
    <2>2. tx[r].exists /\ tx[r].table = "runs+assessment"
      BY <2>1 DEF MigrationInv
    <2>3. UNCHANGED db \/ db' = tx[r]
      BY <1>3 DEF CommitMigration
    <2> QED BY <2>1, <2>2, <2>3 DEF WrittenInv
  <1>4. ASSUME NEW r \in Runs, Insert(r, RowOf(r)) PROVE WrittenInv'
    <2>1. UNCHANGED db
      BY <1>4 DEF Insert
    <2>2. UNCHANGED rows \/ db.table = "runs+assessment"
      BY <1>4 DEF Insert
    <2> QED BY <2>1, <2>2 DEF WrittenInv
  <1>5. ASSUME NEW r \in Runs,
               \/ New(r) \/ ConvertToWAL(r) \/ Backoff(r) \/ BeginMigration(r) \/ CheckVersion(r)
               \/ ApplySchema(r) \/ ApplyMigration0002(r) \/ SetVersion(r)
               \/ StampAt(r) \/ KillSession(r)
        PROVE  UNCHANGED <<db, rows>>
    BY <1>5 DEF New, ConvertToWAL, SetJournalMode, Backoff, BeginMigration, CheckVersion,
                ApplySchema, ApplyMigration0002, Applies, SetVersion, StampAt, KillSession
  <1> QED BY <1>1, <1>2, <1>3, <1>4, <1>5, DatabaseSteps DEF OpenStep

\* Whatever is done to the files, the database keeps its own promises.
DatabaseInv == TypeOK /\ MigrationInv /\ WrittenInv

LEMMA DatabaseStays ==
    ASSUME ReadersInv, DatabaseInv, [ReadersNext]_<<vars, readerVars>>, TypeOK'
    PROVE  DatabaseInv'
  <1>1. CASE [Next]_vars
    BY <1>1, NextMigration, NextWritten DEF DatabaseInv
  <1>2. CASE Tamper
    <2>1. UNCHANGED dbVars /\ UNCHANGED pc
      BY <1>2 DEF Tamper, saveVars
    <2> QED BY <2>1 DEF DatabaseInv, dbVars, dataVars, MigrationInv, LockHeld,
                        OpenerHoldsLock, SchemaMatchesVersion, NoStaleMigration, WrittenInv
  <1> QED BY <1>1, <1>2 DEF ReadersNext

-----------------------------------------------------------------------------
(* What a reader has of the log it was started on. *)

\* The repository p was asked about is known to it, if it was there.
KnowsRepo(p) ==
    \A i \in 1..since[p] : rows[i].repo = asked[p].repo => answer[p].known

\* The rows p was asked for are in its answer, if they were there.
ListsRows(p) ==
    \A i \in 1..since[p] : Matches(asked[p], rows[i]) =>
        \/ i \in answer[p].listed
        \/ asked[p].limit > 0 /\ Cardinality(answer[p].listed) = asked[p].limit
        \/ asked[p].command = "collect"
           /\ \E j \in answer[p].listed : rows[j].digest = rows[i].digest

\* The stages at which p has had the answer to the one question and the other.
HasKnown(p) ==
    /\ asked[p].command # "list"
    /\ ask[p] # "known" \/ stage[p] = "answered"

HasListed(p) ==
    /\ ask[p] = "rows"
    /\ stage[p] \in {"count", "answered", "content", "read"} \/ code[p] = ExitValid

Complete(p) ==
    /\ stage[p] = "resolve" => ask[p] = "known"
    /\ stage[p] = "enabled" => ask[p] = "enabled"
    /\ stage[p] \in {"count", "content", "read"} => ask[p] = "rows"
    /\ stage[p] # "gone" => code[p] = Running
    /\ code[p] = ExitValid => ask[p] = "rows"
    /\ HasKnown(p) => KnowsRepo(p)
    /\ HasListed(p) => ListsRows(p)

CompleteInv == \A p \in Readers : Complete(p)

\* Rows only come after the ones that were there.
LEMMA StaysComplete ==
    ASSUME ReadersInv, NEW p \in Readers, Complete(p),
           UNCHANGED <<asked, stage[p], ask[p], answer[p], since[p], code[p]>>,
           \A i \in DOMAIN rows : rows'[i] = rows[i]
    PROVE  Complete(p)'
  <1>1. 1..since[p] \subseteq DOMAIN rows
    BY RowsAreNumbered DEF ReadersInv, ReaderTypes
  <1>2. answer[p].listed \subseteq DOMAIN rows
    BY DEF ReadersInv, AnswersInv, Gathered, Matching
  <1>3. KnowsRepo(p) => KnowsRepo(p)'
    BY <1>1 DEF KnowsRepo
  <1>4. ListsRows(p) => ListsRows(p)'
    BY <1>1, <1>2 DEF ListsRows, Matches
  <1>5. HasKnown(p)' = HasKnown(p) /\ HasListed(p)' = HasListed(p)
    BY DEF HasKnown, HasListed
  <1> QED BY <1>3, <1>4, <1>5 DEF Complete

\* A store that is not there had no rows when p was started.
LEMMA NoStoreNoRows ==
    ASSUME ReadersInv, DatabaseInv, NEW p \in Readers, ~db.exists
    PROVE  KnowsRepo(p) /\ ListsRows(p)
  <1>1. rows = <<>> /\ Len(rows) = 0
    BY DEF DatabaseInv, WrittenInv
  <1>2. since[p] = 0
    BY <1>1 DEF ReadersInv, ReaderTypes
  <1>3. 1..since[p] = {}
    BY <1>2
  <1> QED BY <1>3 DEF KnowsRepo, ListsRows

\* A query sees every row that was there, and cuts its answer at the limit only.
LEMMA QueriesAreComplete ==
    ASSUME ReadersInv, NEW p \in Readers,
           NEW s \in IF asked[p].command = "collect" THEN EarliestOfDigests(Matching(asked[p]))
                     ELSE Newest(asked[p].limit, Matching(asked[p])),
           NEW i \in 1..since[p], Matches(asked[p], rows[i])
    PROVE  \/ i \in s
           \/ asked[p].limit > 0 /\ Cardinality(s) = asked[p].limit
           \/ asked[p].command = "collect" /\ \E j \in s : rows[j].digest = rows[i].digest
  <1>1. i \in DOMAIN rows
    BY RowsAreNumbered DEF ReadersInv, ReaderTypes
  <1>2. i \in Matching(asked[p])
    BY <1>1 DEF Matching
  <1>3. asked[p].limit \in Nat
    <2>1. asked[p] \in Queries
      BY ReviewsAssumption DEF ReadersInv, ReaderTypes
    <2> QED BY <2>1 DEF Queries
  <1>4. CASE asked[p].command = "collect"
    BY <1>2, <1>4 DEF EarliestOfDigests
  <1>5. CASE asked[p].command # "collect"
    BY <1>2, <1>3, <1>5 DEF Newest
  <1> QED BY <1>4, <1>5

\* Steps that gather nothing only move p on.
LEMMA MovesStayComplete ==
    ASSUME ReadersInv, DatabaseInv, UNCHANGED vars, NEW p \in Readers, Complete(p),
           UNCHANGED answer, ReaderStep(p), ~Count(p), ~ReadContent(p),
           ~(Query(p) /\ stage'[p] # "gone")
    PROVE  Complete(p)'
  <1> USE DEF Proceed, Finish, LoadsConfig
  <1> USE DEF ExitValid, ExitUsage, ExitTool, Running
  <1>0. /\ asked' = asked /\ p \in DOMAIN stage /\ p \in DOMAIN ask /\ p \in DOMAIN code
        /\ ask[p] \in {"known", "enabled", "rows"}
        /\ UNCHANGED rows
    BY ReaderStepFrame DEF ReadersInv, ReaderTypes, vars, dbVars, dataVars
  <1>1. stage[p] # "gone" /\ code[p] = Running
    BY <1>0, ReaderStepFrame DEF ReadersInv, Goes, Complete
  <1>2. UNCHANGED since => KnowsRepo(p)' = KnowsRepo(p) /\ ListsRows(p)' = ListsRows(p)
    BY <1>0 DEF KnowsRepo, ListsRows, Matches
  <1>3. CASE Resolve(p)
    <2>1. /\ stage[p] = "resolve" /\ stage'[p] \in {"load", "gone"}
          /\ stage'[p] # "gone" => code'[p] = Running
          /\ code'[p] # ExitValid
          /\ asked[p].command # "list" => ask'[p] = ask[p]
      BY <1>0, <1>1, <1>3 DEF Resolve
    <2>2. ~HasKnown(p)' /\ ~HasListed(p)'
      BY <1>0, <2>1 DEF HasKnown, HasListed, Complete
    <2> QED BY <2>1, <2>2 DEF Complete
  <1>4. CASE Load(p) \/ OpenReadOnly(p)
    <2>1. /\ stage[p] \in {"load", "open"} /\ stage'[p] \in {"exists", "query", "gone"}
          /\ ask' = ask /\ since' = since
          /\ stage'[p] # "gone" => code'[p] = Running
          /\ code'[p] # ExitValid
      BY <1>0, <1>1, <1>4 DEF Load, OpenReadOnly
    <2>2. ~HasListed(p)' /\ (HasKnown(p)' => HasKnown(p))
      BY <1>0, <2>1 DEF HasKnown, HasListed
    <2> QED BY <1>2, <2>1, <2>2 DEF Complete
  <1>5. CASE Exists(p)
    <2>1. /\ stage[p] = "exists" /\ stage'[p] \in {"open", "answered", "gone"}
          /\ ask' = ask /\ since' = since
          /\ stage'[p] = "answered" => ~db.exists
          /\ stage'[p] # "gone" => code'[p] = Running
          /\ code'[p] # ExitValid
      BY <1>0, <1>1, <1>5 DEF Exists
    <2>2. CASE stage'[p] = "answered"
      BY <1>2, <2>1, <2>2, NoStoreNoRows DEF Complete
    <2>3. CASE stage'[p] # "answered"
      <3>1. ~HasListed(p)' /\ (HasKnown(p)' => HasKnown(p))
        BY <1>0, <2>1, <2>3 DEF HasKnown, HasListed
      <3> QED BY <1>2, <2>1, <2>3, <3>1 DEF Complete
    <2> QED BY <2>2, <2>3
  <1>6. CASE Query(p)
    <2>1. /\ stage[p] = "query" /\ stage'[p] = "gone" /\ ask' = ask /\ since' = since
          /\ code'[p] = ExitTool
      BY <1>0, <1>1, <1>6 DEF Query
    <2>2. ~HasListed(p)' /\ (HasKnown(p)' => HasKnown(p))
      BY <1>0, <2>1 DEF HasKnown, HasListed
    <2> QED BY <1>2, <2>1, <2>2 DEF Complete
  <1>7. CASE NextQuestion(p)
    <2>1. /\ stage[p] = "answered" /\ code' = code /\ since' = since
          /\ ask[p] = "rows" => ask'[p] = "rows" /\ stage'[p] = "content"
          /\ ask[p] # "rows" => \/ ask'[p] = "enabled" /\ stage'[p] = "enabled"
                                \/ ask'[p] = "rows" /\ stage'[p] = "load"
      BY <1>0, <1>7 DEF NextQuestion
    <2>2. (HasListed(p)' => HasListed(p)) /\ (HasKnown(p)' => HasKnown(p))
      BY <1>0, <1>1, <2>1 DEF HasKnown, HasListed
    <2> QED BY <1>1, <1>2, <2>1, <2>2 DEF Complete
  <1>8. CASE StoreEnabled(p)
    <2>1. /\ stage[p] = "enabled" /\ stage'[p] \in {"answered", "gone"} /\ ask' = ask
          /\ stage'[p] # "gone" => code'[p] = Running
          /\ code'[p] # ExitValid /\ since' = since /\ ask[p] = "enabled"
      BY <1>0, <1>1, <1>8 DEF StoreEnabled, Complete
    <2>2. ~HasListed(p)' /\ (HasKnown(p)' => HasKnown(p))
      BY <1>0, <2>1 DEF HasKnown, HasListed
    <2> QED BY <1>2, <2>1, <2>2 DEF Complete
  <1>9. CASE ReviewPathOf(p) \/ Deliver(p)
    <2>1. /\ stage[p] = "content" /\ stage'[p] \in {"read", "gone"} /\ ask' = ask
          /\ stage'[p] # "gone" => code'[p] = Running
          /\ since' = since /\ ask[p] = "rows"
      BY <1>0, <1>1, <1>9 DEF ReviewPathOf, Deliver, Complete
    <2>2. HasListed(p) /\ (HasKnown(p)' => HasKnown(p))
      BY <1>0, <2>1 DEF HasKnown, HasListed
    <2> QED BY <1>2, <2>1, <2>2 DEF Complete
  <1> QED BY <1>3, <1>4, <1>5, <1>6, <1>7, <1>8, <1>9 DEF ReaderStep

\* What p gathers it gathers of the whole log, or has gathered already.
LEMMA StepStaysComplete ==
    ASSUME ReadersInv, DatabaseInv, UNCHANGED vars, NEW p \in Readers, Complete(p),
           ReaderStep(p)
    PROVE  Complete(p)'
  <1> USE DEF Proceed, Finish
  <1> USE DEF ExitValid, ExitTool, Running
  <1>0. /\ asked' = asked /\ p \in DOMAIN stage /\ p \in DOMAIN ask /\ p \in DOMAIN code
        /\ ask[p] \in {"known", "enabled", "rows"}
        /\ UNCHANGED rows /\ answer \in [Readers -> AnswerRecords]
    BY ReaderStepFrame DEF ReadersInv, ReaderTypes, vars, dbVars, dataVars
  <1>1. stage[p] # "gone" /\ code[p] = Running
    BY <1>0, ReaderStepFrame DEF ReadersInv, Goes, Complete
  \* Neither the known repository nor the listed rows change any more.
  <1>2. ASSUME UNCHANGED since, answer'[p].known = answer[p].known,
               answer'[p].listed = answer[p].listed
        PROVE  KnowsRepo(p)' = KnowsRepo(p) /\ ListsRows(p)' = ListsRows(p)
    BY <1>0, <1>2 DEF KnowsRepo, ListsRows, Matches
  <1>3. CASE OpenReadOnly(p) /\ answer' # answer
    <2>1. /\ stage[p] = "open" /\ stage'[p] = "query" /\ ask' = ask /\ since' = since
          /\ code' = code /\ answer' = [answer EXCEPT ![p].columns = db.version >= 2]
      BY <1>0, <1>3 DEF OpenReadOnly
    <2>2. answer'[p].known = answer[p].known /\ answer'[p].listed = answer[p].listed
      BY <1>0, <2>1 DEF AnswerRecords
    <2>3. ~HasListed(p)' /\ (HasKnown(p)' => HasKnown(p))
      BY <1>0, <1>1, <2>1 DEF HasKnown, HasListed
    <2> QED BY <1>1, <1>2, <2>1, <2>2, <2>3 DEF Complete
  <1>4. CASE Query(p) /\ stage'[p] # "gone" /\ ask[p] = "known"
    <2>1. /\ stage[p] = "query" /\ stage'[p] = "answered" /\ ask' = ask /\ since' = since
          /\ code' = code
          /\ answer' = [answer EXCEPT ![p].known =
                            \E i \in DOMAIN rows : rows[i].repo = asked[p].repo]
      BY <1>0, <1>4 DEF Query
    <2>2. answer'[p].known = \E i \in DOMAIN rows : rows[i].repo = asked[p].repo
      BY <1>0, <2>1 DEF AnswerRecords
    <2>3. KnowsRepo(p)'
      <3>1. 1..since[p] \subseteq DOMAIN rows
        BY RowsAreNumbered DEF ReadersInv, ReaderTypes
      <3> QED BY <1>0, <2>1, <2>2, <3>1 DEF KnowsRepo
    <2>4. ~HasListed(p)'
      BY <1>1, <1>4, <2>1 DEF HasListed
    <2> QED BY <1>1, <1>4, <2>1, <2>3, <2>4 DEF Complete
  <1>5. CASE Query(p) /\ stage'[p] # "gone" /\ ask[p] = "rows"
    <2>1. PICK s \in IF asked[p].command = "collect" THEN EarliestOfDigests(Matching(asked[p]))
                     ELSE Newest(asked[p].limit, Matching(asked[p])) :
             answer' = [answer EXCEPT ![p].listed = s]
      BY <1>0, <1>5 DEF Query
    <2>2. /\ stage[p] = "query" /\ stage'[p] \in {"answered", "count"} /\ ask' = ask
          /\ since' = since /\ code' = code
      BY <1>0, <1>5 DEF Query
    <2>3. answer'[p].known = answer[p].known /\ answer'[p].listed = s
      BY <1>0, <2>1 DEF AnswerRecords
    <2>4. ListsRows(p)'
      <3>1. \A i \in 1..since[p] : Matches(asked[p], rows[i]) =>
               \/ i \in s
               \/ asked[p].limit > 0 /\ Cardinality(s) = asked[p].limit
               \/ asked[p].command = "collect" /\ \E j \in s : rows[j].digest = rows[i].digest
        BY QueriesAreComplete
      <3> QED BY <1>0, <2>2, <2>3, <3>1 DEF ListsRows, Matches
    <2>5. KnowsRepo(p)' = KnowsRepo(p) /\ (HasKnown(p)' => HasKnown(p))
      BY <1>0, <1>5, <2>2, <2>3 DEF KnowsRepo, HasKnown
    <2> QED BY <1>1, <1>5, <2>2, <2>4, <2>5 DEF Complete
  <1>6. CASE Count(p)
    <2>1. /\ stage[p] = "count" /\ stage'[p] \in {"answered", "gone"} /\ ask' = ask
          /\ since' = since /\ code'[p] \in {Running, ExitTool}
          /\ stage'[p] # "gone" => code'[p] = Running
      BY <1>0, <1>1, <1>6 DEF Count
    <2>2. answer'[p].known = answer[p].known /\ answer'[p].listed = answer[p].listed
      BY <1>0, <1>6 DEF Count, AnswerRecords
    <2>3. HasListed(p) /\ ask[p] = "rows" /\ (HasKnown(p)' => HasKnown(p))
      BY <1>0, <2>1 DEF HasKnown, HasListed, Complete
    <2> QED BY <1>2, <2>1, <2>2, <2>3 DEF Complete
  <1>7. CASE ReadContent(p)
    <2>1. /\ stage[p] \in {"read", "content"} /\ stage'[p] = "content" /\ ask' = ask
          /\ since' = since /\ code' = code
      BY <1>0, <1>7 DEF ReadContent
    <2>2. answer'[p].known = answer[p].known /\ answer'[p].listed = answer[p].listed
      <3>1. PICK i, c : \/ answer' = [answer EXCEPT ![p].unread = @ \cup {i}]
                        \/ answer' = [answer EXCEPT ![p].shown =
                                         @ \cup {[row |-> i, content |-> c]}]
        BY <1>7 DEF ReadContent
      <3> QED BY <1>0, <3>1 DEF AnswerRecords
    <2>3. HasListed(p) /\ ask[p] = "rows" /\ (HasKnown(p)' => HasKnown(p))
      BY <1>0, <2>1 DEF HasKnown, HasListed, Complete
    <2> QED BY <1>1, <1>2, <2>1, <2>2, <2>3 DEF Complete
  <1>8. CASE UNCHANGED answer /\ ~Count(p) /\ ~ReadContent(p) /\ ~(Query(p) /\ stage'[p] # "gone")
    BY <1>8, MovesStayComplete
  <1>9. CASE Query(p)
    <2>1. ~(stage'[p] # "gone") => UNCHANGED answer
      BY <1>0, <1>9 DEF Query
    <2>2. stage'[p] # "gone" => ask[p] \in {"known", "rows"}
      BY <1>0, <1>9 DEF Query
    <2> QED BY <1>4, <1>5, <1>6, <1>7, <1>8, <1>9, <2>1, <2>2
  <1>10. CASE \/ Resolve(p) \/ Load(p) \/ Exists(p) \/ NextQuestion(p) \/ StoreEnabled(p)
              \/ ReviewPathOf(p) \/ Deliver(p)
    <2>1. UNCHANGED answer
      BY <1>10 DEF Resolve, Load, Exists, NextQuestion, StoreEnabled, ReviewPathOf, Deliver
    <2> QED BY <1>6, <1>7, <1>8, <1>9, <2>1
  <1> QED BY <1>3, <1>6, <1>7, <1>8, <1>9, <1>10 DEF ReaderStep

\* A step of one reader leaves the others their answers.
LEMMA StepAnswersAlone ==
    ASSUME ReadersInv, NEW p \in Readers, NEW q \in Readers \ {p}, ReaderStep(q)
    PROVE  UNCHANGED answer[p]
  <1>1. answer \in [Readers -> AnswerRecords]
    BY DEF ReadersInv, ReaderTypes
  <1>2. CASE \/ Resolve(q) \/ Load(q) \/ Exists(q) \/ NextQuestion(q) \/ StoreEnabled(q)
             \/ ReviewPathOf(q) \/ Deliver(q)
    BY <1>2 DEF Resolve, Load, Exists, NextQuestion, StoreEnabled, ReviewPathOf, Deliver
  <1>3. CASE OpenReadOnly(q) \/ Count(q)
    BY <1>1, <1>3 DEF OpenReadOnly, Count
  <1>4. CASE Query(q)
    BY <1>1, <1>4 DEF Query
  <1>5. CASE ReadContent(q)
    BY <1>1, <1>5 DEF ReadContent
  <1> QED BY <1>2, <1>3, <1>4, <1>5 DEF ReaderStep

LEMMA CompleteInvariant == ReadersSpec => [](DatabaseInv /\ CompleteInv)
  <1>1. ASSUME ReadersInit PROVE DatabaseInv /\ CompleteInv
    <2>1. Init /\ TypeOK /\ MigrationInv
      BY <1>1, InitTypes, InitMigration DEF ReadersInit
    <2>2. db \in StoresOnDisk /\ rows = <<>>
      BY <2>1, SaveAssumption DEF Init
    <2>3. WrittenInv
      BY <2>2 DEF StoresOnDisk, NoDatabase, WrittenInv
    <2>4. CompleteInv
      BY <1>1 DEF ReadersInit, CompleteInv, Complete, HasKnown, HasListed, Running, ExitValid
    <2> QED BY <2>1, <2>3, <2>4 DEF DatabaseInv
  <1>2. ASSUME ReadersInv, ReadersInv', DatabaseInv, CompleteInv,
               [ReadersNext]_<<vars, readerVars>>
        PROVE  DatabaseInv' /\ CompleteInv'
    <2>1. DatabaseInv'
      BY <1>2, DatabaseStays DEF ReadersInv, StoreInv
    <2>2. ASSUME NEW p \in Readers PROVE Complete(p)'
      <3>1. CASE UNCHANGED readerVars
        <4>1. \A i \in DOMAIN rows : rows'[i] = rows[i]
          <5>1. CASE [Next]_vars
            BY <1>2, <5>1, RowsStay DEF ReadersInv
          <5>2. CASE Tamper
            BY <5>2 DEF Tamper, dbVars, dataVars
          <5>3. CASE UNCHANGED vars
            BY <5>3 DEF vars, dbVars, dataVars
          <5> QED BY <1>2, <5>1, <5>2, <5>3 DEF ReadersNext
        <4> QED BY <1>2, <3>1, <4>1, StaysComplete DEF CompleteInv, readerVars
      <3>2. ASSUME NEW q \in Readers, ReaderStep(q), UNCHANGED vars PROVE Complete(p)'
        <4>1. CASE q = p
          BY <1>2, <3>2, <4>1, StepStaysComplete DEF CompleteInv
        <4>2. CASE q # p
          <5>1. /\ UNCHANGED asked /\ Goes(q) /\ Ends(q) /\ Asks(q)
                /\ UNCHANGED since \/ since' = [since EXCEPT ![q] = Len(rows)]
            BY <1>2, <3>2, ReaderStepFrame DEF ReadersInv
          <5>2. UNCHANGED <<stage[p], ask[p], since[p], code[p]>>
            BY <1>2, <4>2, <5>1 DEF ReadersInv, ReaderTypes, Goes, Ends, Asks
          <5>3. UNCHANGED answer[p]
            BY <1>2, <3>2, <4>2, StepAnswersAlone
          <5>4. \A i \in DOMAIN rows : rows'[i] = rows[i]
            BY <3>2 DEF vars, dbVars, dataVars
          <5> QED BY <1>2, <5>1, <5>2, <5>3, <5>4, StaysComplete DEF CompleteInv
        <4> QED BY <4>1, <4>2
      <3> QED BY <1>2, <3>1, <3>2 DEF ReadersNext, Tamper
    <2> QED BY <2>1, <2>2 DEF CompleteInv
  <1> QED BY <1>1, <1>2, ReadersInvariant, PTL DEF ReadersSpec

\* A reader that ends in exit 0 has missed no row that was in the log when it
\* was started, but for its limit, though every question is put to a database
\* opened anew while runs record, migrate and die and files are tampered with.
THEOREM AnswersAreComplete == ReadersSpec => []CompleteAnswer
  <1>1. ASSUME CompleteInv PROVE CompleteAnswer
    <2> SUFFICES ASSUME NEW p \in Readers, Answered(p), NEW i \in 1..since[p]
                 PROVE  /\ rows[i].repo = asked[p].repo =>
                               answer[p].known \/ asked[p].command = "list"
                        /\ Matches(asked[p], rows[i]) =>
                              \/ i \in answer[p].listed
                              \/ asked[p].limit > 0
                                 /\ Cardinality(answer[p].listed) = asked[p].limit
                              \/ asked[p].command = "collect"
                                 /\ \E j \in answer[p].listed : rows[j].digest = rows[i].digest
      BY DEF CompleteAnswer
    <2>1. Complete(p) /\ code[p] = ExitValid /\ ask[p] = "rows"
      BY <1>1 DEF CompleteInv, Answered, Complete
    <2>2. HasListed(p) /\ (asked[p].command # "list" => HasKnown(p))
      BY <2>1 DEF HasListed, HasKnown
    <2> QED BY <2>1, <2>2 DEF Complete, KnowsRepo, ListsRows
  <1> QED BY <1>1, CompleteInvariant, PTL

-----------------------------------------------------------------------------
(* Why a reader fails.                                                     *)

\* The config is not broken, and no run is about to break it.
ConfigInv == file[Config] # Malformed /\ OnlyDefaults

LEMMA NextConfig ==
    ASSUME StoreInv, ConfigInv, Malformed \notin Edits \cup {Defaults}, [Next]_vars \/ Tamper
    PROVE  ConfigInv'
  BY ConfigSteps DEF StoreInv, ConfigInv

\* A store once of a released version stays of one, and no reader asks for a
\* column that is not there yet.
VersionInv ==
    /\ db.version > 0
    /\ \A p \in Readers : answer[p].columns => db.version >= 2

\* Whatever stopped a reader was its own call.
StoppedInv == \A p \in Readers : code[p] = ExitTool => slips > 0

LEMMA NextVersion ==
    ASSUME TypeOK, MigrationInv, db.version > 0, [Next]_vars \/ Tamper
    PROVE  db'.version > 0 /\ (db.version >= 2 => db'.version >= 2)
  <1> USE DEF TypeOK, DatabaseTypeOK, Databases
  <1>1. ASSUME NEW r \in Runs, CommitMigration(r)
        PROVE  db'.version > 0 /\ (db.version >= 2 => db'.version >= 2)
    <2>1. session[r] = "commit" /\ (UNCHANGED db \/ db' = tx[r])
      BY <1>1 DEF CommitMigration, Rollback, Go
    <2>2. tx[r].version = 2
      BY <2>1 DEF MigrationInv, schemaVersion
    <2> QED BY <2>1, <2>2
  <1>2. ASSUME NEW r \in Runs, Ping(r) \/ ConvertedToWAL(r)
        PROVE  db'.version = db.version
    BY <1>2 DEF Ping, ConvertedToWAL
  <1>3. ASSUME NEW r \in Runs,
               \/ New(r) \/ ConvertToWAL(r) \/ Backoff(r) \/ BeginMigration(r) \/ CheckVersion(r)
               \/ ApplySchema(r) \/ ApplyMigration0002(r) \/ SetVersion(r)
               \/ StampAt(r) \/ Insert(r, RowOf(r)) \/ KillSession(r)
        PROVE  UNCHANGED db
    BY <1>3 DEF New, ConvertToWAL, SetJournalMode, Backoff, BeginMigration, CheckVersion,
                ApplySchema, ApplyMigration0002, Applies, SetVersion, StampAt, Insert, KillSession
  <1>4. CASE UNCHANGED db \/ Tamper
    BY <1>4 DEF Tamper, dbVars, dataVars
  <1> QED BY <1>1, <1>2, <1>3, <1>4, DatabaseSteps DEF OpenStep

\* From a store of a released version, and with a config that loads, every
\* question is answered unless a call of the reader fails.
LEMMA ReadersAreAnswered ==
    ASSUME ReadersInv, MigrationInv, ConfigInv, VersionInv, NEW p \in Readers
    PROVE  ConfigLoads /\ ~Locked /\ Answers(p)
  <1>1. db.wal /\ db.table # "none" /\ (db.version >= 2 => db.table = "runs+assessment")
    BY DEF MigrationInv, SchemaMatchesVersion, VersionInv, ReadersInv, StoreInv, TypeOK,
           DatabaseTypeOK, Databases
  <1>2. file[Config] # Partial
    BY ConstantTypes, AtomicFileAssumption DEF ReadersInv, StoreInv, TypeOK, AtomicFileTypeOK
  <1> QED BY <1>1, <1>2 DEF ConfigLoads, ConfigInv, Locked, Answers, VersionInv

LEMMA StopsHaveCauses ==
    ASSUME ReadersInv, MigrationInv, ConfigInv, VersionInv, StoppedInv, UNCHANGED vars,
           NEW p \in Readers, ReaderStep(p)
    PROVE  StoppedInv'
  <1>1. slips \in Nat /\ code \in [Readers -> ExitCodes \cup {Running}]
    BY DEF ReadersInv, ReaderTypes
  <1>2. Slip!Works \/ Slip!Fails
    BY ReaderStepFrame DEF ReadersInv
  <1>3. slips <= slips' /\ slips' \in Nat /\ (Slip!Fails => slips' > 0)
    BY <1>1, <1>2 DEF Slip!Works, Slip!Fails
  <1>4. ConfigLoads /\ ~Locked /\ Answers(p)
    BY ReadersAreAnswered
  <1>5. Slip!Fails \/ UNCHANGED code \/ \E c \in {ExitValid} : code' = [code EXCEPT ![p] = c]
    <2> USE <1>4 DEF LoadsConfig, Finish
    <2>1. CASE Resolve(p) \/ Load(p) \/ Exists(p) \/ OpenReadOnly(p)
      BY <2>1 DEF Resolve, Load, Exists, OpenReadOnly
    <2>2. CASE Query(p)
      BY <2>2 DEF Query
    <2>3. CASE Count(p) \/ NextQuestion(p) \/ StoreEnabled(p) \/ ReviewPathOf(p)
      BY <2>3 DEF Count, NextQuestion, StoreEnabled, ReviewPathOf
    <2>4. CASE ReadContent(p) \/ Deliver(p)
      BY <2>4 DEF ReadContent, Deliver
    <2> QED BY <2>1, <2>2, <2>3, <2>4 DEF ReaderStep
  <1>6. ASSUME NEW q \in Readers, code'[q] = ExitTool PROVE slips' > 0
    <2>1. CASE Slip!Fails
      BY <1>3, <2>1
    <2>2. CASE UNCHANGED code
      BY <1>1, <1>3, <1>6, <2>2 DEF StoppedInv
    <2>3. CASE code' = [code EXCEPT ![p] = ExitValid]
      <3>1. code[q] = ExitTool
        BY <1>1, <1>6, <2>3 DEF ExitValid, ExitTool
      <3> QED BY <1>1, <1>3, <3>1 DEF StoppedInv
    <2> QED BY <1>5, <2>1, <2>2, <2>3
  <1> QED BY <1>6 DEF StoppedInv

\* Only opening the database tells a reader which columns it has.
LEMMA ColumnsAreSeen ==
    ASSUME ReadersInv, VersionInv, UNCHANGED vars, NEW p \in Readers, ReaderStep(p)
    PROVE  VersionInv'
  <1>1. answer \in [Readers -> AnswerRecords] /\ UNCHANGED db
    BY DEF ReadersInv, ReaderTypes, vars, dbVars, dataVars
  <1>2. CASE \A q \in Readers : UNCHANGED answer[q].columns
    BY <1>1, <1>2 DEF VersionInv
  <1>3. CASE OpenReadOnly(p) /\ answer' = [answer EXCEPT ![p].columns = db.version >= 2]
    BY <1>1, <1>3 DEF VersionInv, AnswerRecords
  <1>4. \/ UNCHANGED answer
        \/ \E b : answer' = [answer EXCEPT ![p].known = b]
        \/ \E b : answer' = [answer EXCEPT ![p].listed = b]
        \/ \E b : answer' = [answer EXCEPT ![p].total = b]
        \/ \E b : answer' = [answer EXCEPT ![p].unread = @ \cup b]
        \/ \E b : answer' = [answer EXCEPT ![p].shown = @ \cup b]
        \/ OpenReadOnly(p) /\ answer' = [answer EXCEPT ![p].columns = db.version >= 2]
    <2>1. CASE \/ Resolve(p) \/ Load(p) \/ Exists(p) \/ NextQuestion(p) \/ StoreEnabled(p)
               \/ ReviewPathOf(p) \/ Deliver(p)
      BY <2>1 DEF Resolve, Load, Exists, NextQuestion, StoreEnabled, ReviewPathOf, Deliver
    <2>2. CASE OpenReadOnly(p) \/ Count(p)
      BY <2>2 DEF OpenReadOnly, Count
    <2>3. CASE Query(p)
      BY <2>3 DEF Query
    <2>4. CASE ReadContent(p)
      BY <2>4 DEF ReadContent
    <2> QED BY <2>1, <2>2, <2>3, <2>4 DEF ReaderStep
  <1>5. CASE \/ UNCHANGED answer
             \/ \E b : answer' = [answer EXCEPT ![p].known = b]
             \/ \E b : answer' = [answer EXCEPT ![p].listed = b]
             \/ \E b : answer' = [answer EXCEPT ![p].total = b]
             \/ \E b : answer' = [answer EXCEPT ![p].unread = @ \cup b]
             \/ \E b : answer' = [answer EXCEPT ![p].shown = @ \cup b]
    BY <1>1, <1>2, <1>5 DEF AnswerRecords
  <1> QED BY <1>3, <1>4, <1>5

\* From a store of a released version, and where no config is broken, a reader
\* ends in exit 101 only if a call of its own fails, whoever migrates the store
\* meanwhile (NewReadOnly reads the version before it names a column).
THEOREM ToolErrorsHaveCauses ==
    ASSUME \A store \in Stores : store.version > 0,
           Malformed \notin Found \cup Edits \cup {Defaults, Absent}
    PROVE  ReadersSpec => []ToolErrorHasCause
  <1> DEFINE Inv == ConfigInv /\ VersionInv /\ StoppedInv
  <1>1. ASSUME ReadersInit PROVE Inv
    <2>1. Init /\ \A p \in Readers : ~answer[p].columns /\ code[p] # ExitTool
      BY <1>1 DEF ReadersInit, NoAnswer, Running, ExitTool
    <2>2. ConfigInv
      BY <2>1, ConstantTypes DEF Init, ConfigInv, OnlyDefaults
    <2>3. db.version > 0
      BY <2>1 DEF Init
    <2> QED BY <2>1, <2>2, <2>3 DEF VersionInv, StoppedInv
  <1>2. ASSUME ReadersInv, DatabaseInv, Inv, [ReadersNext]_<<vars, readerVars>> PROVE Inv'
    <2>1. ASSUME [Next]_vars \/ Tamper, UNCHANGED readerVars PROVE Inv'
      <3>1. ConfigInv'
        BY <1>2, <2>1, NextConfig DEF ReadersInv
      <3>2. VersionInv'
        BY <1>2, <2>1, NextVersion DEF DatabaseInv, VersionInv, readerVars
      <3>3. StoppedInv'
        BY <1>2, <2>1 DEF StoppedInv, readerVars
      <3> QED BY <3>1, <3>2, <3>3
    <2>2. ASSUME NEW p \in Readers, ReaderStep(p), UNCHANGED vars PROVE Inv'
      <3>1. ConfigInv'
        BY <1>2, <2>2 DEF ConfigInv, OnlyDefaults, vars, fileVars
      <3> QED BY <1>2, <2>2, <3>1, ColumnsAreSeen, StopsHaveCauses DEF DatabaseInv
    <2> QED BY <1>2, <2>1, <2>2 DEF ReadersNext, Tamper
  <1>3. Inv => ToolErrorHasCause
    BY DEF StoppedInv, ToolErrorHasCause
  <1> QED BY <1>1, <1>2, <1>3, ReadersInvariant, CompleteInvariant, PTL DEF ReadersSpec

=============================================================================
