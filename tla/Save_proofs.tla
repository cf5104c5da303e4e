----------------------------- MODULE Save_proofs -----------------------------
(***************************************************************************)
(* What holds of Save.tla for any number of runs, documents, repositories  *)
(* and failures.                                                           *)
(***************************************************************************)
EXTENDS Save, TLAPS

-----------------------------------------------------------------------------
(* Type correctness. *)

\* The constants Save is built on have the types its actions count on.
LEMMA ConstantTypes ==
    /\ Config \in Paths
    /\ StorePaths \subseteq Paths
    /\ Defaults \in Contents
    /\ Documents \subseteq Contents
    /\ Configs \subseteq Contents
    /\ 0 \in Times
    /\ NoDatabase \in Databases
  <1>1. /\ Config \in Paths /\ StorePaths \subseteq Paths /\ Defaults \in Contents
        /\ Documents \subseteq Contents /\ Configs \subseteq Contents
    BY SaveAssumption DEF Configs
  <1>2. 0 \in Times
    BY ProcessAssumption DEF Times
  <1>3. NoDatabase \in Databases
    BY DEF NoDatabase, Databases, Tables, schemaVersion
  <1> QED BY <1>1, <1>2, <1>3

\* Where a run's document goes, and what is written there.
LEMMA PlaceTypes ==
    ASSUME NEW d \in Docs, NEW n \in Repos
    PROVE  /\ Source(d) \in Documents
           /\ Truncate(Source(d)) \in Documents
           /\ Digest(Source(d)) \in Digests
           /\ ReviewPath(n, RefOf[d], Digest(Source(d))) \in StorePaths
           /\ RejectedPath(n, Digest(Source(d))) \in StorePaths
  <1>1. Source(d) \in Documents
    BY DEF Source, Documents
  <1>2. Truncate(Source(d)) \in Documents
    BY <1>1 DEF Truncate, Source, Documents
  <1>3. Digest(Source(d)) \in Digests
    BY DEF Digest, Digests
  <1>4. ReviewPath(n, RefOf[d], Digest(Source(d))) \in StorePaths
    BY <1>3, LayoutAssumption DEF ReviewPath, StorePaths, Trees
  <1>5. RejectedPath(n, Digest(Source(d))) \in StorePaths
    BY <1>3 DEF RejectedPath, StorePaths, Trees
  <1> QED BY <1>1, <1>2, <1>3, <1>4, <1>5

\* The steps of createAtomic keep the types of the files.  Rename is where the
\* types need to know that the temporary file is complete.
LEMMA CreateStepTypes ==
    ASSUME AtomicFileTypeOK, TempComplete, NEW r \in Runs, CreateStep(r)
    PROVE  AtomicFileTypeOK' /\ TempComplete'
  <1> USE DEF AtomicFileTypeOK, Steps, Advance, TempComplete
  <1>1. CASE MkdirAll(r)
    BY <1>1 DEF MkdirAll
  <1>2. CASE Stat(r)
    BY <1>2 DEF Stat
  <1>3. CASE CreateTemp(r)
    BY <1>3 DEF CreateTemp
  <1>4. CASE Write(r)
    BY <1>4 DEF Write
  <1>5. CASE Close(r)
    BY <1>5 DEF Close
  <1>6. CASE Rename(r)
    BY <1>6 DEF Rename
  <1>7. CASE RemoveTemp(r)
    BY <1>7 DEF RemoveTemp
  <1> QED BY <1>1, <1>2, <1>3, <1>4, <1>5, <1>6, <1>7 DEF CreateStep

\* So do a call, a return and a kill.
LEMMA CallTypes ==
    ASSUME AtomicFileTypeOK, TempComplete, NEW r \in Runs,
           \/ \E path \in Paths, data \in Contents : Call(r, path, data)
           \/ \E result \in {"placed", "refused"} : Return(r, result)
           \/ KillWriter(r)
    PROVE  AtomicFileTypeOK' /\ TempComplete'
  BY DEF AtomicFileTypeOK, Steps, Advance, TempComplete, Call, Return, KillWriter

\* The steps that open the database and insert a row keep its types.
LEMMA OpenTypes ==
    ASSUME DatabaseTypeOK(Rows), NEW r \in Runs, New(r) \/ OpenStep(r)
    PROVE  DatabaseTypeOK(Rows)'
  <1> USE DEF DatabaseTypeOK, Sessions, Go, Take, Free, Release, Rollback,
              Databases, Tables, schemaVersion
  <1>1. CASE New(r)
    BY <1>1 DEF New
  <1>2. CASE Ping(r)
    BY <1>2 DEF Ping
  <1>3. CASE ConvertToWAL(r)
    BY <1>3 DEF ConvertToWAL, SetJournalMode
  <1>0. CASE Backoff(r)
    BY <1>0 DEF Backoff
  <1>4. CASE ConvertedToWAL(r)
    <2>1. [db EXCEPT !.wal = TRUE] \in Databases
      OBVIOUS
    <2> HIDE DEF Databases, Tables, schemaVersion
    <2> QED BY <1>4, <2>1 DEF ConvertedToWAL
  <1>5. CASE BeginMigration(r)
    <2> HIDE DEF Databases, Tables, schemaVersion
    <2> QED BY <1>5 DEF BeginMigration
  <1>6. CASE CheckVersion(r)
    BY <1>6 DEF CheckVersion
  <1>a. /\ [tx[r] EXCEPT !.table = "runs+assessment"] \in Databases
        /\ [tx[r] EXCEPT !.version = schemaVersion] \in Databases
    <2>1. tx[r] \in Databases
      OBVIOUS
    <2> QED BY <2>1
  <1>b. /\ [tx EXCEPT ![r].table = "runs+assessment"] \in [Runs -> Databases]
        /\ [tx EXCEPT ![r].version = schemaVersion] \in [Runs -> Databases]
    <2> HIDE DEF Databases, schemaVersion
    <2> QED BY <1>a
  <1>c. ASSUME NEW version, NEW before, Applies(r, version, before)
        PROVE  DatabaseTypeOK(Rows)'
    <2>1. tx' \in [Runs -> Databases]
      <3> HIDE DEF Databases, schemaVersion
      <3> QED BY <1>c, <1>b DEF Applies
    <2>2. session' \in [Runs -> Sessions] /\ lock' \in Runs \cup {Nobody}
      BY <1>c DEF Applies
    <2> QED BY <1>c, <2>1, <2>2 DEF Applies
  <1>7. CASE ApplySchema(r)
    BY <1>7, <1>c DEF ApplySchema
  <1>8. CASE ApplyMigration0002(r)
    BY <1>8, <1>c DEF ApplyMigration0002
  <1>9. CASE SetVersion(r)
    BY <1>9, <1>b DEF SetVersion
  <1>10. CASE CommitMigration(r)
    BY <1>10 DEF CommitMigration
  <1> QED BY <1>0, <1>1, <1>2, <1>3, <1>4, <1>5, <1>6, <1>7, <1>8, <1>9, <1>10 DEF OpenStep

LEMMA RecordTypes ==
    ASSUME DatabaseTypeOK(Rows), NEW r \in Runs, NEW row \in Rows,
           \/ StampAt(r)
           \/ Insert(r, row)
           \/ KillSession(r)
           \/ DeadlinePasses(r)
           \/ DropLock(r) /\ UNCHANGED dataVars
    PROVE  DatabaseTypeOK(Rows)'
  <1> USE DEF DatabaseTypeOK, Sessions, Go, Free
  <1>1. CASE StampAt(r)
    BY <1>1 DEF StampAt
  <1>2. CASE Insert(r, row)
    <2>1. Append(rows, row) \in Seq(Rows)
      OBVIOUS
    <2> QED BY <1>2, <2>1 DEF Insert
  <1>3. CASE KillSession(r)
    BY <1>3 DEF KillSession, DropLock
  <1>4. CASE DeadlinePasses(r)
    BY <1>4 DEF DeadlinePasses
  <1>5. CASE DropLock(r) /\ UNCHANGED dataVars
    BY <1>5 DEF DropLock, dataVars
  <1> QED BY <1>1, <1>2, <1>3, <1>4, <1>5

\* The row a run inserts is a row.
LEMMA RowOfType ==
    ASSUME TypeOK, NEW r \in Runs
    PROVE  RowOf(r) \in Rows
  <1>1. input[r] \in Docs /\ repo[r] \in Repos /\ at[r] \in Times
    BY DEF TypeOK, DatabaseTypeOK
  <1>2. Digest(Source(input[r])) \in Digests
    BY <1>1, PlaceTypes
  <1>3. ExitOf(r) \in {ExitValid, ExitInvalid, ExitPrecondition}
    BY DEF TypeOK, ExitOf, ExitValid, ExitInvalid, ExitPrecondition
  <1>4. RefOf[input[r]] \in Refs \cup {NoRef}
    BY <1>1, LayoutAssumption
  <1> QED BY <1>1, <1>2, <1>3, <1>4 DEF RowOf, Rows

LEMMA InitTypes == Init => TypeOK /\ TempComplete
  <1> SUFFICES ASSUME Init PROVE TypeOK /\ TempComplete
    OBVIOUS
  <1> USE ConstantTypes DEF Init
  <1>1. AtomicFileTypeOK
    BY SaveAssumption DEF AtomicFileTypeOK, Steps
  <1>2. DatabaseTypeOK(Rows)
    <2>1. StoresOnDisk \subseteq Databases
      BY DEF StoresOnDisk, NoDatabase, Databases, Tables, schemaVersion
    <2>2. db \in Databases
      BY <2>1, SaveAssumption
    <2>3. rows \in Seq(Rows)
      OBVIOUS
    <2> QED BY <2>2, <2>3 DEF DatabaseTypeOK, Sessions
  <1>3. faults \in 0..MaxFaults
    BY FaultsAssumption
  <1> QED BY <1>1, <1>2, <1>3 DEF TypeOK, TempComplete, Stages

\* Every action of a run, of the operator or of the clock keeps the types.
LEMMA NextTypes ==
    ASSUME TypeOK, TempComplete, [Next]_vars
    PROVE  TypeOK' /\ TempComplete'
  <1> USE DEF TypeOK
  <1>f. ASSUME Works \/ Fails PROVE faults' \in 0..MaxFaults
    BY <1>f, FaultsAssumption DEF Works, Fails
  <1>s. ASSUME UNCHANGED saveVars
        PROVE  /\ pc' \in [Runs -> Stages]
               /\ input' \in [Runs -> Docs]
               /\ outcome' \in [Runs -> {"valid", "invalid", "precondition"}]
               /\ repo' \in [Runs -> Repos]
               /\ exit' \in [Runs -> ExitCodes \cup {Running}]
    BY <1>s DEF saveVars
  <1>w. ASSUME UNCHANGED fileVars PROVE AtomicFileTypeOK' /\ TempComplete'
    BY <1>w DEF fileVars, AtomicFileTypeOK, TempComplete
  <1>d. ASSUME UNCHANGED dbVars PROVE DatabaseTypeOK(Rows)'
    BY <1>d DEF dbVars, dataVars, DatabaseTypeOK
  <1>e. ASSUME UNCHANGED dataVars, UNCHANGED lock \/ \E r \in Runs : DropLock(r)
        PROVE  DatabaseTypeOK(Rows)'
    <2>1. CASE UNCHANGED lock
      BY <1>e, <2>1, <1>d DEF dbVars, dataVars
    <2>2. CASE \E r \in Runs : DropLock(r)
      BY <1>e, <2>2, RecordTypes, RowOfType
    <2> QED BY <1>e, <2>1, <2>2
  <1> USE DEF Move, Exit, Stages, ExitCodes
  <1>1. ASSUME NEW r \in Runs, Validate(r) PROVE TypeOK' /\ TempComplete'
    BY <1>1, <1>f, <1>w, <1>e DEF Validate, Outcomes
  <1>2. ASSUME NEW r \in Runs, LoadConfig(r) PROVE TypeOK' /\ TempComplete'
    BY <1>2, <1>f, <1>w, <1>e, CallTypes, ConstantTypes DEF LoadConfig
  <1>3. ASSUME NEW r \in Runs, Create(r) PROVE TypeOK' /\ TempComplete'
    <2>1. Works \/ Fails
      BY <1>3 DEF Create, CreateStep, MkdirAll, Stat, CreateTemp, Write, Close,
                  Rename, RemoveTemp
    <2> QED BY <1>3, <2>1, <1>f, <1>s, <1>d, CreateStepTypes DEF Create
  <1>4. ASSUME NEW r \in Runs, Materialized(r) PROVE TypeOK' /\ TempComplete'
    BY <1>4, <1>f, <1>e, CallTypes DEF Materialized
  <1>5. ASSUME NEW r \in Runs, Open(r) PROVE TypeOK' /\ TempComplete'
    <2>1. Works \/ Fails
      BY <1>5 DEF Open, New, OpenStep, Ping, ConvertToWAL, SetJournalMode, Backoff, ConvertedToWAL,
                  BeginMigration, CheckVersion, ApplySchema, ApplyMigration0002,
                  Applies, SetVersion, CommitMigration
    <2> QED BY <1>5, <2>1, <1>f, <1>s, <1>w, OpenTypes DEF Open
  <1>6. ASSUME NEW r \in Runs, NameRepo(r) PROVE TypeOK' /\ TempComplete'
    BY <1>6, <1>f, <1>w, <1>e DEF NameRepo
  <1>7. ASSUME NEW r \in Runs, Place(r) PROVE TypeOK' /\ TempComplete'
    <2>1. AtomicFileTypeOK' /\ TempComplete'
      BY <1>7, <1>w, CallTypes, ConstantTypes, PlaceTypes DEF Place
    <2> QED BY <1>7, <2>1, <1>f, <1>d DEF Place
  <1>8. ASSUME NEW r \in Runs, Placed(r) PROVE TypeOK' /\ TempComplete'
    BY <1>8, <1>f, <1>e, CallTypes DEF Placed
  <1>9. ASSUME NEW r \in Runs, Record(r) PROVE TypeOK' /\ TempComplete'
    <2>1. Works \/ Fails
      BY <1>9 DEF Record, StampAt, Insert
    <2> QED BY <1>9, <2>1, <1>f, <1>s, <1>w, RecordTypes, RowOfType DEF Record
  <1>10. ASSUME NEW r \in Runs, Recorded(r) PROVE TypeOK' /\ TempComplete'
    BY <1>10, <1>f, <1>w, <1>e DEF Recorded
  <1>11. ASSUME NEW r \in Runs, Render(r) PROVE TypeOK' /\ TempComplete'
    <2>1. ExitOf(r) \in ExitCodes
      BY DEF ExitOf
    <2> QED BY <1>11, <2>1, <1>f, <1>w, <1>e DEF Render
  <1>12. ASSUME NEW r \in Runs, Kill(r) PROVE TypeOK' /\ TempComplete'
    <2>1. DatabaseTypeOK(Rows)'
      BY <1>12, RecordTypes, RowOfType DEF Kill
    <2> QED BY <1>12, <2>1, <1>f, CallTypes DEF Kill
  <1>13. CASE EditConfig
    <2>1. AtomicFileTypeOK' /\ TempComplete'
      BY <1>13, SaveAssumption DEF EditConfig, AtomicFileTypeOK, TempComplete
    <2> QED BY <1>13, <2>1, <1>s, <1>d DEF EditConfig
  <1>14. CASE Seconds
    <2>1. now' \in Times
      BY <1>14, ProcessAssumption DEF Seconds, Tick, Times, DatabaseTypeOK
    <2>2. DatabaseTypeOK(Rows)'
      BY <1>14, <2>1 DEF Seconds, Tick, DatabaseTypeOK
    <2> QED BY <1>14, <2>2, <1>s, <1>w DEF Seconds, Tick
  <1>15. CASE UNCHANGED vars
    BY <1>15, <1>s, <1>w, <1>d DEF vars
  <1>16. ASSUME NEW r \in Runs, Deadline(r) PROVE TypeOK' /\ TempComplete'
    <2>1. RowOf(r) \in Rows
      BY RowOfType
    <2>3. DatabaseTypeOK(Rows)'
      BY <1>16, <2>1, RecordTypes DEF Deadline
    <2>2. Works
      BY <1>16 DEF Deadline, DeadlinePasses
    <2> QED BY <1>16, <2>2, <2>3, <1>f, <1>s, <1>w DEF Deadline
  <1> QED BY <1>1, <1>2, <1>3, <1>4, <1>5, <1>6, <1>7, <1>8, <1>9, <1>10, <1>11,
             <1>12, <1>13, <1>14, <1>15, <1>16 DEF Next, Step, AllGone

\* Every variable keeps its type, in every behaviour and for all constants.
THEOREM TypeCorrect == Spec => []TypeOK
  <1>1. TypeOK /\ TempComplete /\ [Next]_vars => (TypeOK /\ TempComplete)'
    BY NextTypes
  <1> QED BY <1>1, InitTypes, PTL DEF Spec

-----------------------------------------------------------------------------
(* No row without its file. *)

\* Which file accounts for a run is settled by its document, its repository
\* and its outcome; the time it stamps on the row has no part in it.
LEMMA FilesOfRun ==
    ASSUME TypeOK, NEW r \in Runs
    PROVE  FilesOf(RowOf(r)) =
             IF outcome[r] = "valid"
             THEN {ReviewPath(repo[r], RefOf[input[r]], Digest(Source(input[r])))}
             ELSE IF outcome[r] = "invalid"
             THEN {RejectedPath(repo[r], Digest(Source(input[r])))}
             ELSE {}
  <1>1. outcome[r] \in {"valid", "invalid", "precondition"}
    BY DEF TypeOK
  <1>2. ExitOf(r) = IF outcome[r] = "valid" THEN ExitValid
                    ELSE IF outcome[r] = "invalid" THEN ExitInvalid
                    ELSE ExitPrecondition
    BY <1>1 DEF ExitOf
  <1>3. /\ RowOf(r).exit = ExitOf(r)
        /\ RowOf(r).repo = repo[r]
        /\ RowOf(r).ref = RefOf[input[r]]
        /\ RowOf(r).digest = Digest(Source(input[r]))
    BY DEF RowOf
  <1>4. ExitValid # ExitInvalid /\ ExitValid # ExitPrecondition /\ ExitInvalid # ExitPrecondition
    BY DEF ExitValid, ExitInvalid, ExitPrecondition
  <1> QED BY <1>1, <1>2, <1>3, <1>4 DEF FilesOf

LEMMA FilesOfRunStays ==
    ASSUME TypeOK, TypeOK', UNCHANGED <<input, outcome, repo>>, NEW r \in Runs
    PROVE  FilesOf(RowOf(r))' = FilesOf(RowOf(r))
  <1>1. (FilesOf(RowOf(r)) =
             IF outcome[r] = "valid"
             THEN {ReviewPath(repo[r], RefOf[input[r]], Digest(Source(input[r])))}
             ELSE IF outcome[r] = "invalid"
             THEN {RejectedPath(repo[r], Digest(Source(input[r])))}
             ELSE {})'
    BY FilesOfRun, PTL
  <1> QED BY <1>1, FilesOfRun

\* What Save passes to createAtomic is what the path promises.
LEMMA PlaceKeepsPromises ==
    ASSUME NEW d \in Docs, NEW n \in Repos
    PROVE  /\ Promised(ReviewPath(n, RefOf[d], Digest(Source(d)))) = Source(d)
           /\ Promised(RejectedPath(n, Digest(Source(d)))) = Truncate(Source(d))
  BY DEF Promised, ReviewPath, RejectedPath, Digest

\* createAtomic never takes a promised file away and never shows a torn one.
LEMMA CreateKeepsFiles ==
    ASSUME FilesInv, NEW r \in Runs, CreateStep(r)
    PROVE  NoTornFile' /\ Kept \subseteq Kept' /\ CallsKeepPromises'
  <1> USE DEF FilesInv, TypeOK, AtomicFileTypeOK, Advance
  <1>1. UNCHANGED <<target, payload>>
    BY DEF CreateStep, MkdirAll, Stat, CreateTemp, Write, Close, Rename, RemoveTemp
  <1>2. CASE /\ write[r] = "rename" /\ write' = [write EXCEPT ![r] = "placed"]
             /\ file' = [file EXCEPT ![target[r]] = temp[r]]
    <2>1. temp[r] = payload[r] /\ payload[r] # Absent
      BY <1>2, AtomicFileAssumption DEF TempComplete
    <2>2. \A path \in StorePaths :
              file'[path] = file[path] \/ file'[path] = Promised(path)
      BY <1>2, <2>1, ConstantTypes DEF CallsKeepPromises
    <2>3. NoTornFile' /\ Kept \subseteq Kept'
      BY <2>2 DEF NoTornFile, Kept
    <2>4. \A p \in Paths : file[p] # Absent => file'[p] # Absent
      BY <1>2, <2>1
    <2>5. \A s \in Runs : write'[s] = "placed" => file'[target[s]] # Absent
      BY <1>2, <2>1, <2>4 DEF CallsKeepPromises
    <2> QED BY <1>1, <2>3, <2>5 DEF CallsKeepPromises
  <1>3. CASE /\ UNCHANGED file
             /\ \E step \in Steps :
                   /\ write' = [write EXCEPT ![r] = step]
                   /\ step = "placed" => file[target[r]] # Absent
    <2>1. NoTornFile' /\ Kept \subseteq Kept'
      BY <1>3 DEF NoTornFile, Kept
    <2>2. \A s \in Runs : write'[s] = "placed" => file[target[s]] # Absent
      BY <1>3 DEF CallsKeepPromises
    <2> QED BY <1>1, <1>3, <2>1, <2>2 DEF CallsKeepPromises
  <1>4. CASE Rename(r)
    BY <1>4, <1>2, <1>3 DEF Rename, Steps
  <1>5. CASE Stat(r)
    BY <1>5, <1>3 DEF Stat, Steps
  <1>6. CASE MkdirAll(r) \/ CreateTemp(r) \/ Write(r) \/ Close(r) \/ RemoveTemp(r)
    BY <1>6, <1>3 DEF MkdirAll, CreateTemp, Write, Close, RemoveTemp, Steps
  <1> QED BY <1>4, <1>5, <1>6 DEF CreateStep

\* A step that changes no file, and of the calls at most one run's own call.
LEMMA CallsStay ==
    ASSUME FilesInv, UNCHANGED file, NEW r \in Runs,
           \A s \in Runs \ {r} : UNCHANGED <<write[s], target[s], payload[s]>>,
           target'[r] \in StorePaths => payload'[r] = Promised(target'[r]),
           write'[r] # "placed" \/ UNCHANGED <<write[r], target[r]>>
    PROVE  NoTornFile' /\ CallsKeepPromises' /\ Kept' = Kept
  BY DEF FilesInv, NoTornFile, CallsKeepPromises, Kept

LEMMA InitFiles == Init => FilesInv
  <1> SUFFICES ASSUME Init PROVE FilesInv
    OBVIOUS
  <1>1. TypeOK /\ TempComplete
    BY InitTypes
  <1>2. NoTornFile
    BY ConstantTypes, SaveAssumption DEF Init, NoTornFile
  <1>3. CallsKeepPromises /\ FileBeforeRow
    BY SaveAssumption DEF Init, CallsKeepPromises, FileBeforeRow
  <1>4. RowHasFile
    BY DEF Init, RowHasFile
  <1> QED BY <1>1, <1>2, <1>3, <1>4 DEF FilesInv

\* Each action keeps the files whole, the calls honest and the order of file
\* and row.  The types are NextTypes.
LEMMA NextFiles ==
    ASSUME FilesInv, [Next]_vars
    PROVE  FilesInv'
  <1>t. TypeOK /\ TypeOK' /\ TempComplete'
    BY NextTypes DEF FilesInv
  <1>r. ASSUME UNCHANGED rows, Kept \subseteq Kept' PROVE RowHasFile'
    BY <1>r DEF RowHasFile, FilesInv
  <1>k. ASSUME UNCHANGED fileVars
        PROVE  NoTornFile' /\ CallsKeepPromises' /\ Kept' = Kept
    BY <1>k DEF fileVars, FilesInv, NoTornFile, CallsKeepPromises, Kept
  \* Steps of one run that leave every document, repository and outcome alone.
  <1>b. ASSUME NEW r \in Runs, UNCHANGED <<input, outcome, repo>>,
               \A s \in Runs \ {r} : UNCHANGED <<pc[s], write[s], target[s]>>,
               Kept \subseteq Kept',
               pc'[r] \in {"validate", "load", "open", "record", "render"} => write'[r] = "idle",
               pc'[r] = "place" /\ write'[r] # "idle" => target'[r] \in FilesOf(RowOf(r)),
               pc'[r] = "record" => FilesOf(RowOf(r)) \subseteq Kept'
        PROVE  FileBeforeRow'
    <2> SUFFICES ASSUME NEW s \in Runs
                 PROVE  (/\ pc[s] \in {"validate", "load", "open", "record", "render"}
                             => write[s] = "idle"
                         /\ pc[s] = "place" /\ write[s] # "idle"
                             => target[s] \in FilesOf(RowOf(s))
                         /\ pc[s] = "record" => FilesOf(RowOf(s)) \subseteq Kept)'
      BY DEF FileBeforeRow
    <2>1. FilesOf(RowOf(s))' = FilesOf(RowOf(s))
      BY <1>t, <1>b, FilesOfRunStays
    <2>2. CASE s = r
      BY <1>b, <2>1, <2>2
    <2>3. CASE s # r
      <3>1. UNCHANGED <<pc[s], write[s], target[s]>>
        BY <1>b, <2>3
      <3> QED BY <3>1, <2>1, <1>b DEF FilesInv, FileBeforeRow
    <2> QED BY <2>2, <2>3
  <1> USE DEF Move, Exit, saveVars
  <1>1. ASSUME NEW r \in Runs, Validate(r) PROVE FilesInv'
    <2>1. UNCHANGED fileVars /\ UNCHANGED dataVars /\ UNCHANGED <<input, repo>>
      BY <1>1 DEF Validate
    <2>2. NoTornFile' /\ CallsKeepPromises' /\ RowHasFile' /\ Kept' = Kept
      BY <2>1, <1>k, <1>r DEF dbVars, dataVars
    <2>3. FileBeforeRow'
      <3>1. /\ pc[r] = "validate" /\ pc' \in [Runs -> Stages]
            /\ pc'[r] \in {"load", "gone"}
            /\ \A s \in Runs \ {r} : pc'[s] = pc[s] /\ outcome'[s] = outcome[s]
        BY <1>1, <1>t DEF Validate, TypeOK
      <3>2. \A s \in Runs \ {r} : FilesOf(RowOf(s))' = FilesOf(RowOf(s))
        <4> TAKE s \in Runs \ {r}
        <4>1. RowOf(s)' = RowOf(s)
          BY <3>1, <2>1 DEF RowOf, ExitOf, dbVars, dataVars
        <4> QED BY <4>1 DEF FilesOf, ReviewPath, RejectedPath
      <3> QED BY <2>1, <2>2, <3>1, <3>2 DEF FileBeforeRow, FilesInv, fileVars
    <2> QED BY <1>t, <2>2, <2>3 DEF FilesInv
  <1>2. ASSUME NEW r \in Runs, LoadConfig(r) PROVE FilesInv'
    <2>1. UNCHANGED <<file, rows, input, outcome, repo>>
      BY <1>2 DEF LoadConfig, Call, fileVars, dbVars, dataVars
    <2>2. /\ pc[r] = "load" /\ pc'[r] \in {"materialize", "render", "gone"}
          /\ \A s \in Runs \ {r} :
                UNCHANGED <<pc[s], write[s], target[s], payload[s]>>
          /\ \/ UNCHANGED <<write, target, payload>>
             \/ pc'[r] = "materialize" /\ write'[r] = "mkdir" /\ target'[r] = Config
      BY <1>2, <1>t DEF LoadConfig, Call, Advance, fileVars, TypeOK, AtomicFileTypeOK
    <2>3. NoTornFile' /\ CallsKeepPromises' /\ Kept' = Kept
      BY <2>1, <2>2, CallsStay, SaveAssumption DEF FilesInv, CallsKeepPromises
    <2>4. FileBeforeRow'
      BY <2>1, <2>2, <2>3, <1>b DEF FilesInv, FileBeforeRow
    <2> QED BY <1>t, <1>r, <2>1, <2>3, <2>4 DEF FilesInv
  <1>3. ASSUME NEW r \in Runs, Create(r) PROVE FilesInv'
    <2>1. UNCHANGED <<rows, pc, input, outcome, repo, target>> /\ CreateStep(r)
      BY <1>3 DEF Create, dbVars, dataVars, CreateStep, MkdirAll, Stat, CreateTemp, Write,
                  Close, Rename, RemoveTemp
    <2>2. NoTornFile' /\ Kept \subseteq Kept' /\ CallsKeepPromises'
      BY <2>1, CreateKeepsFiles
    <2>3. /\ pc[r] \in {"materialize", "place"} /\ write[r] # "idle"
          /\ \A s \in Runs \ {r} : UNCHANGED write[s]
      BY <1>3, <1>t DEF Create, CreateStep, MkdirAll, Stat, CreateTemp, Write,
                  Close, Rename, RemoveTemp, Advance, TypeOK, AtomicFileTypeOK
    <2>4. FileBeforeRow'
      BY <2>1, <2>2, <2>3, <1>b DEF FilesInv, FileBeforeRow
    <2> QED BY <1>t, <1>r, <2>1, <2>2, <2>4 DEF FilesInv
  <1>4. ASSUME NEW r \in Runs, Materialized(r) PROVE FilesInv'
    <2>1. UNCHANGED <<file, rows, input, outcome, repo, target, payload>>
      BY <1>4 DEF Materialized, Return, dbVars, dataVars
    <2>2. /\ pc'[r] \in {"open", "gone"} /\ write'[r] = "idle"
          /\ \A s \in Runs \ {r} : UNCHANGED <<pc[s], write[s]>>
      BY <1>4, <1>t DEF Materialized, Return, Advance, TypeOK, AtomicFileTypeOK
    <2>3. NoTornFile' /\ CallsKeepPromises' /\ Kept' = Kept
      BY <2>1, <2>2, CallsStay DEF FilesInv, CallsKeepPromises
    <2>4. FileBeforeRow'
      BY <2>1, <2>2, <2>3, <1>b
    <2> QED BY <1>t, <1>r, <2>1, <2>3, <2>4 DEF FilesInv
  \* Steps that touch neither files nor rows, and leave a run where no file is
  \* owed, or where it was.
  <1>q. ASSUME NEW r \in Runs, UNCHANGED fileVars, UNCHANGED <<rows, input, outcome, repo>>,
               \A s \in Runs \ {r} : UNCHANGED pc[s],
               \/ pc'[r] = pc[r]
               \/ pc'[r] = "gone"
               \/ pc[r] = "open" /\ pc'[r] = "place"
               \/ pc[r] = "record" /\ pc'[r] = "render"
        PROVE  FilesInv'
    <2>1. NoTornFile' /\ CallsKeepPromises' /\ Kept' = Kept
      BY <1>q, <1>k
    <2>2. FileBeforeRow'
      BY <1>q, <2>1, <1>b DEF FilesInv, FileBeforeRow, fileVars
    <2> QED BY <1>q, <1>t, <1>r, <2>1, <2>2 DEF FilesInv
  <1>5. ASSUME NEW r \in Runs, Open(r) PROVE FilesInv'
    <2>1. UNCHANGED rows
      BY <1>5 DEF Open, New, OpenStep, Ping, ConvertToWAL, SetJournalMode, Backoff, ConvertedToWAL,
                  BeginMigration, CheckVersion, ApplySchema, ApplyMigration0002,
                  Applies, SetVersion, CommitMigration
    <2> QED BY <1>5, <2>1, <1>q DEF Open
  <1>6. ASSUME NEW r \in Runs, NameRepo(r) PROVE FilesInv'
    BY <1>6, <1>t, <1>q DEF NameRepo, dbVars, dataVars, TypeOK
  <1>7. ASSUME NEW r \in Runs, Place(r) PROVE FilesInv'
    <2> DEFINE source == Source(input[r])
    <2>0. input[r] \in Docs /\ repo[r] \in Repos
      BY <1>t DEF TypeOK
    <2>1. UNCHANGED <<file, rows, input, outcome, repo>> /\ pc[r] = "place"
      BY <1>7 DEF Place, Call, fileVars, dbVars, dataVars
    <2>2. \A s \in Runs \ {r} : UNCHANGED <<pc[s], write[s], target[s], payload[s]>>
      BY <1>7, <1>t DEF Place, Call, Advance, fileVars, TypeOK, AtomicFileTypeOK
    <2>3. CASE outcome[r] = "precondition"
      <3>1. UNCHANGED fileVars /\ pc'[r] = "record"
        BY <1>7, <1>t, <2>3 DEF Place, TypeOK
      <3>2. FilesOf(RowOf(r)) = {}
        BY <1>t, <2>3, FilesOfRun
      <3>3. write[r] = "idle"
        BY <2>1, <3>2 DEF FilesInv, FileBeforeRow
      <3>4. NoTornFile' /\ CallsKeepPromises' /\ Kept' = Kept
        BY <3>1, <1>k
      <3>5. FileBeforeRow'
        BY <2>1, <2>2, <3>1, <3>2, <3>3, <3>4, <1>b DEF fileVars
      <3> QED BY <1>t, <1>r, <2>1, <3>4, <3>5 DEF FilesInv
    <2>4. CASE outcome[r] \in {"valid", "invalid"}
      <3>1. PICK path \in FilesOf(RowOf(r)) :
               Call(r, path, Promised(path)) /\ UNCHANGED pc
        BY <1>7, <1>t, <2>0, <2>4, FilesOfRun, PlaceKeepsPromises DEF Place
      <3>2. /\ write'[r] = "mkdir" /\ target'[r] = path
            /\ payload'[r] = Promised(path) /\ UNCHANGED pc
        BY <3>1, <1>t DEF Call, Advance, TypeOK, AtomicFileTypeOK
      <3>3. NoTornFile' /\ CallsKeepPromises' /\ Kept' = Kept
        BY <2>1, <2>2, <3>2, CallsStay
      <3>4. FileBeforeRow'
        BY <2>1, <2>2, <3>1, <3>2, <3>3, <1>b
      <3> QED BY <1>t, <1>r, <2>1, <3>3, <3>4 DEF FilesInv
    <2> QED BY <1>7, <2>3, <2>4 DEF Place
  <1>8. ASSUME NEW r \in Runs, Placed(r) PROVE FilesInv'
    <2>1. UNCHANGED <<file, rows, input, outcome, repo, target, payload>>
      BY <1>8 DEF Placed, Return, dbVars, dataVars
    <2>2. /\ pc[r] = "place" /\ write'[r] = "idle"
          /\ pc'[r] = "gone" \/ (pc'[r] = "record" /\ write[r] = "placed")
          /\ \A s \in Runs \ {r} : UNCHANGED <<pc[s], write[s]>>
      BY <1>8, <1>t DEF Placed, Return, Advance, TypeOK, AtomicFileTypeOK
    <2>3. NoTornFile' /\ CallsKeepPromises' /\ Kept' = Kept
      BY <2>1, <2>2, CallsStay DEF FilesInv, CallsKeepPromises
    <2>4. pc'[r] = "record" => FilesOf(RowOf(r)) \subseteq Kept
      <3> SUFFICES ASSUME pc'[r] = "record" PROVE FilesOf(RowOf(r)) \subseteq Kept
        OBVIOUS
      <3>1. target[r] \in FilesOf(RowOf(r)) /\ file[target[r]] # Absent
        BY <2>2 DEF FilesInv, FileBeforeRow, CallsKeepPromises
      <3>2. FilesOf(RowOf(r)) = {target[r]}
        BY <3>1, <1>t, FilesOfRun
      <3>3. target[r] \in StorePaths
        BY <3>1, <1>t, FilesOfRun, PlaceTypes DEF TypeOK
      <3> QED BY <3>1, <3>2, <3>3 DEF FilesInv, NoTornFile, Kept
    <2>5. FileBeforeRow'
      BY <2>1, <2>2, <2>3, <2>4, <1>b
    <2> QED BY <1>t, <1>r, <2>1, <2>3, <2>5 DEF FilesInv
  <1>9. ASSUME NEW r \in Runs, Record(r) PROVE FilesInv'
    <2>1. UNCHANGED <<pc, input, outcome, repo>> /\ UNCHANGED fileVars /\ pc[r] = "record"
      BY <1>9 DEF Record
    <2>2. CASE UNCHANGED rows
      BY <2>1, <2>2, <1>q
    <2>3. CASE rows' = Append(rows, RowOf(r))
      <3>1. NoTornFile' /\ CallsKeepPromises' /\ Kept' = Kept
        BY <2>1, <1>k
      <3>2. FileBeforeRow'
        BY <2>1, <3>1, <1>b DEF FilesInv, FileBeforeRow, fileVars
      <3>3. FilesOf(RowOf(r)) \subseteq Kept
        BY <2>1 DEF FilesInv, FileBeforeRow
      <3>4. rows \in Seq(Rows) /\ RowOf(r) \in Rows
        BY <1>t, RowOfType DEF TypeOK, DatabaseTypeOK
      <3>5. \A i \in DOMAIN rows' : rows'[i] = RowOf(r) \/ (i \in DOMAIN rows /\ rows'[i] = rows[i])
        BY <2>3, <3>4
      <3>6. RowHasFile'
        BY <3>1, <3>3, <3>5 DEF RowHasFile, FilesInv
      <3> QED BY <1>t, <3>1, <3>2, <3>6 DEF FilesInv
    <2> QED BY <1>9, <2>2, <2>3 DEF Record, StampAt, Insert
  <1>10. ASSUME NEW r \in Runs, Recorded(r) PROVE FilesInv'
    BY <1>10, <1>t, <1>q DEF Recorded, dbVars, dataVars, TypeOK
  <1>11. ASSUME NEW r \in Runs, Render(r) PROVE FilesInv'
    BY <1>11, <1>t, <1>q DEF Render, dbVars, dataVars, TypeOK
  <1>12. ASSUME NEW r \in Runs, Kill(r) PROVE FilesInv'
    <2>1. UNCHANGED <<file, rows, input, outcome, repo, target, payload>>
      BY <1>12 DEF Kill, KillWriter, KillSession
    <2>2. /\ pc'[r] = "gone" /\ write'[r] = "dead"
          /\ \A s \in Runs \ {r} : UNCHANGED <<pc[s], write[s]>>
      BY <1>12, <1>t DEF Kill, KillWriter, TypeOK, AtomicFileTypeOK
    <2>3. NoTornFile' /\ CallsKeepPromises' /\ Kept' = Kept
      BY <2>1, <2>2, CallsStay DEF FilesInv, CallsKeepPromises
    <2>4. FileBeforeRow'
      BY <2>1, <2>2, <2>3, <1>b
    <2> QED BY <1>t, <1>r, <2>1, <2>3, <2>4 DEF FilesInv
  <1>13. CASE EditConfig
    <2>1. UNCHANGED <<write, target, payload, at, rows, pc, input, outcome, repo>>
      BY <1>13 DEF EditConfig, dbVars, dataVars
    <2>2. /\ \A path \in StorePaths : file'[path] = file[path]
          /\ file'[Config] # Absent
          /\ \A path \in Paths : file[path] # Absent => file'[path] # Absent
      BY <1>13, <1>t, SaveAssumption, AtomicFileAssumption
         DEF EditConfig, TypeOK, AtomicFileTypeOK
    <2>3. NoTornFile' /\ Kept' = Kept
      BY <2>2 DEF FilesInv, NoTornFile, Kept
    <2>4. CallsKeepPromises'
      BY <2>1, <2>2, <1>t DEF FilesInv, CallsKeepPromises, TypeOK, AtomicFileTypeOK
    <2>5. FileBeforeRow'
      <3>1. \A s \in Runs : FilesOf(RowOf(s))' = FilesOf(RowOf(s))
        BY <2>1, <1>t, FilesOfRunStays
      <3> QED BY <2>1, <2>3, <3>1 DEF FilesInv, FileBeforeRow
    <2> QED BY <1>t, <1>r, <2>1, <2>3, <2>4, <2>5 DEF FilesInv
  <1>14. CASE UNCHANGED <<fileVars, rows, saveVars>>
    <2>1. NoTornFile' /\ CallsKeepPromises' /\ Kept' = Kept
      BY <1>14, <1>k
    <2>2. \A s \in Runs : FilesOf(RowOf(s))' = FilesOf(RowOf(s))
      BY <1>14, <1>t, FilesOfRunStays
    <2>3. FileBeforeRow'
      BY <1>14, <2>1, <2>2 DEF FilesInv, FileBeforeRow, fileVars
    <2> QED BY <1>14, <1>t, <1>r, <2>1, <2>3 DEF FilesInv
  <1> QED BY <1>1, <1>2, <1>3, <1>4, <1>5, <1>6, <1>7, <1>8, <1>9, <1>10, <1>11,
             <1>12, <1>13, <1>14
             DEF Next, Step, AllGone, Seconds, Tick, Deadline, DeadlinePasses, vars, dbVars,
                 dataVars

\* The files and the rows, however runs interleave, fail or are killed.
THEOREM FilesInvariant == Spec => []FilesInv
  <1>1. FilesInv /\ [Next]_vars => FilesInv'
    BY NextFiles
  <1> QED BY <1>1, InitFiles, PTL DEF Spec

\* No row ever points at a file that is missing or incomplete.
THEOREM RowsHaveFiles == Spec => []RowHasFile
  <1>1. FilesInv => RowHasFile
    BY DEF FilesInv
  <1> QED BY <1>1, FilesInvariant, PTL

\* No path of the store ever shows a file that is incomplete.
THEOREM FilesAreWhole == Spec => []NoTornFile
  <1>1. FilesInv => NoTornFile
    BY DEF FilesInv
  <1> QED BY <1>1, FilesInvariant, PTL

-----------------------------------------------------------------------------
(* The schema changes once, under the lock. *)

\* A run that leaves takes no lock with it, and time passing changes nothing:
\* in the database every step of a run is one of these, whatever Save does.
LEMMA DatabaseSteps ==
    ASSUME [Next]_vars
    PROVE  \/ \E r \in Runs : New(r) \/ OpenStep(r)
           \/ \E r \in Runs : StampAt(r) \/ Insert(r, RowOf(r)) \/ KillSession(r)
           \/ UNCHANGED <<db, rows, session, tx>> /\ (MigrationInv => UNCHANGED lock)
  <1> DEFINE Stays == UNCHANGED <<db, rows, session, tx>> /\ (MigrationInv => UNCHANGED lock)
  <1>0. ASSUME UNCHANGED dbVars PROVE Stays
    BY <1>0 DEF dbVars, dataVars
  <1>e. ASSUME NEW r \in Runs, UNCHANGED dataVars, UNCHANGED lock \/ DropLock(r),
               pc[r] # "open" \/ session[r] \in {"open", "failed"}
        PROVE  Stays
    <2>1. MigrationInv => lock # r
      BY <1>e DEF MigrationInv, LockHeld, OpenerHoldsLock
    <2> QED BY <1>e, <2>1 DEF DropLock, dataVars
  <1> USE DEF Step
  <1>1. ASSUME NEW r \in Runs, Create(r) \/ Place(r) PROVE UNCHANGED dbVars
    BY <1>1 DEF Create, Place
  <1>2. ASSUME NEW r \in Runs,
               \/ Validate(r) \/ LoadConfig(r) \/ Materialized(r) \/ NameRepo(r)
               \/ Placed(r) \/ Recorded(r) \/ Render(r)
        PROVE  Stays
    <2>1. UNCHANGED dataVars /\ (UNCHANGED lock \/ DropLock(r))
      BY <1>2 DEF Validate, LoadConfig, Materialized, NameRepo, Placed, Recorded, Render, Exit
    <2>2. pc[r] # "open" \/ session[r] \in {"open", "failed"}
      BY <1>2 DEF Validate, LoadConfig, Materialized, NameRepo, Placed, Recorded, Render, Exit,
                  Move
    <2> QED BY <1>e, <2>1, <2>2
  <1>3. ASSUME NEW r \in Runs, Kill(r) PROVE KillSession(r)
    BY <1>3 DEF Kill
  <1>4. CASE EditConfig \/ AllGone \/ UNCHANGED vars
    BY <1>4, <1>0 DEF EditConfig, AllGone, vars
  <1>5. CASE Seconds \/ \E r \in Runs : Deadline(r)
    BY <1>5 DEF Seconds, Tick, Deadline, DeadlinePasses
  <1> QED BY <1>0, <1>1, <1>2, <1>3, <1>4, <1>5 DEF Next, Open, Record

LEMMA InitMigration == Init => MigrationInv
  <1> SUFFICES ASSUME Init PROVE MigrationInv
    OBVIOUS
  <1>1. \A r \in Runs : session[r] = "closed" /\ lock # r
    BY DatabaseAssumption DEF Init
  <1>2. db \in StoresOnDisk
    BY SaveAssumption DEF Init
  <1>3. SchemaMatchesVersion
    BY <1>2 DEF StoresOnDisk, NoDatabase, SchemaMatchesVersion
  <1> QED BY <1>1, <1>3 DEF MigrationInv, LockHeld, OpenerHoldsLock, NoStaleMigration

\* The lock is taken only in Open, and kept no longer.
LEMMA NextHolder ==
    ASSUME TypeOK, MigrationInv, [Next]_vars
    PROVE  OpenerHoldsLock'
  <1> USE DEF TypeOK, DatabaseTypeOK, Move, Exit
  <1>1. ASSUME NEW r \in Runs, pc[r] = "open", UNCHANGED pc, lock' \in {lock, r, Nobody}
        PROVE  OpenerHoldsLock'
    BY <1>1, DatabaseAssumption DEF MigrationInv, OpenerHoldsLock
  <1>2. ASSUME NEW r \in Runs, lock' # r, lock' \in {lock, Nobody},
               \A s \in Runs \ {r} : pc'[s] = pc[s]
        PROVE  OpenerHoldsLock'
    BY <1>2, DatabaseAssumption DEF MigrationInv, OpenerHoldsLock
  <1>3. ASSUME NEW r \in Runs, Open(r) PROVE OpenerHoldsLock'
    <2>1. pc[r] = "open" /\ UNCHANGED pc /\ lock' \in {lock, r, Nobody}
      BY <1>3 DEF Open, saveVars, New, OpenStep, Ping, ConvertToWAL, SetJournalMode, Backoff,
                  ConvertedToWAL, BeginMigration, CheckVersion, ApplySchema,
                  ApplyMigration0002, Applies, SetVersion, CommitMigration, Rollback, Take,
                  Release
    <2> QED BY <2>1, <1>1
  <1>4. ASSUME NEW r \in Runs,
               \/ Validate(r) \/ LoadConfig(r) \/ Materialized(r) \/ NameRepo(r)
               \/ Placed(r) \/ Recorded(r) \/ Render(r)
        PROVE  OpenerHoldsLock'
    <2>1. pc[r] # "open" \/ session[r] \in {"open", "failed"}
      BY <1>4 DEF Validate, LoadConfig, Materialized, NameRepo, Placed, Recorded, Render
    <2>2. lock # r
      BY <2>1 DEF MigrationInv, LockHeld, OpenerHoldsLock
    <2>3. UNCHANGED lock \/ DropLock(r)
      BY <1>4 DEF Validate, LoadConfig, Materialized, NameRepo, Placed, Recorded, Render
    <2>4. \A s \in Runs \ {r} : pc'[s] = pc[s]
      BY <1>4 DEF Validate, LoadConfig, Materialized, NameRepo, Placed, Recorded, Render
    <2> QED BY <2>2, <2>3, <2>4, <1>2 DEF DropLock
  <1>5. ASSUME NEW r \in Runs, Create(r) \/ Place(r) \/ Record(r) PROVE OpenerHoldsLock'
    <2>1. lock # r /\ UNCHANGED lock
      BY <1>5 DEF Create, Place, Record, StampAt, Insert, dbVars, dataVars, MigrationInv, OpenerHoldsLock
    <2>2. \A s \in Runs \ {r} : pc'[s] = pc[s]
      BY <1>5 DEF Create, Place, Record, saveVars
    <2> QED BY <2>1, <2>2, <1>2
  <1>6. ASSUME NEW r \in Runs, Kill(r) PROVE OpenerHoldsLock'
    <2>1. lock' # r /\ lock' \in {lock, Nobody}
      BY <1>6, DatabaseAssumption DEF Kill, KillSession, DropLock
    <2>2. \A s \in Runs \ {r} : pc'[s] = pc[s]
      BY <1>6 DEF Kill
    <2> QED BY <2>1, <2>2, <1>2
  <1>7. CASE \/ EditConfig \/ Seconds \/ AllGone \/ UNCHANGED vars
             \/ \E r \in Runs : Deadline(r)
    <2>1. UNCHANGED <<pc, lock>>
      BY <1>7 DEF EditConfig, Seconds, Tick, AllGone, Deadline, DeadlinePasses, vars, saveVars,
                  dbVars, dataVars
    <2> QED BY <2>1 DEF MigrationInv, OpenerHoldsLock
  <1> QED BY <1>3, <1>4, <1>5, <1>6, <1>7 DEF Next, Step

\* Only the run that holds the lock is between BEGIN and COMMIT, so no step of
\* another run changes the database under it.
LEMMA NextMigration ==
    ASSUME TypeOK, MigrationInv, [Next]_vars
    PROVE  MigrationInv'
  <1>p. OpenerHoldsLock'
    BY NextHolder
  <1> USE DEF TypeOK, DatabaseTypeOK
  <1> DEFINE InTransaction == {"check", "apply", "stamp", "commit"}
  <1> DEFINE Connected == {"wal", "backoff", "converting", "begin"} \cup InTransaction
  \* A step of r that leaves the database alone: what is left to show is about r.
  <1>0. ASSUME NEW r \in Runs, NEW to \in Sessions, UNCHANGED db,
               session' = [session EXCEPT ![r] = to],
               \A s \in Runs \ {r} : tx'[s] = tx[s],
               \/ lock' = lock /\ (lock = r <=> to \in InTransaction \cup {"converting"})
               \/ lock = Nobody /\ lock' = r /\ to \in InTransaction \cup {"converting"}
               \/ lock = r /\ lock' = Nobody /\ to \notin InTransaction \cup {"converting"},
               to \in Connected => db.exists,
               to \in InTransaction \cup {"begin"} => db.wal,
               to \in InTransaction => tx'[r].exists /\ tx'[r].wal,
               to \in {"check", "apply"} => tx'[r] = db,
               to \in {"stamp", "commit"} =>
                  /\ tx'[r].table = "runs+assessment"
                  /\ tx'[r].table # db.table \/ tx'[r] = db,
               to = "apply" => tx'[r].version \in {0, 1},
               to = "stamp" => db.table # "runs+assessment",
               to = "commit" => tx'[r].version = schemaVersion
        PROVE  MigrationInv'
    <2>1. \A s \in Runs \ {r} : session'[s] = session[s] /\ tx'[s] = tx[s]
      BY <1>0
    <2>2. session'[r] = to
      BY <1>0
    <2>3. LockHeld'
      BY <1>0, <2>1, <2>2, DatabaseAssumption DEF MigrationInv, LockHeld
    <2>4. SchemaMatchesVersion' /\ NoStaleMigration'
      BY <1>0, <2>1, <2>2 DEF MigrationInv, SchemaMatchesVersion, NoStaleMigration
    <2> QED BY <1>0, <1>p, <2>1, <2>2, <2>3, <2>4 DEF MigrationInv
  \* A step after which nobody holds the lock, and so nobody is in a transaction.
  <1>n. ASSUME lock' = Nobody, SchemaMatchesVersion',
               \A s \in Runs : session'[s] \notin InTransaction \cup {"converting"},
               \A s \in Runs : session'[s] \in Connected => db'.exists,
               \A s \in Runs : session'[s] = "begin" => db'.wal
        PROVE  MigrationInv'
    <2>1. LockHeld'
      BY <1>n, DatabaseAssumption DEF LockHeld
    <2> QED BY <1>n, <1>p, <2>1 DEF MigrationInv, NoStaleMigration
  \* Who else is where, when r holds the lock.
  <1>o. ASSUME NEW r \in Runs, lock = r, NEW s \in Runs \ {r}
        PROVE  session[s] \notin InTransaction \cup {"converting"}
    BY <1>o DEF MigrationInv, LockHeld
  <1>1. ASSUME NEW r \in Runs, New(r) PROVE MigrationInv'
    BY <1>1, <1>0 DEF New, Go, Sessions, MigrationInv, LockHeld
  <1>2. ASSUME NEW r \in Runs, Ping(r) PROVE MigrationInv'
    <2>1. CASE UNCHANGED db /\ Go(r, "connect", "failed")
      BY <1>2, <2>1, <1>0 DEF Ping, Go, Sessions, MigrationInv, LockHeld
    <2>2. CASE db' = [db EXCEPT !.exists = TRUE] /\ Go(r, "connect", "wal")
      <3>1. /\ db'.wal = db.wal /\ db'.version = db.version /\ db'.table = db.table
            /\ db'.exists
        BY <2>2 DEF Databases
      <3>2. CASE db.exists
        <4>1. db' = db
          BY <2>2, <3>2 DEF Databases
        <4>2. /\ UNCHANGED <<tx, lock>> /\ lock # r
              /\ session' = [session EXCEPT ![r] = "wal"]
          BY <1>2, <2>2 DEF Ping, Go, MigrationInv, LockHeld
        <4> QED BY <3>2, <4>1, <4>2, <1>0 DEF Sessions
      <3>3. CASE ~db.exists
        <4>1. \A s \in Runs : session[s] \notin Connected
          BY <3>3 DEF MigrationInv
        <4>2. lock = Nobody
          BY <4>1 DEF MigrationInv, LockHeld
        <4>3. SchemaMatchesVersion'
          BY <3>1 DEF MigrationInv, SchemaMatchesVersion
        <4> QED BY <1>2, <2>2, <3>1, <4>1, <4>2, <4>3, <1>n DEF Ping, Go
      <3> QED BY <3>2, <3>3
    <2> QED BY <1>2, <2>1, <2>2 DEF Ping
  <1>3. ASSUME NEW r \in Runs, ConvertToWAL(r) PROVE MigrationInv'
    <2>1. UNCHANGED <<db, tx>> /\ session[r] = "wal" /\ lock # r /\ db.exists
      BY <1>3 DEF ConvertToWAL, SetJournalMode, Go, MigrationInv, LockHeld
    <2>2. \/ db.wal /\ session' = [session EXCEPT ![r] = "begin"] /\ lock' = lock
          \/ /\ lock = Nobody /\ lock' = r
             /\ session' = [session EXCEPT ![r] = "converting"]
          \/ /\ lock' = lock
             /\ \E to \in {"failed", "backoff"} : session' = [session EXCEPT ![r] = to]
      BY <1>3 DEF ConvertToWAL, SetJournalMode, Go, Take, Free
    <2> QED BY <2>1, <2>2, <1>0 DEF Sessions
  <1>b. ASSUME NEW r \in Runs, Backoff(r) PROVE MigrationInv'
    BY <1>b, <1>0 DEF Backoff, Go, Sessions, MigrationInv, LockHeld
  <1>4. ASSUME NEW r \in Runs, ConvertedToWAL(r) PROVE MigrationInv'
    <2>1. /\ session[r] = "converting" /\ session' = [session EXCEPT ![r] = "begin"]
          /\ db' = [db EXCEPT !.wal = TRUE] /\ lock' = Nobody /\ UNCHANGED tx
      BY <1>4 DEF ConvertedToWAL, Go, Release
    <2>2. lock = r /\ db.exists
      BY <2>1 DEF MigrationInv, LockHeld
    <2>3. /\ db'.wal /\ db'.exists = db.exists
          /\ db'.version = db.version /\ db'.table = db.table
      BY <2>1 DEF Databases
    <2>4. SchemaMatchesVersion'
      BY <2>3 DEF MigrationInv, SchemaMatchesVersion
    <2>5. \A s \in Runs : session'[s] \notin InTransaction \cup {"converting"}
      BY <2>1, <2>2, <1>o
    <2> QED BY <2>1, <2>2, <2>3, <2>4, <2>5, <1>n DEF MigrationInv
  <1>5. ASSUME NEW r \in Runs, BeginMigration(r) PROVE MigrationInv'
    <2>1. UNCHANGED db /\ session[r] = "begin" /\ lock # r /\ db.exists /\ db.wal
      BY <1>5 DEF BeginMigration, Go, MigrationInv, LockHeld
    <2>2. \/ /\ lock = Nobody /\ lock' = r /\ tx' = [tx EXCEPT ![r] = db]
             /\ session' = [session EXCEPT ![r] = "check"]
          \/ session' = [session EXCEPT ![r] = "failed"] /\ UNCHANGED <<lock, tx>>
      BY <1>5 DEF BeginMigration, Go, Take, Free
    <2> QED BY <2>1, <2>2, <1>0 DEF Sessions
  \* The deferred Rollback, from wherever in the transaction.
  <1>rb. ASSUME NEW r \in Runs, NEW from \in InTransaction, Rollback(r, from),
                UNCHANGED <<db, tx>>
         PROVE  MigrationInv'
    <2>1. lock = r
      BY <1>rb DEF Rollback, Go, MigrationInv, LockHeld
    <2> QED BY <1>rb, <2>1, <1>0, DatabaseAssumption DEF Rollback, Go, Release, Sessions
  <1>6. ASSUME NEW r \in Runs, CheckVersion(r) PROVE MigrationInv'
    <2>1. UNCHANGED <<db, tx>> /\ session[r] = "check"
      BY <1>6 DEF CheckVersion, Go, Rollback
    <2>2. /\ lock = r /\ tx[r] = db /\ db.exists /\ db.wal
          /\ tx[r].version \in 0..(schemaVersion + 1)
      BY <2>1 DEF MigrationInv, LockHeld, NoStaleMigration, Databases
    <2>3. \/ /\ tx[r].version = schemaVersion /\ lock' = lock
             /\ session' = [session EXCEPT ![r] = "commit"]
          \/ /\ tx[r].version < schemaVersion /\ lock' = lock
             /\ session' = [session EXCEPT ![r] = "apply"]
          \/ Rollback(r, "check")
      BY <1>6 DEF CheckVersion, Go
    <2>4. tx[r].version = schemaVersion => tx[r].table = "runs+assessment"
      BY <2>2 DEF MigrationInv, SchemaMatchesVersion, schemaVersion
    <2>5. tx[r].version < schemaVersion => tx[r].version \in {0, 1}
      BY <2>2 DEF schemaVersion
    <2> QED BY <2>1, <2>2, <2>3, <2>4, <2>5, <1>0, <1>rb DEF Sessions
  <1>7. ASSUME NEW r \in Runs, NEW version \in {0, 1}, NEW before \in {"none", "runs"},
               Applies(r, version, before)
        PROVE  MigrationInv'
    <2>1. /\ UNCHANGED db /\ session[r] = "apply"
          /\ \/ /\ tx[r].table = before /\ session' = [session EXCEPT ![r] = "stamp"]
                /\ tx' = [tx EXCEPT ![r].table = "runs+assessment"] /\ UNCHANGED lock
             \/ Rollback(r, "apply") /\ UNCHANGED tx
      BY <1>7 DEF Applies, Go, Rollback
    <2>2. lock = r /\ tx[r] = db /\ db.exists /\ db.wal
      BY <2>1 DEF MigrationInv, LockHeld, NoStaleMigration
    <2>3. CASE Rollback(r, "apply") /\ UNCHANGED tx
      BY <2>1, <2>3, <1>rb
    <2>4. CASE /\ tx[r].table = before /\ session' = [session EXCEPT ![r] = "stamp"]
               /\ tx' = [tx EXCEPT ![r].table = "runs+assessment"] /\ UNCHANGED lock
      <3>1. /\ tx'[r].table = "runs+assessment"
            /\ tx'[r].exists = tx[r].exists /\ tx'[r].wal = tx[r].wal
        BY <2>4 DEF Databases
      <3>2. db.table # "runs+assessment"
        BY <2>2, <2>4
      <3> QED BY <2>1, <2>2, <2>4, <3>1, <3>2, <1>0 DEF Sessions
    <2> QED BY <2>1, <2>3, <2>4
  <1>8. ASSUME NEW r \in Runs, SetVersion(r) PROVE MigrationInv'
    <2>1. /\ UNCHANGED db /\ session[r] = "stamp"
          /\ \/ /\ session' = [session EXCEPT ![r] = "commit"] /\ UNCHANGED lock
                /\ tx' = [tx EXCEPT ![r].version = schemaVersion]
             \/ Rollback(r, "stamp") /\ UNCHANGED tx
      BY <1>8 DEF SetVersion, Go, Rollback
    <2>2. /\ lock = r /\ db.exists /\ db.wal /\ tx[r].exists /\ tx[r].wal
          /\ tx[r].table = "runs+assessment" /\ db.table # "runs+assessment"
      BY <2>1 DEF MigrationInv, LockHeld
    <2>3. CASE Rollback(r, "stamp") /\ UNCHANGED tx
      BY <2>1, <2>3, <1>rb
    <2>4. CASE /\ session' = [session EXCEPT ![r] = "commit"] /\ UNCHANGED lock
               /\ tx' = [tx EXCEPT ![r].version = schemaVersion]
      <3>1. /\ tx'[r].version = schemaVersion /\ tx'[r].table = tx[r].table
            /\ tx'[r].exists = tx[r].exists /\ tx'[r].wal = tx[r].wal
        BY <2>4 DEF Databases
      <3> QED BY <2>1, <2>2, <2>4, <3>1, <1>0 DEF Sessions
    <2> QED BY <2>1, <2>3, <2>4
  <1>9. ASSUME NEW r \in Runs, CommitMigration(r) PROVE MigrationInv'
    <2>1. /\ UNCHANGED tx /\ session[r] = "commit"
          /\ \/ /\ session' = [session EXCEPT ![r] = "open"] /\ lock' = Nobody
                /\ db' = tx[r]
             \/ Rollback(r, "commit") /\ UNCHANGED db
      BY <1>9 DEF CommitMigration, Go, Rollback, Release
    <2>2. /\ lock = r /\ tx[r].exists /\ tx[r].wal
          /\ tx[r].table = "runs+assessment" /\ tx[r].version = schemaVersion
      BY <2>1 DEF MigrationInv, LockHeld
    <2>3. CASE Rollback(r, "commit") /\ UNCHANGED db
      BY <2>1, <2>3, <1>rb
    <2>4. CASE /\ session' = [session EXCEPT ![r] = "open"] /\ lock' = Nobody
               /\ db' = tx[r]
      <3>1. SchemaMatchesVersion'
        BY <2>2, <2>4 DEF SchemaMatchesVersion, schemaVersion
      <3>2. \A s \in Runs : session'[s] \notin InTransaction \cup {"converting"}
        BY <2>2, <2>4, <1>o
      <3> QED BY <2>2, <2>4, <3>1, <3>2, <1>n
    <2> QED BY <2>1, <2>3, <2>4
  <1>10. ASSUME NEW r \in Runs, StampAt(r) \/ Insert(r, RowOf(r)) PROVE MigrationInv'
    <2>1. /\ UNCHANGED <<db, lock, tx>> /\ session[r] \in {"open", "insert"}
          /\ \E to \in {"insert", "recorded", "failed"} :
                session' = [session EXCEPT ![r] = to]
      BY <1>10 DEF StampAt, Insert, Go
    <2>2. lock # r
      BY <2>1 DEF MigrationInv, LockHeld
    <2> QED BY <2>1, <2>2, <1>0 DEF Sessions
  <1>11. ASSUME NEW r \in Runs, KillSession(r) PROVE MigrationInv'
    BY <1>11, <1>0, DatabaseAssumption DEF KillSession, DropLock, Sessions
  <1>12. CASE UNCHANGED <<db, session, tx, lock>>
    BY <1>12, <1>p DEF MigrationInv, LockHeld, SchemaMatchesVersion, NoStaleMigration
  <1> QED BY <1>1, <1>2, <1>3, <1>b, <1>4, <1>5, <1>6, <1>7, <1>8, <1>9, <1>10, <1>11, <1>12,
             DatabaseSteps DEF OpenStep, ApplySchema, ApplyMigration0002

THEOREM MigrationInvariant == Spec => []MigrationInv
  <1>1. TypeOK /\ MigrationInv /\ [Next]_vars => MigrationInv'
    BY NextMigration
  <1> QED BY <1>1, InitMigration, TypeCorrect, PTL DEF Spec

\* The committed schema and its version change together, so that whoever opens
\* the store finds the table its version announces.
THEOREM SchemaIsVersioned == Spec => []SchemaMatchesVersion
  <1>1. MigrationInv => SchemaMatchesVersion
    BY DEF MigrationInv
  <1> QED BY <1>1, MigrationInvariant, PTL

\* However many runs create or migrate a store at once, none acts on a version
\* another has changed since it was read.
THEOREM MigrationsAreCurrent == Spec => []NoStaleMigration
  <1>1. MigrationInv => NoStaleMigration
    BY DEF MigrationInv
  <1> QED BY <1>1, MigrationInvariant, PTL

-----------------------------------------------------------------------------
(* The store a reader sees is the one RunLog.tla describes. *)

LEMMA NextInserted ==
    ASSUME TypeOK, RowsAreInserted, [Next]_vars
    PROVE  RowsAreInserted'
  <1> USE DEF TypeOK, DatabaseTypeOK
  <1>0. \A i \in DOMAIN rows : rows[i] \in Rows /\ rows[i].run \in Runs
    <2>1. \A i \in DOMAIN rows : rows[i] \in Rows
      OBVIOUS
    <2>2. \A row \in Rows : row.run \in Runs
      BY DEF Rows
    <2> QED BY <2>1, <2>2
  \* A step that adds no row moves no session out of the two final states.
  <1>1. ASSUME UNCHANGED rows, NEW r \in Runs, NEW to \in Sessions,
               session' = [session EXCEPT ![r] = to],
               session[r] \notin {"recorded", "dead"} \/ to = "dead"
        PROVE  RowsAreInserted'
    BY <1>0, <1>1 DEF RowsAreInserted
  <1>2. ASSUME NEW r \in Runs, New(r) \/ OpenStep(r) PROVE RowsAreInserted'
    <2>1. /\ UNCHANGED rows /\ session[r] \notin {"recorded", "dead"}
          /\ \E to \in Sessions : session' = [session EXCEPT ![r] = to]
      BY <1>2 DEF New, OpenStep, Ping, ConvertToWAL, SetJournalMode, Backoff, ConvertedToWAL, BeginMigration,
                  CheckVersion, ApplySchema, ApplyMigration0002, Applies, SetVersion,
                  CommitMigration, Go, Rollback, Sessions
    <2> QED BY <2>1, <1>1
  <1>3. ASSUME NEW r \in Runs, StampAt(r) PROVE RowsAreInserted'
    BY <1>3, <1>1 DEF StampAt, Go, Sessions
  <1>4. ASSUME NEW r \in Runs, Insert(r, RowOf(r)) PROVE RowsAreInserted'
    <2>1. CASE UNCHANGED rows
      BY <1>4, <2>1, <1>1 DEF Insert, Go, Sessions
    <2>2. CASE rows' = Append(rows, RowOf(r)) /\ session' = [session EXCEPT ![r] = "recorded"]
      <3>1. RowOf(r).run = r
        BY DEF RowOf
      <3>2. \A i \in DOMAIN rows' : rows'[i] = RowOf(r) \/ (i \in DOMAIN rows /\ rows'[i] = rows[i])
        BY <2>2, RowOfType
      <3> QED BY <1>0, <2>2, <3>1, <3>2 DEF RowsAreInserted
    <2> QED BY <1>4, <2>1, <2>2 DEF Insert, Go
  <1>5. ASSUME NEW r \in Runs, KillSession(r) PROVE RowsAreInserted'
    BY <1>5, <1>1 DEF KillSession, Sessions
  <1>6. CASE UNCHANGED <<rows, session>>
    BY <1>6 DEF RowsAreInserted
  <1> QED BY <1>2, <1>3, <1>4, <1>5, <1>6, DatabaseSteps

THEOREM RowsInserted == Spec => []RowsAreInserted
  <1>1. Init => RowsAreInserted
    BY DEF Init, RowsAreInserted
  <1>2. TypeOK /\ RowsAreInserted /\ [Next]_vars => RowsAreInserted'
    BY NextInserted
  <1> QED BY <1>1, <1>2, TypeCorrect, PTL DEF Spec

\* Of the files of the store, a step makes at most one appear.
LEMMA KeptSteps ==
    ASSUME FilesInv, [Next]_vars
    PROVE  Kept' = Kept \/ \E path \in StorePaths : Kept' = Kept \cup {path}
  <1> USE DEF FilesInv, TypeOK, AtomicFileTypeOK
  <1>1. ASSUME UNCHANGED file PROVE Kept' = Kept
    BY <1>1 DEF Kept
  <1>2. ASSUME NEW r \in Runs, CreateStep(r)
        PROVE  Kept' = Kept \/ \E path \in StorePaths : Kept' = Kept \cup {path}
    <2>1. CASE UNCHANGED file
      BY <2>1, <1>1
    <2>2. CASE write[r] = "rename" /\ file' = [file EXCEPT ![target[r]] = temp[r]]
      <3>1. Kept \subseteq Kept'
        BY <1>2, CreateKeepsFiles
      <3>2. \A path \in StorePaths \ {target[r]} : file'[path] = file[path]
        BY <2>2, ConstantTypes
      <3>3. Kept' \subseteq Kept \cup {target[r]}
        BY <3>2 DEF Kept
      <3> QED BY <3>1, <3>3 DEF Kept
    <2> QED BY <1>2, <2>1, <2>2
            DEF CreateStep, MkdirAll, Stat, CreateTemp, Write, Close, Rename, RemoveTemp,
                Advance
  <1>3. ASSUME EditConfig PROVE Kept' = Kept
    <2>1. \A path \in StorePaths : file'[path] = file[path]
      BY <1>3, SaveAssumption DEF EditConfig
    <2> QED BY <2>1 DEF Kept
  <1> USE DEF Step
  <1>4. ASSUME NEW r \in Runs, Step(r), ~Create(r) PROVE UNCHANGED file
    BY <1>4 DEF Validate, LoadConfig, Materialized, Open, NameRepo, Place, Placed,
                Record, Recorded, Render, Call, Return, fileVars
  <1>5. ASSUME NEW r \in Runs, Kill(r) PROVE UNCHANGED file
    BY <1>5 DEF Kill, KillWriter
  <1>6. ASSUME Seconds \/ AllGone \/ UNCHANGED vars \/ \E r \in Runs : Deadline(r)
        PROVE  UNCHANGED file
    BY <1>6 DEF Seconds, AllGone, Deadline, vars, fileVars
  <1> QED BY <1>1, <1>2, <1>3, <1>4, <1>5, <1>6 DEF Next, Create

\* Of the log, a step adds at most one row, and then it changes no file.
LEMMA RowSteps ==
    ASSUME [Next]_vars
    PROVE  \/ UNCHANGED rows
           \/ /\ UNCHANGED file
              /\ \E r \in Runs : /\ pc[r] = "record" /\ session[r] = "insert"
                                 /\ rows' = Append(rows, RowOf(r))
  <1>1. ASSUME NEW r \in Runs, Record(r)
        PROVE  \/ UNCHANGED rows
               \/ /\ UNCHANGED file /\ pc[r] = "record" /\ session[r] = "insert"
                  /\ rows' = Append(rows, RowOf(r))
    BY <1>1 DEF Record, StampAt, Insert, Go, fileVars
  <1>2. ASSUME NEW r \in Runs, Open(r) PROVE UNCHANGED rows
    BY <1>2 DEF Open, New, OpenStep, Ping, ConvertToWAL, SetJournalMode, Backoff, ConvertedToWAL, BeginMigration,
                CheckVersion, ApplySchema, ApplyMigration0002, Applies, SetVersion,
                CommitMigration
  <1>3. ASSUME NEW r \in Runs,
               \/ Validate(r) \/ LoadConfig(r) \/ Create(r) \/ Materialized(r)
               \/ NameRepo(r) \/ Place(r) \/ Placed(r) \/ Recorded(r) \/ Render(r)
        PROVE  UNCHANGED rows
    BY <1>3 DEF Validate, LoadConfig, Create, Materialized, NameRepo, Place, Placed,
                Recorded, Render, dbVars, dataVars
  <1>4. ASSUME NEW r \in Runs, Kill(r) PROVE UNCHANGED rows
    BY <1>4 DEF Kill, KillSession
  <1>5. CASE \/ EditConfig \/ Seconds \/ AllGone \/ UNCHANGED vars
             \/ \E r \in Runs : Deadline(r)
    BY <1>5 DEF EditConfig, Seconds, Tick, AllGone, Deadline, DeadlinePasses, vars, dbVars, dataVars,
                dataVars
  <1> QED BY <1>1, <1>2, <1>3, <1>4, <1>5 DEF Next, Step

\* RunLog.tla names files and rows as Save.tla does.
LEMMA SameLayout ==
    /\ Log!StorePaths = StorePaths
    /\ Log!Rows = Rows
    /\ \A row \in Rows : Log!FilesOf(row) = FilesOf(row)
  <1>1. Log!Digests = Digests
    BY DEF Log!Digests, Digests, Log!Source, Source
  <1>2. Log!StorePaths = StorePaths
    BY <1>1 DEF Log!StorePaths, StorePaths, Log!Trees, Trees
  <1>3. Log!Rows = Rows
    BY <1>1 DEF Log!Rows, Rows, Log!Times, Times, Log!ExitValid, ExitValid, Log!ExitInvalid,
                ExitInvalid, Log!ExitPrecondition, ExitPrecondition
  <1>4. \A row \in Rows : Log!FilesOf(row) = FilesOf(row)
    BY DEF Log!FilesOf, FilesOf, Log!ReviewPath, ReviewPath, Log!RejectedPath, RejectedPath,
           Log!ExitValid, ExitValid, Log!ExitInvalid, ExitInvalid, Log!ExitPrecondition,
           ExitPrecondition
  <1> QED BY <1>2, <1>3, <1>4

LEMMA InitRefines == Init => Log!Init
  <1> SUFFICES ASSUME Init PROVE Log!Init
    OBVIOUS
  <1>1. \A path \in StorePaths : Promised(path) \in Documents
    <2> TAKE path \in StorePaths
    <2>1. PICK d \in Docs : path.digest.sha256 = Source(d)
      BY DEF StorePaths, Digests
    <2>2. Source(d) \in Documents /\ Truncate(Source(d)) \in Documents
      BY DEF Source, Documents, Truncate
    <2> QED BY <2>1, <2>2 DEF Promised
  <1>2. \A path \in StorePaths : file[path] = Absent
    BY ConstantTypes, SaveAssumption DEF Init
  <1>3. Kept = {}
    BY <1>1, <1>2, ConstantTypes, AtomicFileAssumption DEF Kept
  <1> QED BY <1>3 DEF Log!Init, Init

\* Save implements RunLog: to a reader, every step of every run is a file
\* appearing, a row for a file that is there, or nothing.
THEOREM Refinement == Spec => ImplementsRunLog
  <1>1. FilesInv /\ RowsAreInserted /\ [Next]_vars => [Log!Next]_<<Kept, rows>>
    <2> SUFFICES ASSUME FilesInv, RowsAreInserted, [Next]_vars
                 PROVE  [Log!Next]_<<Kept, rows>>
      OBVIOUS
    <2>1. CASE UNCHANGED rows
      <3>1. CASE Kept' = Kept
        BY <2>1, <3>1
      <3>2. CASE Kept' # Kept /\ \E path \in StorePaths : Kept' = Kept \cup {path}
        BY <2>1, <3>2, SameLayout DEF Log!Next, Log!Keep
      <3> QED BY <3>1, <3>2, KeptSteps
    <2>2. ASSUME UNCHANGED file, NEW r \in Runs, pc[r] = "record", session[r] = "insert",
                 rows' = Append(rows, RowOf(r))
          PROVE  Log!Account
      <3>1. RowOf(r) \in Rows /\ RowOf(r).run = r
        BY RowOfType DEF FilesInv, RowOf
      <3>2. FilesOf(RowOf(r)) \subseteq Kept
        BY <2>2 DEF FilesInv, FileBeforeRow
      <3>3. \A i \in DOMAIN rows : rows[i].run # RowOf(r).run
        BY <2>2, <3>1 DEF RowsAreInserted
      <3>4. Kept' = Kept
        BY <2>2 DEF Kept
      <3>5. rows' # rows
        <4>1. rows \in Seq(Rows)
          BY DEF FilesInv, TypeOK, DatabaseTypeOK
        <4>2. Len(Append(rows, RowOf(r))) = Len(rows) + 1 /\ Len(rows) \in Nat
          BY <3>1, <4>1
        <4> QED BY <2>2, <4>2
      <3> QED BY <2>2, <3>1, <3>2, <3>3, <3>4, <3>5, SameLayout DEF Log!Account
    <2> QED BY <2>1, <2>2, RowSteps DEF Log!Next
  <1> QED BY <1>1, InitRefines, FilesInvariant, RowsInserted, PTL
          DEF Spec, ImplementsRunLog, Log!Spec

=============================================================================
