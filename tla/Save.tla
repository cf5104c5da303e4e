-------------------------------- MODULE Save --------------------------------
(***************************************************************************)
(* Concurrent submit-review processes sharing one config directory and one *)
(* store: submitReview (internal/cli/submit_review.go) from the verdict    *)
(* on, and storeAdapter.Save (cmd/loam-refinery/store.go) with every call  *)
(* it makes.  A run loads the config, materializes it, opens and migrates  *)
(* the database, names the repository, places its file, records its row    *)
(* and only then prints.                                                   *)
(***************************************************************************)
EXTENDS Layout, AtomicFile, Database

CONSTANTS
    Defaults,  \* the contents Materialize writes
    Off,       \* a config.json that sets store.enabled to false
    Malformed, \* a config.json Load or validateRepoOverrides rejects
    Custom,    \* any other config.json an operator may have written
    Found,     \* the config files a behaviour may start from
    Edits,     \* the config files the operator may save while runs execute
    Stores     \* the databases a behaviour may start from

Configs == {Defaults, Off, Malformed, Custom}

ASSUME SaveAssumption ==
    /\ Config \notin StorePaths
    /\ Configs \cap Documents = {}
    /\ Paths = StorePaths \cup {Config}
    /\ Contents = Documents \cup Configs
    /\ Found \subseteq Configs \cup {Absent}
    /\ Edits \subseteq Configs \ {Defaults}
    /\ Stores \subseteq StoresOnDisk

VARIABLES
    pc,      \* where each run stands
    input,   \* the document each run was given
    outcome, \* what validation made of it
    repo,    \* the repository name Save resolved
    exit     \* the exit code, once the process is gone

saveVars == <<pc, input, outcome, repo, exit>>
vars == <<fileVars, dbVars, saveVars, faults>>

Outcomes(d) ==
    IF RefOf[d] = NoRef THEN {"invalid"} ELSE {"valid", "invalid", "precondition"}

Stages ==
    {"validate", "load", "materialize", "open", "place", "record",
     "render", "gone"}

TypeOK ==
    /\ AtomicFileTypeOK
    /\ DatabaseTypeOK(Rows)
    /\ faults \in 0..MaxFaults
    /\ pc \in [Runs -> Stages]
    /\ input \in [Runs -> Docs]
    /\ outcome \in [Runs -> {"valid", "invalid", "precondition"}]
    /\ repo \in [Runs -> Repos]
    /\ exit \in [Runs -> ExitCodes \cup {Running}]

Init ==
    /\ file \in {[p \in Paths |-> IF p = Config THEN c ELSE Absent] : c \in Found}
    /\ temp = [r \in Runs |-> Absent]
    /\ write = [r \in Runs |-> "idle"]
    /\ target = [r \in Runs |-> Config]
    /\ payload = [r \in Runs |-> Defaults]
    /\ db \in Stores
    /\ rows = <<>>
    /\ lock = Nobody
    /\ session = [r \in Runs |-> "closed"]
    /\ tx = [r \in Runs |-> NoDatabase]
    /\ at = [r \in Runs |-> 0]
    /\ now = 0
    /\ overdue = {}
    /\ faults = 0
    /\ pc = [r \in Runs |-> "validate"]
    /\ input \in [Runs -> Docs]
    /\ outcome = [r \in Runs |-> "invalid"]
    /\ repo \in [Runs -> Repos]
    /\ exit = [r \in Runs |-> Running]

-----------------------------------------------------------------------------

Move(r, from, to) ==
    /\ pc[r] = from
    /\ pc' = [pc EXCEPT ![r] = to]

\* os.Exit closes nothing; the operating system does.
Exit(r, from, code) ==
    /\ Move(r, from, "gone")
    /\ exit' = [exit EXCEPT ![r] = code]
    /\ DropLock(r)

\* Flags, the input or the validator fail (exit 2), or there is a verdict.
Validate(r) ==
    /\ \/ /\ Works
          /\ Move(r, "validate", "load")
          /\ \E o \in Outcomes(input[r]) : outcome' = [outcome EXCEPT ![r] = o]
          /\ UNCHANGED <<exit, lock>>
       \/ Fails /\ Exit(r, "validate", ExitUsage) /\ UNCHANGED outcome
    /\ UNCHANGED <<fileVars, dataVars, input, repo>>

\* config.Load and validateRepoOverrides.  A missing file means the defaults;
\* a disabled store ends Save at once, with nothing created.
LoadConfig(r) ==
    /\ \/ /\ Works /\ file[Config] \in {Absent, Defaults, Custom}
          /\ Move(r, "load", "materialize")
          /\ Call(r, Config, Defaults)
          /\ UNCHANGED <<exit, lock>>
       \/ /\ Works /\ file[Config] = Off
          /\ Move(r, "load", "render")
          /\ UNCHANGED <<fileVars, exit, lock>>
       \/ /\ Works /\ file[Config] \in {Malformed, Partial}
          /\ Exit(r, "load", ExitTool)
          /\ UNCHANGED fileVars
       \/ Fails /\ Exit(r, "load", ExitTool) /\ UNCHANGED fileVars
    /\ UNCHANGED <<dataVars, input, outcome, repo>>

\* createAtomic or Materialize runs on, whichever Save is in.
Create(r) ==
    /\ pc[r] \in {"materialize", "place"}
    /\ CreateStep(r)
    /\ UNCHANGED <<dbVars, saveVars>>

Materialized(r) ==
    /\ \/ /\ Move(r, "materialize", "open") /\ Return(r, "placed")
          /\ UNCHANGED <<exit, lock>>
       \/ Exit(r, "materialize", ExitTool) /\ Return(r, "refused")
    /\ Works
    /\ UNCHANGED <<dataVars, input, outcome, repo>>

Open(r) ==
    /\ pc[r] = "open"
    /\ New(r) \/ OpenStep(r)
    /\ UNCHANGED <<fileVars, saveVars>>

\* store.RepoName follows a successful Open; its own failure is git's.
NameRepo(r) ==
    /\ pc[r] = "open"
    /\ \/ Works /\ session[r] = "open" /\ Move(r, "open", "place") /\ UNCHANGED <<exit, lock>>
       \/ Fails /\ session[r] = "open" /\ Exit(r, "open", ExitTool)
       \/ Works /\ session[r] = "failed" /\ Exit(r, "open", ExitTool)
    /\ UNCHANGED <<fileVars, dataVars, input, outcome, repo>>

\* A plausible bug: everything that is not valid goes to rejected/.
PlaceEverything(r) ==
    LET source == Source(input[r]) IN
    /\ pc[r] = "place"
    /\ IF outcome[r] = "valid"
       THEN Call(r, ReviewPath(repo[r], RefOf[input[r]], Digest(source)), source)
       ELSE Call(r, RejectedPath(repo[r], Digest(source)), Truncate(source))
    /\ Works
    /\ UNCHANGED <<pc, dbVars, input, outcome, repo, exit>>

\* write: the tree the outcome names, or no file at all.
Place(r) ==
    LET source == Source(input[r]) IN
    /\ pc[r] = "place"
    /\ \/ /\ outcome[r] = "valid"
          /\ Call(r, ReviewPath(repo[r], RefOf[input[r]], Digest(source)), source)
          /\ UNCHANGED pc
       \/ /\ outcome[r] = "invalid"
          /\ Call(r, RejectedPath(repo[r], Digest(source)), Truncate(source))
          /\ UNCHANGED pc
       \/ /\ outcome[r] = "precondition"
          /\ Move(r, "place", "record")
          /\ UNCHANGED fileVars
    /\ Works
    /\ UNCHANGED <<dbVars, input, outcome, repo, exit>>

\* A plausible bug: the error of WriteReview or WriteRejected is dropped.
PlacedUnchecked(r) ==
    /\ Move(r, "place", "record")
    /\ Return(r, "placed") \/ Return(r, "refused")
    /\ Works
    /\ UNCHANGED <<dbVars, input, outcome, repo, exit>>

\* A plausible bug: a rejected input is kept and its row forgotten.
PlacedWithoutRow(r) ==
    /\ \/ /\ Move(r, "place", IF outcome[r] = "valid" THEN "record" ELSE "render")
          /\ Return(r, "placed")
          /\ UNCHANGED <<exit, lock>>
       \/ Exit(r, "place", ExitTool) /\ Return(r, "refused")
    /\ Works
    /\ UNCHANGED <<dataVars, input, outcome, repo>>

Placed(r) ==
    /\ \/ Move(r, "place", "record") /\ Return(r, "placed") /\ UNCHANGED <<exit, lock>>
       \/ Exit(r, "place", ExitTool) /\ Return(r, "refused")
    /\ Works
    /\ UNCHANGED <<dataVars, input, outcome, repo>>

ExitOf(r) ==
    CASE outcome[r] = "valid" -> ExitValid
      [] outcome[r] = "invalid" -> ExitInvalid
      [] outcome[r] = "precondition" -> ExitPrecondition

RowOf(r) ==
    [run |-> r, repo |-> repo[r], ref |-> RefOf[input[r]],
     digest |-> Digest(Source(input[r])), exit |-> ExitOf(r), at |-> at[r]]

Record(r) ==
    /\ pc[r] = "record"
    /\ StampAt(r) \/ Insert(r, RowOf(r))
    /\ UNCHANGED <<fileVars, saveVars>>

\* A plausible bug: a row that cannot be inserted is only logged.
RecordedUnchecked(r) ==
    /\ session[r] \in {"recorded", "failed"}
    /\ Move(r, "record", "render")
    /\ Works
    /\ UNCHANGED <<fileVars, dbVars, input, outcome, repo, exit>>

Recorded(r) ==
    /\ \/ /\ session[r] = "recorded" /\ Move(r, "record", "render")
          /\ UNCHANGED <<exit, lock>>
       \/ session[r] = "failed" /\ Exit(r, "record", ExitTool)
    /\ Works
    /\ UNCHANGED <<fileVars, dataVars, input, outcome, repo>>

\* A plausible bug: failing to print is taken for a tool error like any other.
RenderToolError(r) ==
    /\ \/ Works /\ Exit(r, "render", ExitOf(r))
       \/ Fails /\ Exit(r, "render", ExitTool)
    /\ UNCHANGED <<fileVars, dataVars, input, outcome, repo>>

\* The result is printed after it was stored; a failure to print is exit 2.
Render(r) ==
    /\ \/ Works /\ Exit(r, "render", ExitOf(r))
       \/ Fails /\ Exit(r, "render", ExitUsage)
    /\ UNCHANGED <<fileVars, dataVars, input, outcome, repo>>

\* SIGKILL, at any point of the run.
Kill(r) ==
    /\ Move(r, pc[r], "gone")
    /\ pc[r] # "gone"
    /\ Fails
    /\ KillWriter(r)
    /\ KillSession(r)
    /\ UNCHANGED <<input, outcome, repo, exit>>

\* The operator saves config.json with an editor of his own.
EditConfig ==
    /\ \E c \in Edits : file' = [file EXCEPT ![Config] = c]
    /\ UNCHANGED <<temp, write, target, payload, dbVars, saveVars, faults>>

Seconds == Tick /\ UNCHANGED <<fileVars, saveVars>>

Deadline(r) == DeadlinePasses(r) /\ UNCHANGED <<fileVars, saveVars>>

Step(r) ==
    \/ Validate(r) \/ LoadConfig(r) \/ Create(r) \/ Materialized(r)
    \/ Open(r) \/ NameRepo(r) \/ Place(r) \/ Placed(r)
    \/ Record(r) \/ Recorded(r) \/ Render(r)

AllGone == (\A r \in Runs : pc[r] = "gone") /\ UNCHANGED vars

Next ==
    \/ \E r \in Runs : Step(r) \/ Kill(r) \/ Deadline(r)
    \/ EditConfig
    \/ Seconds
    \/ AllGone

Spec == Init /\ [][Next]_vars

\* Time passes; that a process goes on is not promised.
FairSpec == Spec /\ \A r \in Runs : WF_vars(Deadline(r))

-----------------------------------------------------------------------------

\* The files a reader may rely on, and the log it reads them from.
Kept == {path \in StorePaths : file[path] = Promised(path)}

Log == INSTANCE RunLog WITH kept <- Kept, log <- rows

\* Killed runs, dying temporary files and lock races included, a reader of the
\* store sees what RunLog.tla promises: no file changes or disappears, no row
\* precedes its file, and no run is recorded twice.
ImplementsRunLog == Log!Spec

\* A row never points at a file that is missing or not the one it names, though
\* file and row are not one atomic act (write, then Record, in Save).
RowHasFile == \A i \in DOMAIN rows : FilesOf(rows[i]) \subseteq Kept

\* A reader of a path in the store finds the promised bytes or no file, never a
\* file another run is still writing or was killed writing (createAtomic).
NoTornFile == \A path \in StorePaths : file[path] \in {Absent, Promised(path)}

\* A file no row accounts for belongs to a run that has not got to its row yet,
\* was killed, or ended in exit 101: a run that reports a verdict leaves none.
OrphanHasCause ==
    \A path \in StorePaths :
        file[path] # Absent =>
            \/ \E i \in DOMAIN rows : path \in FilesOf(rows[i])
            \/ \E r \in Runs : target[r] = path /\ exit[r] \in {Running, ExitTool}

\* reviews/ holds what some run found valid and rejected/ what some run examined
\* and found invalid; a run stopped by the precondition is in neither.
TreesTellTruth ==
    \A path \in StorePaths :
        file[path] # Absent =>
            \E r \in Runs :
                /\ Digest(Source(input[r])) = path.digest
                /\ repo[r] = path.repo
                /\ outcome[r] = IF path.tree = "reviews" THEN "valid" ELSE "invalid"
                /\ pc[r] \in {"place", "record", "render", "gone"}

\* A run that printed its verdict is in the log with that verdict's exit code;
\* only a disabled store (a session never opened) keeps nothing.
VerdictIsRecorded ==
    \A r \in Runs :
        exit[r] \in {ExitValid, ExitInvalid, ExitPrecondition} /\ session[r] # "closed" =>
            \E i \in DOMAIN rows : rows[i].run = r /\ rows[i].exit = exit[r]

\* Exit 101 means that nothing was recorded, so submitting again adds no
\* second row for the same attempt.
ToolFailureLeavesNoRow ==
    \A r \in Runs : exit[r] = ExitTool => \A i \in DOMAIN rows : rows[i].run # r

\* Nothing but review files stays in the trees of a run that ended in a verdict.
VerdictLeavesNoTemp ==
    \A r \in Runs :
        exit[r] \in {ExitValid, ExitInvalid, ExitPrecondition} => temp[r] = Absent

\* Whoever opens the committed database finds the table its version announces:
\* schema and PRAGMA user_version change together (migrate).
SchemaMatchesVersion ==
    /\ db.version = 0 => db.table = "none"
    /\ db.version = 1 => db.table = "runs"
    /\ db.version >= 2 => db.table = "runs+assessment"
    /\ db.version > 0 => db.wal

\* The version a migration read is still the version on disk when it acts on it,
\* however many processes open a store of version 0 or 1 at once.
NoStaleMigration ==
    \A r \in Runs :
        /\ session[r] \in {"check", "apply"} => tx[r] = db
        /\ session[r] \in {"stamp", "commit"} => tx[r].table # db.table \/ tx[r] = db

\* A run that goes on ends, though every other run may be stopped for good, in
\* a transaction and with the lock too: it asks for the conversion to WAL again
\* and again, but not after its deadline (convertToWAL).
EveryRunEnds == \A r \in Runs : WF_vars(Step(r)) => <>(pc[r] = "gone")

-----------------------------------------------------------------------------
(* The inductive invariant behind the theorems of Save_proofs.tla. *)

\* A temporary file is renamed only once it holds the whole payload.
TempComplete ==
    \A r \in Runs : write[r] \in {"shut", "rename"} => temp[r] = payload[r]

\* What a run is asked to write under a name of the store is what the name
\* promises, and when createAtomic reports success there is a file.
CallsKeepPromises ==
    \A r \in Runs :
        /\ target[r] \in StorePaths => payload[r] = Promised(target[r])
        /\ write[r] = "placed" => file[target[r]] # Absent

\* A run is inside createAtomic only where Save calls it, with the path of its
\* own document, and by the time it comes to its row its file is there.
FileBeforeRow ==
    \A r \in Runs :
        /\ pc[r] \in {"validate", "load", "open", "record", "render"} => write[r] = "idle"
        /\ pc[r] = "place" /\ write[r] # "idle" => target[r] \in FilesOf(RowOf(r))
        /\ pc[r] = "record" => FilesOf(RowOf(r)) \subseteq Kept

FilesInv ==
    /\ TypeOK
    /\ TempComplete
    /\ CallsKeepPromises
    /\ FileBeforeRow
    /\ NoTornFile
    /\ RowHasFile

\* The lock is held by exactly the run inside a transaction.
LockHeld ==
    \A r \in Runs :
        session[r] \in {"converting", "check", "apply", "stamp", "commit"} <=> lock = r

\* It is opening the store: nobody takes the lock with him when he leaves.
OpenerHoldsLock == \A r \in Runs : lock = r => pc[r] = "open"

\* A transaction acts on the database it has read, and what it commits matches.
MigrationInv ==
    /\ LockHeld
    /\ OpenerHoldsLock
    /\ SchemaMatchesVersion
    /\ NoStaleMigration
    /\ \A r \in Runs :
          /\ session[r] \in {"wal", "backoff", "converting"} => db.exists
          /\ session[r] \in {"begin", "check", "apply", "stamp", "commit"} =>
                db.exists /\ db.wal
          /\ session[r] \in {"check", "apply", "stamp", "commit"} =>
                tx[r].exists /\ tx[r].wal
          /\ session[r] = "apply" => tx[r].version \in {0, 1}
          /\ session[r] \in {"stamp", "commit"} => tx[r].table = "runs+assessment"
          /\ session[r] = "stamp" => db.table # "runs+assessment"
          /\ session[r] = "commit" => tx[r].version = schemaVersion

\* Whoever has a row got as far as inserting it.
RowsAreInserted ==
    \A i \in DOMAIN rows : session[rows[i].run] \in {"recorded", "dead"}

-----------------------------------------------------------------------------
(* What the documentation says, and the code does not do. *)

\* docs/config.md 2.2: "It never overwrites.  An existing config.json is read,
\* never rewritten."
NeverOverwritesConfig ==
    [][file[Config] \in Edits => file'[Config] \in Edits]_vars

=============================================================================
