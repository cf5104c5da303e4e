------------------------------ MODULE Database ------------------------------
(***************************************************************************)
(* store.db as a writing run uses it: Open (internal/store/store.go) with  *)
(* its conversion to WAL and its migration, and Record                     *)
(* (internal/store/record.go).                                             *)
(*                                                                         *)
(* SQLite is external.  What the code relies on is modelled: one write     *)
(* lock, taken by BEGIN IMMEDIATE, by a lone INSERT and by the conversion  *)
(* out of the rollback journal; a transaction is invisible until COMMIT    *)
(* and undone by the death of its process; a wait for the lock ends either *)
(* in the lock or, after busyTimeoutMillis, in SQLITE_BUSY.                *)
(***************************************************************************)
EXTENDS Processes, Faults, Sequences

CONSTANT Nobody \* the lock is free

ASSUME DatabaseAssumption == Nobody \notin Runs

VARIABLES
    db,      \* the committed database: does the file exist, is it WAL, ...
    rows,    \* the committed rows of the runs table, in rowid order
    lock,    \* who holds the write lock
    session, \* where each run's connection stands
    tx,      \* the database as each run's open transaction sees it
    at,      \* the time each run has stamped on its row
    now,     \* the clock
    overdue  \* the runs whose deadline for the conversion to WAL has passed

\* All but the lock, which the exit of a process gives back.
dataVars == <<db, rows, session, tx, at, now, overdue>>
dbVars == <<lock, dataVars>>

schemaVersion == 2

\* The columns of the runs table, as far as they differ between versions.
Tables == {"none", "runs", "runs+assessment"}
Databases == [exists : BOOLEAN, wal : BOOLEAN, version : 0..(schemaVersion + 1),
              table : Tables]

NoDatabase == [exists |-> FALSE, wal |-> FALSE, version |-> 0, table |-> "none"]

\* What a migration may find: no file, a file a run was killed before
\* migrating, a store of either released version, one from a newer binary.
StoresOnDisk ==
    {NoDatabase,
     [exists |-> TRUE, wal |-> FALSE, version |-> 0, table |-> "none"],
     [exists |-> TRUE, wal |-> TRUE, version |-> 1, table |-> "runs"],
     [exists |-> TRUE, wal |-> TRUE, version |-> 2, table |-> "runs+assessment"],
     [exists |-> TRUE, wal |-> TRUE, version |-> 3, table |-> "runs+assessment"]}

Sessions ==
    {"closed", "connect", "wal", "backoff", "converting", "begin", "check", "apply",
     "stamp", "commit", "open", "insert", "recorded", "failed", "dead"}

DatabaseTypeOK(Row) ==
    /\ db \in Databases
    /\ rows \in Seq(Row)
    /\ lock \in Runs \cup {Nobody}
    /\ session \in [Runs -> Sessions]
    /\ tx \in [Runs -> Databases]
    /\ at \in [Runs -> Times]
    /\ now \in Times
    /\ overdue \subseteq Runs

-----------------------------------------------------------------------------

Go(r, from, to) ==
    /\ session[r] = from
    /\ session' = [session EXCEPT ![r] = to]

Free == lock = Nobody
Take(r) == Free /\ lock' = r
Release == lock' = Nobody

Tick ==
    /\ now < MaxTime
    /\ now' = now + 1
    /\ UNCHANGED <<db, rows, lock, session, tx, at, overdue, faults>>

\* store.New creates the root directory and calls Open.
New(r) ==
    /\ \/ Works /\ Go(r, "closed", "connect")
       \/ Fails /\ Go(r, "closed", "failed")
    /\ UNCHANGED <<db, rows, lock, tx, at, now, overdue>>

\* PingContext opens the connection, which creates an empty file.
Ping(r) ==
    /\ \/ Works /\ Go(r, "connect", "wal") /\ db' = [db EXCEPT !.exists = TRUE]
       \/ Fails /\ Go(r, "connect", "failed") /\ UNCHANGED db
    /\ UNCHANGED <<rows, lock, tx, at, now, overdue>>

\* PRAGMA journal_mode=WAL: nothing to do on a WAL database; otherwise it
\* needs the lock, and answers SQLITE_BUSY at once when it is taken.  What is
\* busy is asked again after a pause, and given up after the deadline, a local
\* variable of convertToWAL.
SetJournalMode(r) ==
    \/ Works /\ db.wal /\ Go(r, "wal", "begin") /\ UNCHANGED lock
    \/ Works /\ ~db.wal /\ Take(r) /\ Go(r, "wal", "converting")
    \/ Fails /\ Go(r, "wal", "failed") /\ UNCHANGED lock

\* A plausible bug: every attempt has a deadline of its own.
ConvertToWALAnew(r) ==
    /\ \/ SetJournalMode(r)
       \/ Works /\ ~db.wal /\ ~Free /\ Go(r, "wal", "backoff") /\ UNCHANGED lock
    /\ overdue' = overdue \ {r}
    /\ UNCHANGED <<db, rows, tx, at, now>>

ConvertToWAL(r) ==
    /\ \/ SetJournalMode(r) /\ overdue' = overdue \ {r}
       \/ /\ Works /\ ~db.wal /\ ~Free
          /\ \/ r \in overdue /\ Go(r, "wal", "failed") /\ overdue' = overdue \ {r}
             \/ r \notin overdue /\ Go(r, "wal", "backoff") /\ UNCHANGED overdue
          /\ UNCHANGED lock
    /\ UNCHANGED <<db, rows, tx, at, now>>

Backoff(r) ==
    /\ Go(r, "backoff", "wal")
    /\ Works
    /\ UNCHANGED <<db, rows, lock, tx, at, now, overdue>>

\* busyTimeoutMillis have gone by since the first attempt.
DeadlinePasses(r) ==
    /\ session[r] \in {"wal", "backoff"} /\ r \notin overdue
    /\ overdue' = overdue \cup {r}
    /\ Works
    /\ UNCHANGED <<db, rows, lock, session, tx, at, now>>

ConvertedToWAL(r) ==
    /\ Go(r, "converting", "begin")
    /\ db' = [db EXCEPT !.wal = TRUE]
    /\ Release
    /\ Works
    /\ UNCHANGED <<rows, tx, at, now, overdue>>

\* A plausible bug: BEGIN DEFERRED, which takes no lock before the first write.
BeginMigrationDeferred(r) ==
    /\ Works
    /\ Go(r, "begin", "check")
    /\ tx' = [tx EXCEPT ![r] = db]
    /\ UNCHANGED <<db, rows, lock, at, now, overdue>>

\* migrate's BeginTx is BEGIN IMMEDIATE: the lock comes before any read.
BeginMigration(r) ==
    /\ \/ /\ Works /\ Take(r) /\ Go(r, "begin", "check")
          /\ tx' = [tx EXCEPT ![r] = db]
       \/ Works /\ ~Free /\ Go(r, "begin", "failed") /\ UNCHANGED <<lock, tx>>
       \/ Fails /\ Go(r, "begin", "failed") /\ UNCHANGED <<lock, tx>>
    /\ UNCHANGED <<db, rows, at, now, overdue>>

\* The deferred Rollback of a transaction that did not commit.
Rollback(r, from) ==
    /\ Go(r, from, "failed")
    /\ Release

\* version == schemaVersion commits at once, a newer one is an error.
CheckVersion(r) ==
    /\ \/ Works /\ tx[r].version = schemaVersion /\ Go(r, "check", "commit") /\ UNCHANGED lock
       \/ Works /\ tx[r].version < schemaVersion /\ Go(r, "check", "apply") /\ UNCHANGED lock
       \/ Works /\ tx[r].version > schemaVersion /\ Rollback(r, "check")
       \/ Fails /\ Rollback(r, "check")
    /\ UNCHANGED <<db, rows, tx, at, now, overdue>>

\* The statements take the database of their version to the current shape.
\* Neither schema.sql nor the ALTER TABLE says IF NOT EXISTS: applied to a
\* database that already has its effect, each is an error.
Applies(r, version, before) ==
    /\ tx[r].version = version
    /\ \/ /\ Works
          /\ IF tx[r].table = before
             THEN /\ Go(r, "apply", "stamp")
                  /\ tx' = [tx EXCEPT ![r].table = "runs+assessment"]
                  /\ UNCHANGED lock
             ELSE Rollback(r, "apply") /\ UNCHANGED tx
       \/ Fails /\ Rollback(r, "apply") /\ UNCHANGED tx
    /\ UNCHANGED <<db, rows, at, now, overdue>>

ApplySchema(r) == Applies(r, 0, "none")

\* migrations[1] is the only step there is: the loop runs it and ends.
ApplyMigration0002(r) == Applies(r, 1, "runs")

\* A plausible bug: the schema is applied and the version left as it was.
SetVersionForgotten(r) ==
    /\ Works
    /\ Go(r, "stamp", "commit")
    /\ UNCHANGED <<db, rows, lock, tx, at, now, overdue>>

SetVersion(r) ==
    /\ \/ /\ Works /\ Go(r, "stamp", "commit") /\ UNCHANGED lock
          /\ tx' = [tx EXCEPT ![r].version = schemaVersion]
       \/ Fails /\ Rollback(r, "stamp") /\ UNCHANGED tx
    /\ UNCHANGED <<db, rows, at, now, overdue>>

CommitMigration(r) ==
    /\ \/ Works /\ Go(r, "commit", "open") /\ db' = tx[r] /\ Release
       \/ Fails /\ Rollback(r, "commit") /\ UNCHANGED db
    /\ UNCHANGED <<rows, tx, at, now, overdue>>

\* Record reads the clock before its statement waits for the lock.
StampAt(r) ==
    /\ Go(r, "open", "insert")
    /\ at' = [at EXCEPT ![r] = now]
    /\ Works
    /\ UNCHANGED <<db, rows, lock, tx, now, overdue>>

\* INSERT outside a transaction: it takes the lock, commits and releases it.
Insert(r, row) ==
    /\ \/ /\ Works /\ Free
          /\ IF db.table = "runs+assessment"
             THEN Go(r, "insert", "recorded") /\ rows' = Append(rows, row)
             ELSE Go(r, "insert", "failed") /\ UNCHANGED rows
       \/ Works /\ ~Free /\ Go(r, "insert", "failed") /\ UNCHANGED rows
       \/ Fails /\ Go(r, "insert", "failed") /\ UNCHANGED rows
    /\ UNCHANGED <<db, lock, tx, at, now, overdue>>

\* The operating system drops a dead process's lock; its transaction is gone.
DropLock(r) == lock' = IF lock = r THEN Nobody ELSE lock

KillSession(r) ==
    /\ session' = [session EXCEPT ![r] = "dead"]
    /\ DropLock(r)
    /\ overdue' = overdue \ {r}
    /\ UNCHANGED <<db, rows, tx, at, now>>

OpenStep(r) ==
    \/ Ping(r) \/ ConvertToWAL(r) \/ Backoff(r) \/ ConvertedToWAL(r) \/ BeginMigration(r)
    \/ CheckVersion(r) \/ ApplySchema(r) \/ ApplyMigration0002(r)
    \/ SetVersion(r) \/ CommitMigration(r)

=============================================================================
