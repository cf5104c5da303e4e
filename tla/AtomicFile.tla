----------------------------- MODULE AtomicFile -----------------------------
(***************************************************************************)
(* How a run puts a file where other processes can see it: a temporary     *)
(* file in the target's directory, written, closed, and renamed into       *)
(* place, unless a file is already there.  createAtomic                    *)
(* (internal/store/files.go) and Materialize (internal/config/config.go)   *)
(* are the same protocol, so both are calls of this one module.            *)
(*                                                                         *)
(* A system call may fail, and a run may be killed between any two.        *)
(***************************************************************************)
EXTENDS Processes, Faults

CONSTANTS
    Paths,      \* the paths a run may create
    Contents,   \* the complete contents a run may be asked to write
    Absent,     \* no file at a path
    Partial     \* a file that has been created but not completely written

ASSUME AtomicFileAssumption ==
    /\ Absent \notin Contents
    /\ Partial \notin Contents
    /\ Absent # Partial

VARIABLES
    file,    \* what a reader finds at each path
    temp,    \* each run's .tmp-* file, in the directory of its target
    write,   \* where each run stands in the call
    target,  \* the call's path argument
    payload  \* the call's data argument

fileVars == <<file, temp, write, target, payload>>

Steps ==
    {"idle", "mkdir", "stat", "create", "fill", "shut", "rename", "undo",
     "placed", "refused", "dead"}

AtomicFileTypeOK ==
    /\ file \in [Paths -> Contents \cup {Absent}]
    /\ temp \in [Runs -> Contents \cup {Absent, Partial}]
    /\ write \in [Runs -> Steps]
    /\ target \in [Runs -> Paths]
    /\ payload \in [Runs -> Contents]

-----------------------------------------------------------------------------

Advance(r, from, to) ==
    /\ write[r] = from
    /\ write' = [write EXCEPT ![r] = to]

\* createAtomic(path, data) is entered.
Call(r, path, data) ==
    /\ Advance(r, "idle", "mkdir")
    /\ target' = [target EXCEPT ![r] = path]
    /\ payload' = [payload EXCEPT ![r] = data]
    /\ UNCHANGED <<file, temp>>

\* The caller has seen the result; the run may call again.
Return(r, result) ==
    /\ Advance(r, result, "idle")
    /\ UNCHANGED <<file, temp, target, payload>>

MkdirAll(r) ==
    /\ \/ Works /\ Advance(r, "mkdir", "stat")
       \/ Fails /\ Advance(r, "mkdir", "refused")
    /\ UNCHANGED <<file, temp, target, payload>>

\* os.Stat: a file already there is success, and nothing is written.
Stat(r) ==
    /\ \/ Works /\ file[target[r]] # Absent /\ Advance(r, "stat", "placed")
       \/ Works /\ file[target[r]] = Absent /\ Advance(r, "stat", "create")
       \/ Fails /\ Advance(r, "stat", "refused")
    /\ UNCHANGED <<file, temp, target, payload>>

\* A plausible bug: an O_EXCL create at the path itself, filled afterwards.
CreateTempInPlace(r) ==
    /\ Works
    /\ Advance(r, "create", "fill")
    /\ file' = [file EXCEPT ![target[r]] = Partial]
    /\ temp' = [temp EXCEPT ![r] = Partial]
    /\ UNCHANGED <<target, payload>>

\* os.CreateTemp picks a name nobody holds, so a temporary file is its run's.
CreateTemp(r) ==
    /\ \/ /\ Works
          /\ Advance(r, "create", "fill")
          /\ temp' = [temp EXCEPT ![r] = Partial]
       \/ Fails /\ Advance(r, "create", "refused") /\ UNCHANGED temp
    /\ UNCHANGED <<file, target, payload>>

Write(r) ==
    /\ \/ /\ Works
          /\ Advance(r, "fill", "shut")
          /\ temp' = [temp EXCEPT ![r] = payload[r]]
       \/ Fails /\ Advance(r, "fill", "undo") /\ UNCHANGED temp
    /\ UNCHANGED <<file, target, payload>>

Close(r) ==
    /\ \/ Works /\ Advance(r, "shut", "rename")
       \/ Fails /\ Advance(r, "shut", "undo")
    /\ UNCHANGED <<file, temp, target, payload>>

\* A plausible bug: the file is linked into place and the temporary one kept.
RenameByLink(r) ==
    /\ Works
    /\ Advance(r, "rename", "placed")
    /\ file' = [file EXCEPT ![target[r]] = temp[r]]
    /\ UNCHANGED <<temp, target, payload>>

\* Whatever is at the target by now is replaced; the deferred os.Remove then
\* finds nothing under the temporary name.
Rename(r) ==
    /\ \/ /\ Works
          /\ Advance(r, "rename", "placed")
          /\ file' = [file EXCEPT ![target[r]] = temp[r]]
          /\ temp' = [temp EXCEPT ![r] = Absent]
       \/ Fails /\ Advance(r, "rename", "undo") /\ UNCHANGED <<file, temp>>
    /\ UNCHANGED <<target, payload>>

\* A plausible bug: the failed call cleans up the path it was given.
RemoveTarget(r) ==
    /\ Advance(r, "undo", "refused")
    /\ Works
    /\ file' = [file EXCEPT ![target[r]] = Absent]
    /\ temp' = [temp EXCEPT ![r] = Absent]
    /\ UNCHANGED <<target, payload>>

\* The deferred os.Remove on a failed call.  Its own failure is ignored.
RemoveTemp(r) ==
    /\ Advance(r, "undo", "refused")
    /\ \/ Works /\ temp' = [temp EXCEPT ![r] = Absent]
       \/ Fails /\ UNCHANGED temp
    /\ UNCHANGED <<file, target, payload>>

\* A killed run executes no deferred call: its temporary file stays.
KillWriter(r) ==
    /\ write' = [write EXCEPT ![r] = "dead"]
    /\ UNCHANGED <<file, temp, target, payload>>

CreateStep(r) ==
    \/ MkdirAll(r) \/ Stat(r) \/ CreateTemp(r) \/ Write(r)
    \/ Close(r) \/ Rename(r) \/ RemoveTemp(r)

=============================================================================
