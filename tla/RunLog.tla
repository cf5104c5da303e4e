------------------------------- MODULE RunLog -------------------------------
(***************************************************************************)
(* What the store promises a reader: files that are complete the moment    *)
(* they can be seen and never change or go away, and a log that only       *)
(* grows, one row at most per run, each row pointing at a file that is     *)
(* already there.  Save.tla is shown to implement it.                      *)
(***************************************************************************)
EXTENDS Layout, Sequences

VARIABLES
    kept, \* the names of the complete files
    log   \* the rows

Init ==
    /\ kept = {}
    /\ log = <<>>

\* A file appears, whole; to whom it belongs is not said yet.
Keep ==
    /\ kept' # kept
    /\ \E path \in StorePaths : kept' = kept \cup {path}
    /\ UNCHANGED log

\* A run that kept its file, or needs none, is accounted for.
Account ==
    /\ log' # log
    /\ \E row \in Rows :
          /\ log' = Append(log, row)
          /\ FilesOf(row) \subseteq kept
          /\ \A i \in DOMAIN log : log[i].run # row.run
    /\ UNCHANGED kept

Next == Keep \/ Account

Spec == Init /\ [][Next]_<<kept, log>>

=============================================================================
