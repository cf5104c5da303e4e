------------------------------ MODULE MCReviews ------------------------------
(***************************************************************************)
(* Instances of Reviews for TLC.                                           *)
(***************************************************************************)
EXTENDS Reviews, TLC

CONSTANTS r1, r2, d1, c1, p1, q1

MCPaths == StorePaths \cup {Config}
MCContents == Documents \cup Configs

OneRefOf == d1 :> c1

Ask(command, ref, limit, content) ==
    [command |-> command, repo |-> p1, ref |-> ref, limit |-> limit, content |-> content]

\* One command line of each form, and both of a limit.
EveryForm ==
    {Ask("reviews", NoRef, 0, TRUE), Ask("reviews", c1, 1, FALSE),
     Ask("failed", NoRef, 0, TRUE), Ask("list", NoRef, 0, FALSE),
     Ask("collect", c1, 0, TRUE)}

Contentful == {Ask("failed", c1, 0, TRUE), Ask("collect", c1, 0, TRUE)}
Listing == {Ask("reviews", NoRef, 0, FALSE)}

FreshStore == {NoDatabase}
OldStore == {[exists |-> TRUE, wal |-> TRUE, version |-> 1, table |-> "runs"]}

\* Stored files are removed, or replaced by other bytes.
Forgeries == {Absent, Malformed}

=============================================================================
