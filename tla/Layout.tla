------------------------------- MODULE Layout -------------------------------
(***************************************************************************)
(* How the store names what it keeps: documents, the digests that address  *)
(* them, the two trees of files, and the rows of the runs table with the   *)
(* file each accounts for.                                                 *)
(***************************************************************************)
EXTENDS Processes

CONSTANTS
    Docs,   \* the distinct inputs submitted
    Refs,   \* commits
    NoRef,  \* the absence of a ref of the right shape (NULL in the table)
    RefOf,  \* the ref an input names, as validRef leaves it
    Big,    \* the inputs longer than maxRejectedSize
    Repos,  \* repository names
    Config  \* the path of config.json

ASSUME LayoutAssumption ==
    /\ NoRef \notin Refs
    /\ RefOf \in [Docs -> Refs \cup {NoRef}]
    /\ Big \subseteq Docs

\* A content is an input, whole or cut after its first mebibyte.
Documents == [doc : Docs, whole : BOOLEAN]
Source(d) == [doc |-> d, whole |-> TRUE]

\* SHA-256, taken to be injective.
Digest(content) == [sha256 |-> content]
Digests == [sha256 : {Source(d) : d \in Docs}]

Truncate(content) ==
    IF content.doc \in Big THEN [content EXCEPT !.whole = FALSE] ELSE content

Trees == {"reviews", "rejected"}
StorePaths == [tree : Trees, repo : Repos, ref : Refs \cup {NoRef}, digest : Digests]

ReviewPath(repo, ref, digest) ==
    [tree |-> "reviews", repo |-> repo, ref |-> ref, digest |-> digest]

RejectedPath(repo, digest) ==
    [tree |-> "rejected", repo |-> repo, ref |-> NoRef, digest |-> digest]

\* The one content that may be found under a name in the store.
Promised(path) ==
    IF path.tree = "reviews" THEN path.digest.sha256
                             ELSE Truncate(path.digest.sha256)

\* A row remembers the run it is of, which the table does not.
Rows == [run : Runs, repo : Repos, ref : Refs \cup {NoRef}, digest : Digests,
         exit : {ExitValid, ExitInvalid, ExitPrecondition}, at : Times]

\* Where a reader of the row looks for its file; exit 3 keeps none.
FilesOf(row) ==
    CASE row.exit = ExitValid -> {ReviewPath(row.repo, row.ref, row.digest)}
      [] row.exit = ExitInvalid -> {RejectedPath(row.repo, row.digest)}
      [] row.exit = ExitPrecondition -> {}

=============================================================================
