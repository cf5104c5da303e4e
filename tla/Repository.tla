----------------------------- MODULE Repository -----------------------------
(***************************************************************************)
(* The git repository a review is verified against, while other people     *)
(* work in it.  External: what internal/verify relies on of git.           *)
(***************************************************************************)
EXTENDS Integers

CONSTANTS
    Refs,      \* the object names a document may give
    NoRef,     \* anything that is not the shape of one
    Commits,   \* the refs that name commits
    Paths,     \* the paths of the repository, as git spells them
    Blobs,     \* what a file holds, or the text of a symbolic link
    Links,     \* those that are links
    LeadsTo,   \* where a link leads: a path no commit has, if out of the repository
    LinesOf,   \* how many lines each has
    Directory,
    Missing,
    TreeOf     \* what each commit holds at each path

ASSUME RepositoryAssumption ==
    /\ NoRef \notin Refs
    /\ Commits \subseteq Refs
    /\ Directory \notin Blobs /\ Missing \notin Blobs /\ Directory # Missing
    /\ Links \subseteq Blobs
    /\ LeadsTo \in [Links -> Paths]
    /\ LinesOf \in [Blobs -> Nat]
    /\ TreeOf \in [Commits -> [Paths -> Blobs \cup {Directory, Missing}]]

VARIABLES
    head,     \* the commit checked out
    objects,  \* the refs whose objects are here
    worktree  \* what lies in the working tree at each path

repositoryVars == <<head, objects, worktree>>

\* What is committed at a path: nothing, when the ref is not a commit.
At(ref, path) == IF ref \in Commits THEN TreeOf[ref][path] ELSE Missing

RepositoryInit ==
    /\ objects \in SUBSET Refs
    /\ head \in objects \cap Commits
    /\ worktree \in [Paths -> Blobs \cup {Directory, Missing}]

Edit ==
    /\ \E path \in Paths, c \in Blobs \cup {Directory, Missing} :
          worktree' = [worktree EXCEPT ![path] = c]
    /\ UNCHANGED <<head, objects>>

\* git checkout of a clean tree.
Checkout ==
    /\ head' \in objects \cap Commits
    /\ worktree' = [path \in Paths |-> TreeOf[head'][path]]
    /\ UNCHANGED objects

\* git commit, or reset --soft: HEAD moves under the working tree.
Commit ==
    /\ head' \in Commits
    /\ objects' = objects \cup {head'}
    /\ UNCHANGED worktree

Fetch ==
    /\ \E ref \in Refs : objects' = objects \cup {ref}
    /\ UNCHANGED <<head, worktree>>

RepositoryNext == Edit \/ Checkout \/ Commit \/ Fetch

\* What lies behind a link: one link after the other is followed, none twice.
Behind(link) ==
    LET reached[left \in SUBSET Links, l \in Links] ==
            LET c == worktree[LeadsTo[l]] IN
            IF c \notin Links THEN c
            ELSE IF c \in left THEN reached[left \ {c}, c]
            ELSE Missing
    IN reached[Links \ {link}, link]

\* What opening a path gives: not a link, but the file it leads to.
Opened(path) == IF worktree[path] \in Links THEN Behind(worktree[path]) ELSE worktree[path]

\* A path at which the working tree says nothing against the commit: what is to
\* be read there is what is committed.
Agrees(ref, path) == worktree[path] = Missing \/ Opened(path) = At(ref, path)

\* A path at which git status would tell of a change, and not of a deletion.
Changed(ref, path) == worktree[path] \notin {Missing, At(ref, path)}

RepositoryTypeOK ==
    /\ head \in Commits
    /\ objects \subseteq Refs
    /\ worktree \in [Paths -> Blobs \cup {Directory, Missing}]

=============================================================================
