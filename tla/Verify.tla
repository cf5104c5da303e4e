------------------------------- MODULE Verify -------------------------------
(***************************************************************************)
(* Verifying the anchors of reviews against git (internal/verify), for     *)
(* the two commands that do: submit-review, which turns what is found into *)
(* the verdict of one document (internal/validate), and collect-reviews,   *)
(* which asks of every stored review of HEAD whether it still matches the  *)
(* working tree (cmd/loam-refinery/headcheck.go).  One action per git      *)
(* command, with others at work in the repository in between.              *)
(***************************************************************************)
EXTENDS Repository, Faults, Sequences

\* An anchor names a path, "plain" as git would, "odd" (a//b) or through "..",
\* and a last line, 0 when it names none.  One with a field of a wrong type is
\* not usable; one that is no JSON object is not counted at all.
Spellings == {"plain", "odd", "dotdot"}
Names == [path : Paths, spelling : Spellings]
Anchors == [name : Names, last : Nat, usable : BOOLEAN]

\* sound: the structural tier finds nothing; advised: the advisories do.
Documents ==
    [ref : Refs \cup {NoRef}, anchors : Seq(Anchors), sound : BOOLEAN, advised : BOOLEAN]

CONSTANT Jobs \* the commands that may be given, with their documents

ASSUME VerifyAssumption ==
    \A j \in Jobs :
        /\ j \in [command : {"submit", "collect"}, docs : Seq(Documents), strict : BOOLEAN]
        /\ Len(j.docs) > 0
        /\ j.command = "submit" => Len(j.docs) = 1
        /\ j.command = "collect" => j.docs[1].ref # NoRef
        /\ \A k \in 1..Len(j.docs) :
              /\ j.docs[k].ref = j.docs[1].ref
              /\ j.docs[k].sound =>
                    /\ j.docs[k].ref # NoRef
                    /\ \A i \in 1..Len(j.docs[k].anchors) :
                          /\ j.docs[k].anchors[i].usable
                          /\ j.docs[k].anchors[i].name.spelling # "dotdot"

VARIABLES
    job,      \* the command and its documents
    at,       \* where it stands
    source,   \* what repository discovery found
    resolved, \* what became of the ref of the document in hand
    isHead,   \* whether that ref was found to be HEAD
    files,    \* the Verifier's cache of file states
    outcomes, \* of each document so far, the outcome of each anchor
    result,   \* what the command reports
    agreed,   \* history: the paths at which ref and worktree once agreed
    differed, \* history: those once changed since ref, ref being HEAD
    strayed,  \* history: HEAD has been something else than ref
    present   \* history: whether the ref was there from the start

jobVars == <<job, at, source, resolved, isHead, files, outcomes, result>>
historyVars == <<agreed, differed, strayed, present>>
verifyVars == <<repositoryVars, faults, jobVars, historyVars>>

Ref == job.docs[1].ref
Doc == job.docs[Len(outcomes)]
Found == outcomes[Len(outcomes)]
Anchor == Doc.anchors[Len(Found) + 1]

\* What git could not answer, against what it did not find.
Failures == [exited : BOOLEAN, status : {1, 128}, complained : BOOLEAN]
Silence == [exited |-> TRUE, status |-> 1, complained |-> FALSE]

NoFiles == [name \in {} |-> 0]
FileStates == [kind : {"error", "none", "tree", "blob"}, lines : Nat]
Is(kind) == [kind |-> kind, lines |-> 0]

AgreeNow == {path \in Paths : Agrees(Ref, path)}
DifferNow == IF head = Ref THEN {path \in Paths : Changed(Ref, path)} ELSE {}

VerifyInit ==
    /\ RepositoryInit
    /\ faults = 0
    /\ job \in Jobs
    /\ at = "discover" /\ source = "repo" /\ resolved = "yes" /\ isHead = FALSE
    /\ files = NoFiles /\ outcomes = <<>> /\ result = "none"
    /\ agreed = AgreeNow
    /\ differed = DifferNow
    /\ strayed = (head # Ref)
    /\ present = (Ref \in objects)

-----------------------------------------------------------------------------

Go(to) == at' = to

\* Outside a repository is an answer; any other failure is not.
Discover ==
    /\ at = "discover"
    /\ \/ /\ Works /\ source' = "repo"
          /\ Go(IF job.command = "submit" THEN "begin" ELSE "checkHead")
       \/ Works /\ source' = "none" /\ Go("report")
       \/ Fails /\ source' = "unavailable" /\ Go("report")
    /\ UNCHANGED <<job, resolved, isHead, files, outcomes, result>>

\* headCheckAdapter.Discover goes no further unless the ref is HEAD.
CheckHead ==
    /\ at = "checkHead"
    /\ \/ Works /\ Go(IF head = Ref THEN "begin" ELSE "report")
       \/ Fails /\ Go("report")
    /\ UNCHANGED <<job, source, resolved, isHead, files, outcomes, result>>

\* Verify is called with the next document.
Begin ==
    /\ at = "begin"
    /\ Go(IF Ref = NoRef THEN "finish" ELSE "exists")
    /\ outcomes' = Append(outcomes, <<>>)
    /\ resolved' = IF Ref = NoRef THEN "unusable" ELSE "yes"
    /\ Works
    /\ UNCHANGED <<job, source, isHead, files, result>>

\* A plausible bug: the exit status alone says that the object is absent.
ObjectAbsentByStatus(f) == f.status = 1

\* Absence is the silent answer.
ObjectAbsent(f) == f.exited /\ f.status = 1 /\ ~f.complained

\* git cat-file -e.
CatFileExists ==
    /\ at = "exists"
    /\ \/ /\ Works /\ Ref \in objects
          /\ Go("type") /\ UNCHANGED resolved
       \/ /\ Go("finish")
          /\ \E f \in Failures :
                /\ \/ Works /\ Ref \notin objects /\ f = Silence
                   \/ Fails /\ (f.exited => f.complained)
                /\ resolved' = IF ObjectAbsent(f) THEN "unknown" ELSE "unavailable"
    /\ UNCHANGED <<job, source, isHead, files, outcomes, result>>

\* git cat-file -t.
CatFileType ==
    /\ at = "type"
    /\ \/ Works /\ Ref \in Commits /\ Go("head") /\ UNCHANGED resolved
       \/ Works /\ Ref \notin Commits /\ Go("finish") /\ resolved' = "unknown"
       \/ Fails /\ Go("finish") /\ resolved' = "unavailable"
    /\ UNCHANGED <<job, source, isHead, files, outcomes, result>>

\* RefIsHEAD: a HEAD that cannot be resolved is taken for another commit.
RefIsHead ==
    /\ at = "head"
    /\ Go("anchor")
    /\ \/ Works /\ isHead' = (head = Ref)
       \/ Fails /\ isHead' = FALSE
    /\ UNCHANGED <<job, source, resolved, files, outcomes, result>>

-----------------------------------------------------------------------------

Settle(outcome) ==
    /\ Go("anchor")
    /\ outcomes' = [outcomes EXCEPT ![Len(outcomes)] = Append(@, outcome)]

InRange(lines) == IF Anchor.last > lines THEN "outOfRange" ELSE "verified"

\* checkAnchor with the state of its file in hand.
Judge(state) ==
    CASE state.kind = "error" -> Settle("unchecked")
      [] state.kind \in {"none", "tree"} -> Settle("missing")
      [] state.kind = "blob" /\ isHead -> Go("lstat") /\ UNCHANGED outcomes
      [] OTHER -> Settle(InRange(state.lines))

\* An anchor without usable fields is passed over; a file is looked up once.
TakeAnchor ==
    /\ at = "anchor"
    /\ Len(Found) < Len(Doc.anchors)
    /\ Works
    /\ \/ ~Anchor.usable /\ Settle("unusable")
       \/ Anchor.usable /\ Anchor.name \in DOMAIN files /\ Judge(files[Anchor.name])
       \/ /\ Anchor.usable /\ Anchor.name \notin DOMAIN files
          /\ Go("tree") /\ UNCHANGED outcomes
    /\ UNCHANGED <<job, source, resolved, isHead, files, result>>

Learn(state) ==
    /\ files' = [name \in DOMAIN files \cup {Anchor.name} |->
                    IF name = Anchor.name THEN state ELSE files[name]]
    /\ Judge(state)

\* What ls-tree lists at the path; treeEntry finds nothing through "..", where
\* git may refuse to look at all.
Entry == IF Anchor.name.spelling = "dotdot" THEN Missing ELSE At(Ref, Anchor.name.path)

\* A plausible bug: a tree that git cannot read has no such file.
LsTreeEmpty ==
    /\ at = "tree"
    /\ \/ Works /\ Entry \in Blobs /\ Go("blob") /\ UNCHANGED <<files, outcomes>>
       \/ Works /\ Entry = Directory /\ Learn(Is("tree"))
       \/ Works /\ Entry = Missing /\ Learn(Is("none"))
       \/ Fails /\ Learn(Is("none"))
    /\ UNCHANGED <<job, source, resolved, isHead, result>>

\* git ls-tree.
LsTree ==
    /\ at = "tree"
    /\ \/ Works /\ Entry \in Blobs /\ Go("blob") /\ UNCHANGED <<files, outcomes>>
       \/ Works /\ Entry = Directory /\ Learn(Is("tree"))
       \/ Works /\ Entry = Missing /\ Learn(Is("none"))
       \/ Works /\ Anchor.name.spelling = "dotdot" /\ Learn(Is("error"))
       \/ Fails /\ Learn(Is("error"))
    /\ UNCHANGED <<job, source, resolved, isHead, result>>

\* git cat-file blob, whose lines are counted.
CatFileBlob ==
    /\ at = "blob"
    /\ \/ Works /\ Learn([kind |-> "blob", lines |-> LinesOf[Entry]])
       \/ Fails /\ Learn(Is("error"))
    /\ UNCHANGED <<job, source, resolved, isHead, result>>

Lines == files[Anchor.name].lines
Copy == worktree[Anchor.name.path]
Text == Opened(Anchor.name.path)

\* A plausible bug: a deleted file differs from the commit, as git diff has it.
LstatDeleted ==
    /\ at = "lstat"
    /\ \/ Works /\ Copy = Missing /\ Settle("diverged")
       \/ Works /\ Copy # Missing /\ Go("revParse") /\ UNCHANGED outcomes
       \/ Fails /\ Settle("unchecked")
    /\ UNCHANGED <<job, source, resolved, isHead, files, result>>

\* worktreeDiverged: a file that is not in the working tree has not diverged.
Lstat ==
    /\ at = "lstat"
    /\ \/ Works /\ Copy = Missing /\ Settle(InRange(Lines))
       \/ Works /\ Copy # Missing /\ Go("revParse") /\ UNCHANGED outcomes
       \/ Fails /\ Settle("unchecked")
    /\ UNCHANGED <<job, source, resolved, isHead, files, result>>

\* git rev-parse REF:PATH, which takes a path only as git spells it.
RevParse ==
    /\ at = "revParse"
    /\ \/ /\ Works /\ Anchor.name.spelling = "plain"
          /\ Go("hash") /\ UNCHANGED outcomes
       \/ Works /\ Anchor.name.spelling = "odd" /\ Settle("unchecked")
       \/ Fails /\ Settle("unchecked")
    /\ UNCHANGED <<job, source, resolved, isHead, files, result>>

\* A plausible bug: what cannot be hashed is taken for unchanged.
HashObjectTrusting ==
    /\ at = "hash"
    /\ \/ Works /\ Text = Entry /\ Settle(InRange(Lines))
       \/ Works /\ Text \in Blobs \ {Entry} /\ Settle("diverged")
       \/ Works /\ Text \notin Blobs /\ Settle(InRange(Lines))
       \/ Fails /\ Settle("unchecked")
    /\ UNCHANGED <<job, source, resolved, isHead, files, result>>

\* git hash-object opens the path: where lstat and ls-tree saw a link it hashes
\* the file behind it, and fails if there is none, or none any more.
HashObject ==
    /\ at = "hash"
    /\ \/ Works /\ Text = Entry /\ Settle(InRange(Lines))
       \/ Works /\ Text \in Blobs \ {Entry} /\ Settle("diverged")
       \/ Works /\ Text \notin Blobs /\ Settle("unchecked")
       \/ Fails /\ Settle("unchecked")
    /\ UNCHANGED <<job, source, resolved, isHead, files, result>>

-----------------------------------------------------------------------------

\* The document is done; collect-reviews goes on to the next.
Finish ==
    /\ \/ at = "finish"
       \/ at = "anchor" /\ Len(Found) = Len(Doc.anchors)
    /\ at' = IF Len(outcomes) < Len(job.docs) THEN "begin" ELSE "report"
    /\ Works
    /\ UNCHANGED <<job, source, resolved, isHead, files, outcomes, result>>

Outcomes == IF outcomes = <<>> THEN {} ELSE {Found[i] : i \in 1..Len(Found)}

\* A plausible bug: only a repository that did not answer is asked about.
UnverifiedBySource ==
    /\ Len(job.docs[1].anchors) > 0
    /\ source # "repo" \/ resolved # "yes"

\* verification-required: some anchor was not checked, for whatever reason.
Unverified ==
    /\ Len(job.docs[1].anchors) > 0
    /\ source # "repo" \/ resolved # "yes" \/ Outcomes \cap {"unusable", "unchecked"} # {}

Errors ==
    \/ ~job.docs[1].sound
    \/ resolved = "unknown"
    \/ Outcomes \cap {"missing", "outOfRange"} # {}
    \/ Unverified
    \/ job.strict /\ job.docs[1].advised

\* Validate: a diverged anchor is all that is reported.
Report ==
    /\ at = "report"
    /\ Go("gone")
    /\ result' = CASE job.command = "collect" -> "collected"
                   [] "diverged" \in Outcomes -> "precondition"
                   [] Errors -> "invalid"
                   [] OTHER -> "valid"
    /\ Works
    /\ UNCHANGED <<job, source, resolved, isHead, files, outcomes>>

VerifyStep ==
    \/ Discover \/ CheckHead \/ Begin \/ CatFileExists \/ CatFileType \/ RefIsHead
    \/ TakeAnchor \/ LsTree \/ CatFileBlob
    \/ Lstat \/ RevParse \/ HashObject \/ Finish \/ Report

\* Somebody else works in the repository while the command runs.
Others ==
    /\ at # "gone"
    /\ RepositoryNext
    /\ UNCHANGED <<faults, jobVars, present>>
    /\ agreed' = agreed \cup AgreeNow'
    /\ differed' = differed \cup DifferNow'
    /\ strayed' = (strayed \/ head' # Ref)

Gone == at = "gone" /\ UNCHANGED verifyVars

VerifyNext ==
    \/ VerifyStep /\ UNCHANGED <<repositoryVars, historyVars>>
    \/ Others
    \/ Gone

VerifySpec == VerifyInit /\ [][VerifyNext]_verifyVars

-----------------------------------------------------------------------------

OutcomeKinds ==
    {"unusable", "unchecked", "missing", "outOfRange", "verified", "diverged"}

VerifyTypeOK ==
    /\ RepositoryTypeOK
    /\ faults \in 0..MaxFaults
    /\ job \in Jobs
    /\ at \in {"discover", "checkHead", "begin", "exists", "type", "head", "anchor", "tree",
               "blob", "lstat", "revParse", "hash", "finish", "report", "gone"}
    /\ source \in {"repo", "none", "unavailable"}
    /\ resolved \in {"yes", "unusable", "unknown", "unavailable"}
    /\ isHead \in BOOLEAN
    /\ DOMAIN files \subseteq Names
    /\ \A name \in DOMAIN files : files[name] \in FileStates
    /\ outcomes \in Seq(Seq(OutcomeKinds))
    /\ Len(outcomes) <= Len(job.docs)
    /\ \A k \in 1..Len(outcomes) : Len(outcomes[k]) <= Len(job.docs[k].anchors)
    /\ result \in {"none", "valid", "invalid", "precondition", "collected"}
    /\ agreed \subseteq Paths /\ differed \subseteq Paths
    /\ strayed \in BOOLEAN /\ present \in BOOLEAN

\* The anchor a position in outcomes is about.
AnchorAt(k, i) == job.docs[k].anchors[i]

Holds(anchor) ==
    LET c == At(Ref, anchor.name.path) IN
    anchor.name.spelling # "dotdot" /\ c \in Blobs /\ anchor.last <= LinesOf[c]

\* The findings are about the commit, whatever git fails to say: an anchor is
\* verified only if it holds, an error only if it does not, and a ref is unknown
\* only if it names no commit that was there.
FindingsAreTrue ==
    /\ \A k \in DOMAIN outcomes : \A i \in DOMAIN outcomes[k] :
          /\ outcomes[k][i] = "verified" => Holds(AnchorAt(k, i))
          /\ outcomes[k][i] \in {"missing", "outOfRange"} => ~Holds(AnchorAt(k, i))
    /\ resolved = "unknown" => Ref \notin Commits \/ ~present

\* Exit 0 means that every anchor was verified.
ValidIsVerified ==
    result = "valid" =>
        \A i \in DOMAIN job.docs[1].anchors :
            /\ outcomes # <<>>
            /\ i \in DOMAIN outcomes[1] /\ outcomes[1][i] = "verified"

\* If HEAD stays at the ref and git answers, then a file no divergence is
\* reported of was once as committed, or absent, while the command ran.
CleanOnceAgreed ==
    ~strayed /\ faults = 0 =>
        \A k \in DOMAIN outcomes : \A i \in DOMAIN outcomes[k] :
            outcomes[k][i] \in {"verified", "outOfRange"} =>
                AnchorAt(k, i).name.path \in agreed

\* Conversely the precondition, and an entry in head_check.diverged, tell of a
\* file that was changed since HEAD, unless HEAD moved.  A path committed as a
\* symbolic link is excepted: see DivergedMeansChanged.
DivergedOnceDiffered ==
    \A k \in DOMAIN outcomes : \A i \in DOMAIN outcomes[k] :
        outcomes[k][i] = "diverged" =>
            LET path == AnchorAt(k, i).name.path IN
            strayed \/ path \in differed \/ At(Ref, path) \in Links

-----------------------------------------------------------------------------
(* What the documentation says, and the code does not do. *)

\* docs/features/combined-reviews.md 4.2: "A clean submit-review run is evidence
\* that, at the moment that run executed, the working tree matched ref for every
\* file that run's anchors touched."
CleanRunMatched ==
    result = "valid" /\ ~strayed =>
        \A i \in DOMAIN job.docs[1].anchors : AnchorAt(1, i).name.path \in agreed

\* docs/cli.md 2.3.1: "Differs" means git's own answer to "has this file changed
\* since ref".  An untouched symbolic link is reported all the same.
DivergedMeansChanged ==
    \A k \in DOMAIN outcomes : \A i \in DOMAIN outcomes[k] :
        outcomes[k][i] = "diverged" =>
            strayed \/ AnchorAt(k, i).name.path \in differed

=============================================================================
