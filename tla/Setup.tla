------------------------------- MODULE Setup --------------------------------
(***************************************************************************)
(* What storeAdapter.Save settles before a file is placed: config.Load,    *)
(* validateRepoOverrides, and store.RepoName with the two questions it     *)
(* asks of git (cmd/loam-refinery/store.go, internal/store/git.go).  The   *)
(* steps between them, Materialize and store.New, are in Save.             *)
(***************************************************************************)
EXTENDS Naming, Config

CONSTANTS
    Places, \* where a run may stand: its directory, and the root of the
            \* worktree there, the base name of that root and its origin
    Starts  \* the environments, config files and places runs may start with

ASSUME SetupAssumption ==
    /\ Places \subseteq
          [dir : Seq(STRING), root : Seq(STRING), base : Words, origin : Remotes]
    /\ Starts \subseteq [env : Environments, file : Files, place : Places]
    /\ \A repos \in ReposSaid : \A key \in DOMAIN repos : repos[key] \in Seq(Words)

VARIABLES
    at,     \* where the run stands
    env,    \* its environment
    onDisk, \* the config file it found
    cfg,    \* what Load made of the two
    place,  \* where it stands in the file system
    inGit,  \* what git said of the worktree: "root", "none" or "failed"
    answer, \* what git said of the origin
    name    \* the repository name

setupVars == <<at, env, onDisk, cfg, place, inGit, answer, name>>

NotRun == [timedOut |-> FALSE, exited |-> FALSE, status |-> 0]

\* How a git command may end: with an answer, with an exit status, or killed.
\* Once GitTimeout has passed, exited says nothing (it is TRUE on Windows).
Endings ==
    {[timedOut |-> FALSE, exited |-> TRUE, status |-> 0],
     [timedOut |-> FALSE, exited |-> TRUE, status |-> 1],
     [timedOut |-> FALSE, exited |-> TRUE, status |-> 128],
     NotRun,
     [timedOut |-> TRUE, exited |-> TRUE, status |-> 1],
     [timedOut |-> TRUE, exited |-> FALSE, status |-> 0]}

Answered(a) == ~a.timedOut /\ a.exited /\ a.status = 0

\* A plausible bug: the exit status is asked before the timeout.
SaysAbsentByStatus(a) == a.exited

\* classifyOriginErr: an exit status is the absence of a remote, a timeout
\* never is.
SaysAbsent(a) == ~a.timedOut /\ a.exited

NoConfig == [enabled |-> FALSE, path |-> Unset, repos |-> NoRepos, configPath |-> Unset]

SetupInit ==
    /\ at = "load"
    /\ \E start \in Starts :
          env = start.env /\ onDisk = start.file /\ place = start.place
    /\ cfg = NoConfig
    /\ inGit = "root" /\ answer = NotRun /\ name = NoName

Go(to) == at' = to

LoadConfig ==
    /\ at = "load"
    /\ IF Accepted(env, onDisk)
       THEN cfg' = Load(env, onDisk) /\ Go("check")
       ELSE Go("refused") /\ UNCHANGED cfg
    /\ UNCHANGED <<env, onDisk, place, inGit, answer, name>>

\* validateRepoOverrides comes before Enabled is looked at.
CheckOverrides ==
    /\ at = "check"
    /\ Go(IF \E key \in DOMAIN cfg.repos : ~ValidName(cfg.repos[key]) THEN "refused"
          ELSE IF cfg.enabled THEN "root" ELSE "off")
    /\ UNCHANGED <<env, onDisk, cfg, place, inGit, answer, name>>

\* RepoName asks for the worktree first; no repository is an answer, and an
\* override is keyed by the root when there is one.
AskRoot ==
    /\ at = "root"
    /\ inGit' \in {"root", "none", "failed"}
    /\ LET key == IF inGit' = "root" THEN place.root ELSE place.dir
           named == key \in DOMAIN cfg.repos
       IN /\ Go(CASE inGit' = "failed" -> "refused"
                  [] inGit' = "root" /\ ~named -> "origin"
                  [] OTHER -> "named")
          /\ name' = IF inGit' = "failed" \/ (inGit' = "root" /\ ~named) THEN NoName
                     ELSE IF named THEN cfg.repos[key] ELSE noRepo
    /\ UNCHANGED <<env, onDisk, cfg, place, answer>>

\* originURL, remoteName and localName.
AskOrigin ==
    /\ at = "origin"
    /\ answer' \in Endings
    /\ CASE Answered(answer') ->
              name' = DerivedName(place.origin, place.base) /\ Go("named")
         [] ~Answered(answer') /\ SaysAbsent(answer') ->
              name' = DerivedName(NoRemote, place.base) /\ Go("named")
         [] OTHER -> Go("refused") /\ UNCHANGED name
    /\ UNCHANGED <<env, onDisk, cfg, place, inGit>>

Settled == at \in {"refused", "off", "named"} /\ UNCHANGED setupVars

SetupNext == LoadConfig \/ CheckOverrides \/ AskRoot \/ AskOrigin \/ Settled

SetupSpec == SetupInit /\ [][SetupNext]_setupVars

-----------------------------------------------------------------------------

\* Whatever a person wrote under store.repos and whatever a remote or a
\* directory is called, a repository name that reaches the file system has the
\* shape ValidateName asks for (validateRepoOverrides, normalizeName, localName).
NamesAreSafe == at = "named" => ValidName(name)

\* The ways of writing a remote that docs/config.md 4.2 tells of: as a URL or
\* scp-like, with or without .git or slashes, the host in any case.
Plain(word) == \A i \in 1..Len(word) : word[i] \in Alnum
Spellings(host, words) ==
    LET git == [words EXCEPT ![Len(words)] = @ \o DotGit]
    IN {[form |-> form, host |-> h, path |-> path] :
           form \in {"url", "scp"},
           h \in {host, [i \in 1..Len(host) |->
                           IF \E c \in Capitals : LowerOf[c] = host[i]
                           THEN CHOOSE c \in Capitals : LowerOf[c] = host[i]
                           ELSE host[i]]},
           path \in {words, git, <<<<>>>> \o words, <<<<>>>> \o git, words \o <<<<>>>>}}

\* A remote that could have been written otherwise would have given the same
\* name: two clones of one repository file their reviews together.
SpellingsAgree ==
    /\ at = "named" /\ name = remoteName(place.origin) /\ Len(name) > 1
    /\ \A i \in 1..Len(name) : Plain(name[i])
    => \A remote \in Spellings(name[1], Tail(name)) : remoteName(remote) = name

\* A name in local/ or no-repo is given for want of an origin, never because git
\* was killed or ran out of time before it could tell (remoteName's comment).
NoNameFromSilence ==
    at = "named" /\ name \notin {cfg.repos[key] : key \in DOMAIN cfg.repos}
    => \/ inGit = "none" /\ name = noRepo
       \/ inGit = "root" /\ answer.exited /\ ~answer.timedOut

\* A config file that was accepted is obeyed whole: every key it has is one that
\* is known and has the value it was given, unless the environment outranks it,
\* and the directory it names is absolute (docs/config.md 2.1 and 3).
AcceptedIsObeyed ==
    (at \notin {"load", "refused"} /\ onDisk.found = "object") =>
        /\ ~onDisk.strict /\ ~onDisk.unknown
        /\ onDisk.store = "object" =>
             /\ ~onDisk.storeUnknown
             /\ onDisk.enabled = "false" <=> ~cfg.enabled
             /\ onDisk.repos = "object" => cfg.repos = onDisk.reposSaid
             /\ onDisk.path = "string" /\ env.home = Unset => IsAbs(cfg.path)
        /\ env.home # Unset => cfg.path = env.home

=============================================================================
