------------------------------ MODULE Profiles ------------------------------
(***************************************************************************)
(* Reviewer profiles: prime --profile and prime --list over a directory    *)
(* that a person edits meanwhile (internal/profile, profiles.go of the     *)
(* command, internal/cli/prime.go).  Every file is found by enumerating    *)
(* the directory and read afterwards; --list enumerates it again for each  *)
(* file of its own enumeration.                                            *)
(***************************************************************************)
EXTENDS Integers, Sequences, FiniteSets, SequencesExt

CONSTANTS
    Names,     \* the names of files in the directory
    Stem,      \* a file's name without ".md"; NoStem when it does not end so
    Plain,     \* the stems of lowercase letters, digits and hyphens
    Folded,    \* what the file system makes of a file's name to find it
    MaxRunes,  \* the longest description
    Requests,  \* what a run may be asked, and the directory it starts with
    Contents,  \* what a person may make of a file meanwhile
    MaxEdits   \* how often (a bound)

NoStem == "no .md"

ASSUME ProfilesAssumption ==
    /\ IsFiniteSet(Names)
    /\ Stem \in [Names -> STRING] /\ DOMAIN Folded = Names
    /\ \A e, f \in Names : Stem[e] = Stem[f] /\ Stem[e] # NoStem => e = f
    /\ NoStem \notin Plain
    /\ MaxRunes \in Nat /\ MaxEdits \in Nat
    /\ \A r \in Requests : /\ r.list \in BOOLEAN /\ r.resolved \in BOOLEAN
                           /\ DOMAIN r.files = Names
                           /\ r.folder \in {"ok", "missing", "unreadable"}

VARIABLES
    at,      \* where the run stands
    asked,   \* what it was asked
    folder,  \* "ok", "missing" or "unreadable"
    files,   \* what is under each name
    pending, \* the files that --list has yet to load
    name,    \* the one being loaded
    listed,  \* the profiles found so far
    broken,  \* the files that were no profile
    output,  \* what stdout shows
    code,    \* the exit code
    edits,   \* the edits so far
    was,     \* what has been under each name since the run began
    folderWas \* and what the directory has been

disk == <<folder, files, edits, was, folderWas>>
profileVars == <<at, asked, pending, name, listed, broken, output, code, disk>>

-----------------------------------------------------------------------------
(* The file.                                                               *)

\* A line: the fence, blank, a key and the length of its value, or prose.
Line(kind, key, runes) == [kind |-> kind, key |-> key, runes |-> runes]
File(kind, lines) == [kind |-> kind, lines |-> lines]
NoFile == File("absent", <<>>)

\* The first fence after the opening one, 0 if there is none.
CloseOf(lines) ==
    LET fences == {i \in 2..Len(lines) : lines[i].kind = "fence"} IN
    IF fences = {} THEN 0 ELSE CHOOSE i \in fences : \A j \in fences : i <= j

\* parseDescription: one description, of a length between 1 and MaxRunes.
Described(lines) ==
    LET said == {i \in DOMAIN lines : lines[i].kind # "blank"} IN
    /\ \E i \in said : said = {i}
    /\ \A i \in said : /\ lines[i].kind = "field" /\ lines[i].key = "description"
                       /\ lines[i].runes \in 1..MaxRunes

NotBlank(lines) == {i \in DOMAIN lines : lines[i].kind # "blank"}

\* The body of a file, blank lines at both ends trimmed.
BodyOf(lines) ==
    LET rest == SubSeq(lines, CloseOf(lines) + 1, Len(lines))
        said == NotBlank(rest) IN
    IF said = {} THEN <<>>
    ELSE SubSeq(rest, CHOOSE i \in said : \A j \in said : i <= j,
                      CHOOSE i \in said : \A j \in said : i >= j)

\* parse
WellFormed(file) ==
    /\ file.kind = "file"
    /\ file.lines # <<>> /\ file.lines[1].kind = "fence"
    /\ CloseOf(file.lines) # 0
    /\ Described(SubSeq(file.lines, 2, CloseOf(file.lines) - 1))
    /\ BodyOf(file.lines) # <<>>

Profile(e, file) == [name |-> Stem[e], body |-> BodyOf(file.lines)]

-----------------------------------------------------------------------------
(* The directory.                                                          *)

\* ReadDir: what is there, directories told apart.
Present == {e \in Names : files[e].kind # "absent"}
Enumerated == {e \in Present : files[e].kind # "directory"}

\* A symbolic link that leads nowhere is an entry of its directory, yet opening
\* it is told that there is no such file; one that leads to a directory cannot
\* be read.
Followed(file) == IF file.kind = "dangling" THEN NoFile ELSE file

\* What opening a path yields: the file that the file system finds for it, or
\* an error of permission when the directory cannot be searched either.
Found(e) ==
    LET there == {f \in Present : Folded[f] = Folded[e]} IN
    IF folder = "missing" \/ there = {} THEN NoFile
    ELSE Followed(files[CHOOSE f \in there : TRUE])
Opening(e) ==
    {Found(e)} \cup (IF folder = "unreadable" THEN {File("unreadable", <<>>)} ELSE {})

\* Someone edits a file, or the directory itself, between two steps of a run.
Edit ==
    /\ at \notin {"idle", "done"} /\ edits < MaxEdits
    /\ \/ \E e \in Names, file \in Contents :
             /\ folder = "ok" /\ file # files[e]
             /\ \A f \in Present \ {e} : Folded[f] # Folded[e]
             /\ files' = [files EXCEPT ![e] = file]
             /\ was' = [was EXCEPT ![e] = @ \cup {file}]
             /\ UNCHANGED <<folder, folderWas>>
       \/ \E state \in {"ok", "missing", "unreadable"} \ {folder} :
             /\ folder' = state
             /\ folderWas' = folderWas \cup {state}
             /\ UNCHANGED <<files, was>>
    /\ edits' = edits + 1
    /\ UNCHANGED <<at, asked, pending, name, listed, broken, output, code>>

-----------------------------------------------------------------------------
(* The run.                                                                *)

ExitValid == 0
ExitUsage == 2
ExitTool == 101

NoRequest == [list |-> FALSE, name |-> "", folder |-> "ok",
              files |-> [e \in Names |-> NoFile], resolved |-> TRUE]

ProfilesInit ==
    /\ at = "idle" /\ asked = NoRequest
    /\ folder = "ok" /\ files = NoRequest.files
    /\ pending = <<>> /\ name = "" /\ listed = {} /\ broken = {}
    /\ output = <<>> /\ code = -1
    /\ edits = 0 /\ was = [e \in Names |-> {}] /\ folderWas = {}

Ask ==
    /\ at = "idle"
    /\ \E request \in Requests :
          /\ asked' = request
          /\ folder' = request.folder /\ folderWas' = {request.folder}
          /\ files' = request.files /\ was' = [e \in Names |-> {request.files[e]}]
          /\ name' = request.name
          /\ at' = IF request.list THEN "list" ELSE "load"
    /\ UNCHANGED <<pending, listed, broken, output, code, edits>>

\* primeProfile prints all of it or nothing.
Exit(result, text) ==
    /\ at' = "done" /\ code' = result /\ output' = text
    /\ UNCHANGED <<asked, pending, name, listed, broken, disk>>

\* profilesAdapter.List enumerates the directory.
List ==
    /\ at = "list"
    /\ IF ~asked.resolved \/ folder = "unreadable" THEN Exit(ExitTool, <<>>)
       ELSE IF folder = "missing" THEN Exit(ExitValid, <<"list">>)
       ELSE /\ pending' = SetToSeq({e \in Enumerated : Stem[e] # NoStem})
            /\ at' = "each"
            /\ UNCHANGED <<asked, name, listed, broken, output, code, disk>>

Each ==
    /\ at = "each"
    /\ IF pending = <<>> THEN Exit(ExitValid, <<"list">>)
       ELSE /\ name' = Stem[Head(pending)] /\ at' = "load"
            /\ UNCHANGED <<asked, pending, listed, broken, output, code, disk>>

\* A plausible bug: what is malformed is passed over like what is not there.
SkippedBroken(e, outcome) ==
    /\ UNCHANGED broken
    /\ listed' = IF outcome.ok THEN listed \cup {outcome.profile} ELSE listed

\* What --list makes of one file: an error does not fail the whole call.
Skipped(e, outcome) ==
    /\ broken' = IF outcome.failed THEN broken \cup {e} ELSE broken
    /\ listed' = IF outcome.ok THEN listed \cup {outcome.profile} ELSE listed

\* Load's three answers.
NotFound == [ok |-> FALSE, failed |-> FALSE, profile |-> <<>>]
Failed == [ok |-> FALSE, failed |-> TRUE, profile |-> <<>>]
Loaded(e, file) == [ok |-> TRUE, failed |-> FALSE, profile |-> Profile(e, file)]

Answer(outcome) ==
    IF asked.list
    THEN /\ Skipped(Head(pending), outcome)
         /\ pending' = Tail(pending) /\ at' = "each"
         /\ UNCHANGED <<asked, name, output, code, disk>>
    ELSE Exit(IF outcome.failed THEN ExitTool ELSE IF outcome.ok THEN ExitValid ELSE ExitUsage,
              IF outcome.ok THEN <<"prime", outcome.profile>> ELSE <<>>)

\* A plausible bug: the path is opened whenever anything is found under it.
MatchedByPath(e) == Stem[e] = name /\ Found(e).kind \notin {"absent", "directory"}

\* The identity check: an entry of that very name, no directory.
Matched(e) == Stem[e] = name /\ e \in Enumerated

\* Load: resolve the directory, check the name, enumerate, compare.
Load ==
    /\ at = "load"
    /\ IF ~asked.resolved THEN Answer(Failed)
       ELSE IF name \notin Plain \/ folder = "missing" THEN Answer(NotFound)
       ELSE IF folder = "unreadable" THEN Answer(Failed)
       ELSE IF ~\E e \in Names : Matched(e) THEN Answer(NotFound)
       ELSE /\ at' = "open"
            /\ UNCHANGED <<asked, pending, name, listed, broken, output, code, disk>>

\* A plausible bug: a file that went away is an error like any other.
ReadStrictly(e, file) == IF WellFormed(file) THEN Loaded(e, file) ELSE Failed

\* loadEntry: read and parse.
Read(e, file) ==
    IF file.kind = "absent" THEN NotFound
    ELSE IF WellFormed(file) THEN Loaded(e, file) ELSE Failed

Open ==
    /\ at = "open"
    /\ \E e \in Names : /\ Stem[e] = name
                        /\ \E file \in Opening(e) : Answer(Read(e, file))

ProfilesNext == Ask \/ List \/ Each \/ Load \/ Open \/ Edit

ProfilesSpec == ProfilesInit /\ [][ProfilesNext]_profileVars

-----------------------------------------------------------------------------

\* What could have been read under the name of e while the run lasted.
Seen(e) == UNION {was[f] : f \in {f \in Names : Folded[f] = Folded[e]}}
Malformed(e) ==
    \E file \in Seen(e) : file.kind \notin {"absent", "dangling"} /\ ~WellFormed(file)
Dangles(e) == \E file \in Seen(e) : file.kind = "dangling"

\* --list answers what profiles can be used: a file that was a profile
\* throughout is listed as it was, one that was none throughout is named as
\* broken, and whatever is listed or named was so at some time
\* (docs/cli.md, 2.1.5).  A link that leads nowhere is neither.
ListIsFaithful ==
    at = "done" /\ asked.list /\ code = ExitValid =>
        /\ \A profile \in listed : \E e \in Names :
              /\ Stem[e] = profile.name /\ Stem[e] \in Plain
              /\ \E file \in Seen(e) : WellFormed(file) /\ profile = Profile(e, file)
        /\ \A e \in broken : Malformed(e) \/ "unreadable" \in folderWas
        /\ \A e \in {e \in Names : Stem[e] \in Plain /\ folderWas = {"ok"}} :
              \A file \in was[e] :
                 Seen(e) \ {NoFile} = {file} /\ was[e] = {file} =>
                    /\ WellFormed(file) => Profile(e, file) \in listed /\ e \notin broken
                    /\ file.kind \in {"file", "unreadable"} /\ ~WellFormed(file) => e \in broken

\* The exit code tells an operator whose mistake it is, whatever was edited
\* meanwhile: 101 only if something there could not be read or parsed, 2 only
\* if the name was none or, at some time, no file's or that of a link that
\* leads nowhere; and nothing is printed
\* unless all of it is (docs/cli.md, 2.1.4).
PrimeTellsTruth ==
    at = "done" /\ ~asked.list =>
        LET named == {e \in Names : Stem[e] = asked.name} IN
        /\ code = ExitTool =>
              \/ ~asked.resolved \/ "unreadable" \in folderWas
              \/ \E e \in named : Malformed(e)
        /\ code = ExitUsage =>
              \/ asked.name \notin Plain \/ named = {} \/ "missing" \in folderWas
              \/ \E e \in named : \/ \E file \in was[e] : file.kind \in {"absent", "directory"}
                                 \/ Dangles(e)
        /\ code = ExitValid <=> output # <<>>
        /\ code = ExitValid => \E e \in named : \E file \in Seen(e) :
                                  WellFormed(file) /\ output[2] = Profile(e, file)

\* A file is a profile only under its own name, also where the file system
\* finds README.md for readme.md.
OnlyTheNamed ==
    \A profile \in listed \cup {output[i] : i \in {i \in DOMAIN output : i = 2}} :
        \E e \in Names : Stem[e] = profile.name /\ \E file \in was[e] : file.kind # "absent"

=============================================================================
