------------------------------ MODULE Reviews ------------------------------
(***************************************************************************)
(* Readers of the store beside the runs of Save: reviews, reviews --failed,*)
(* reviews --list (internal/cli/reviews.go) and collect-reviews            *)
(* (internal/cli/collect_reviews.go).  Every question a command asks goes  *)
(* through the adapter in cmd/loam-refinery/reviews.go, which loads the    *)
(* config and opens the database again for each, so the store moves on     *)
(* between any two, and between the statements of one.                     *)
(***************************************************************************)
EXTENDS Save, FiniteSets

CONSTANTS
    Readers,  \* the concurrent reading processes
    Asked,    \* the command lines a reader may be given
    NotJSON,  \* the contents json.Valid refuses
    Tampers,  \* what someone may leave in place of a stored file
    MaxSlips  \* bound: failures of the readers' own calls in one behaviour

Queries ==
    [command : {"reviews", "failed", "list", "collect"}, repo : Repos,
     ref : Refs \cup {NoRef}, limit : Nat, content : BOOLEAN]

\* The command lines the flag checks let through: --list stands alone, and
\* collect-reviews needs a ref, has no limit and always reads content.
Allowed(q) ==
    /\ q.command = "list" => q.ref = NoRef /\ q.limit = 0 /\ ~q.content
    /\ q.command = "collect" => q.ref # NoRef /\ q.limit = 0 /\ q.content

ASSUME ReviewsAssumption ==
    /\ \A q \in Asked : q \in Queries /\ Allowed(q)
    /\ \A d \in Docs : RefOf[d] # NoRef => Source(d) \notin NotJSON
    /\ Tampers \subseteq Contents \cup {Absent}
    /\ MaxSlips \in Nat

VARIABLES
    asked,   \* each reader's command line
    stage,   \* where it stands
    ask,     \* the question it is asking of the store
    answer,  \* what it has gathered so far
    since,   \* how many rows the log had when it was started
    code,    \* its exit code
    slips    \* failures of readers so far

readerVars == <<asked, stage, ask, answer, since, code, slips>>

Slip == INSTANCE Faults WITH faults <- slips, MaxFaults <- MaxSlips

\* listed holds rows, as positions in the log; shown what was read of a row.
NoAnswer ==
    [known |-> FALSE, columns |-> FALSE, listed |-> {}, total |-> 0,
     unread |-> {}, shown |-> {}]

ReadersInit ==
    /\ Init
    /\ asked \in [Readers -> Asked]
    /\ stage = [p \in Readers |-> "resolve"]
    /\ ask = [p \in Readers |-> "known"]
    /\ answer = [p \in Readers |-> NoAnswer]
    /\ since = [p \in Readers |-> 0]
    /\ code = [p \in Readers |-> Running]
    /\ slips = 0

-----------------------------------------------------------------------------

Proceed(p, from, to) ==
    /\ stage[p] = from
    /\ stage' = [stage EXCEPT ![p] = to]

Finish(p, from, result) ==
    /\ Proceed(p, from, "gone")
    /\ code' = [code EXCEPT ![p] = result]

\* Flags and --repo are bad, or there is no repository to infer it from
\* (exit 2), or finding its name fails; --list needs no repository.
Resolve(p) ==
    /\ \/ Slip!Works /\ Proceed(p, "resolve", "load") /\ UNCHANGED code
       \/ Slip!Fails /\ Finish(p, "resolve", ExitUsage)
       \/ /\ Slip!Fails /\ asked[p].command # "list"
          /\ Finish(p, "resolve", ExitTool)
    /\ ask' = [ask EXCEPT ![p] = IF asked[p].command = "list" THEN "rows" ELSE @]
    /\ since' = [since EXCEPT ![p] = Len(rows)]
    /\ UNCHANGED <<asked, answer>>

\* loadValidConfig.  A disabled store is still read.
ConfigLoads == file[Config] \notin {Malformed, Partial}

LoadsConfig(p, from, to) ==
    \/ Slip!Works /\ ConfigLoads /\ Proceed(p, from, to) /\ UNCHANGED code
    \/ Slip!Works /\ ~ConfigLoads /\ Finish(p, from, ExitTool)
    \/ Slip!Fails /\ Finish(p, from, ExitTool)

Load(p) ==
    /\ LoadsConfig(p, "load", "exists")
    /\ UNCHANGED <<asked, ask, answer, since>>

\* A plausible bug: any error of os.Stat is taken for a missing store.
ExistsUnchecked(p) ==
    /\ \/ Slip!Works /\ db.exists /\ Proceed(p, "exists", "open")
       \/ Slip!Works /\ ~db.exists /\ Proceed(p, "exists", "answered")
       \/ Slip!Fails /\ Proceed(p, "exists", "answered")
    /\ UNCHANGED <<asked, ask, answer, since, code>>

\* store.Exists: a store that is not there answers the question, with nothing.
Exists(p) ==
    /\ \/ Slip!Works /\ db.exists /\ Proceed(p, "exists", "open") /\ UNCHANGED code
       \/ Slip!Works /\ ~db.exists /\ Proceed(p, "exists", "answered") /\ UNCHANGED code
       \/ Slip!Fails /\ Finish(p, "exists", ExitTool)
    /\ UNCHANGED <<asked, ask, answer, since>>

\* A database that is being converted is locked against readers too, for
\* longer than they wait or not.
Locked == ~db.wal /\ ~Free

\* A plausible bug: every store is taken to be of the current version.
OpenReadOnlyCurrent(p) ==
    /\ Slip!Works
    /\ Proceed(p, "open", "query")
    /\ answer' = [answer EXCEPT ![p].columns = TRUE]
    /\ UNCHANGED <<asked, ask, since, code>>

\* NewReadOnly opens without creating or migrating, and remembers from the
\* version it reads whether there is an assessment column to ask for.
OpenReadOnly(p) ==
    /\ \/ /\ Slip!Works /\ Proceed(p, "open", "query")
          /\ answer' = [answer EXCEPT ![p].columns = db.version >= 2]
          /\ UNCHANGED code
       \/ Slip!Works /\ Locked /\ Finish(p, "open", ExitTool) /\ UNCHANGED answer
       \/ Slip!Fails /\ Finish(p, "open", ExitTool) /\ UNCHANGED answer
    /\ UNCHANGED <<asked, ask, since>>

\* The WHERE clause of the queries in internal/store/sql/query.sql.
Matches(q, row) ==
    \/ q.command = "list"
    \/ /\ row.repo = q.repo
       /\ q.ref \in {NoRef, row.ref}
       /\ row.exit = ExitValid <=> q.command # "failed"

Matching(q) == {i \in DOMAIN rows : Matches(q, rows[i])}

\* ORDER BY at DESC LIMIT n: the n newest, and among the rows of one second
\* any.  sqlLimit makes 0 no limit.
Newest(n, found) ==
    IF n = 0 \/ Cardinality(found) <= n THEN {found}
    ELSE {s \in SUBSET found :
            /\ Cardinality(s) = n
            /\ \A i \in s, j \in found \ s : rows[i].at >= rows[j].at}

\* GROUP BY digest, with min(at): one of the earliest rows of each digest.
EarliestOfDigests(found) ==
    {s \in SUBSET found :
        /\ \A i \in found : \E j \in s : rows[j].digest = rows[i].digest
        /\ \A i \in s, j \in found :
              rows[j].digest = rows[i].digest =>
                  rows[i].at <= rows[j].at /\ (j \in s => i = j)}

\* A query needs the table, and the columns the reader has seen there.
Answers(p) ==
    /\ db.table # "none"
    /\ ask[p] = "rows" /\ asked[p].command \in {"reviews", "failed"} /\ answer[p].columns =>
          db.table = "runs+assessment"

\* A plausible bug: the rows are counted first and listed afterwards.
QueryCountsFirst(p) ==
    LET q == asked[p] IN
    /\ Slip!Works /\ Answers(p)
    /\ \/ ask[p] = "known" /\ Proceed(p, "query", "answered") /\ UNCHANGED answer
       \/ /\ ask[p] = "rows"
          /\ Proceed(p, "query", "list")
          /\ answer' = [answer EXCEPT ![p].total = Cardinality(Matching(q))]
       \/ /\ Proceed(p, "list", "answered")
          /\ \E s \in Newest(q.limit, Matching(q)) :
                answer' = [answer EXCEPT ![p].listed = s]
    /\ UNCHANGED <<asked, ask, since, code>>

\* Known, ListReviews, ListFailedRuns, ListRepos or DistinctDigests.
Query(p) ==
    LET q == asked[p] IN
    /\ \/ /\ Slip!Works /\ Answers(p) /\ ask[p] = "known"
          /\ Proceed(p, "query", "answered")
          /\ answer' = [answer EXCEPT ![p].known =
                            \E i \in DOMAIN rows : rows[i].repo = q.repo]
          /\ UNCHANGED code
       \/ /\ Slip!Works /\ Answers(p) /\ ask[p] = "rows"
          /\ Proceed(p, "query",
                     IF q.command \in {"reviews", "failed"} THEN "count" ELSE "answered")
          /\ \E s \in IF q.command = "collect" THEN EarliestOfDigests(Matching(q))
                      ELSE Newest(q.limit, Matching(q)) :
                answer' = [answer EXCEPT ![p].listed = s]
          /\ UNCHANGED code
       \/ Slip!Works /\ ~Answers(p) /\ Finish(p, "query", ExitTool) /\ UNCHANGED answer
       \/ Slip!Works /\ Locked /\ Finish(p, "query", ExitTool) /\ UNCHANGED answer
       \/ Slip!Fails /\ Finish(p, "query", ExitTool) /\ UNCHANGED answer
    /\ UNCHANGED <<asked, ask, since>>

\* CountReviews or CountFailedRuns, a statement of its own.
Count(p) ==
    /\ \/ /\ Slip!Works /\ Proceed(p, "count", "answered")
          /\ answer' = [answer EXCEPT ![p].total = Cardinality(Matching(asked[p]))]
          /\ UNCHANGED code
       \/ Slip!Fails /\ Finish(p, "count", ExitTool) /\ UNCHANGED answer
    /\ UNCHANGED <<asked, ask, since>>

\* The question is answered and the connection closed; the next one follows.
\* collect-reviews asks the config for store.enabled in between.
NextQuestion(p) ==
    /\ Slip!Works
    /\ LET next == CASE ask[p] = "known" /\ asked[p].command = "collect" -> "enabled"
                     [] ask[p] = "known" /\ asked[p].command # "collect" -> "rows"
                     [] ask[p] = "enabled" -> "rows"
                     [] ask[p] = "rows" -> "rows"
       IN  /\ ask' = [ask EXCEPT ![p] = next]
           /\ Proceed(p, "answered",
                      CASE ask[p] = "rows" -> "content"
                        [] next = "enabled" -> "enabled"
                        [] OTHER -> "load")
    /\ UNCHANGED <<asked, answer, since, code>>

StoreEnabled(p) ==
    /\ LoadsConfig(p, "enabled", "answered")
    /\ UNCHANGED <<asked, ask, answer, since>>

\* The listed rows whose files are still to be read.
Pending(p) ==
    IF ~asked[p].content THEN {}
    ELSE {i \in answer[p].listed \ answer[p].unread :
            /\ FilesOf(rows[i]) # {}
            /\ \A s \in answer[p].shown : s.row # i}

\* A plausible bug: the config error of ReviewPath is counted as a lost file.
ReviewPathUnchecked(p) ==
    /\ stage[p] = "content" /\ asked[p].command = "collect"
    /\ \E i \in Pending(p) :
          \/ Slip!Works /\ ConfigLoads /\ Proceed(p, "content", "read") /\ UNCHANGED answer
          \/ /\ Slip!Works /\ ~ConfigLoads
             /\ answer' = [answer EXCEPT ![p].unread = @ \cup {i}]
             /\ UNCHANGED stage
    /\ UNCHANGED <<asked, ask, since, code>>

\* collectReader.ReviewPath loads the config for every digest.  Its error stops
\* the command, if only after Assemble has gone through the other digests.
ReviewPathOf(p) ==
    /\ asked[p].command = "collect"
    /\ Pending(p) # {}
    /\ LoadsConfig(p, "content", "read")
    /\ UNCHANGED <<asked, ask, answer, since>>

\* A plausible bug: the bytes are taken for what their name says.
ReadContentUnverified(p) ==
    /\ Slip!Works
    /\ Proceed(p, IF asked[p].command = "collect" THEN "read" ELSE "content", "content")
    /\ \E i \in Pending(p), path \in StorePaths :
          /\ path \in FilesOf(rows[i])
          /\ answer' = IF file[path] = Absent
                       THEN [answer EXCEPT ![p].unread = @ \cup {i}]
                       ELSE [answer EXCEPT ![p].shown =
                                @ \cup {[row |-> i, content |-> file[path]]}]
    /\ UNCHANGED <<asked, ask, since, code>>

\* collect-reviews takes only bytes that hash to their name, reviews --content
\* any JSON and reviews --failed whatever is there.
Accepts(p, content, row) ==
    CASE asked[p].command = "collect" -> Digest(content) = row.digest
      [] asked[p].command = "reviews" -> content \notin NotJSON
      [] OTHER -> TRUE

\* One file, in any order.  What cannot be read is counted, not fatal.
ReadContent(p) ==
    /\ Proceed(p, IF asked[p].command = "collect" THEN "read" ELSE "content", "content")
    /\ \E i \in Pending(p), path \in StorePaths :
          /\ path \in FilesOf(rows[i])
          /\ \/ /\ Slip!Works
                /\ file[path] = Absent \/ ~Accepts(p, file[path], rows[i])
                /\ answer' = [answer EXCEPT ![p].unread = @ \cup {i}]
             \/ /\ Slip!Works
                /\ file[path] # Absent /\ Accepts(p, file[path], rows[i])
                /\ answer' = [answer EXCEPT ![p].shown =
                                @ \cup {[row |-> i, content |-> file[path]]}]
             \/ Slip!Fails /\ answer' = [answer EXCEPT ![p].unread = @ \cup {i}]
    /\ UNCHANGED <<asked, ask, since, code>>

\* collect-reviews checks HEAD again before it prints, which may fail.
Deliver(p) ==
    /\ Pending(p) = {}
    /\ \/ Slip!Works /\ Finish(p, "content", ExitValid)
       \/ Slip!Fails /\ Finish(p, "content", ExitUsage)
       \/ Slip!Fails /\ asked[p].command = "collect" /\ Finish(p, "content", ExitTool)
    /\ UNCHANGED <<asked, ask, answer, since>>

ReaderStep(p) ==
    \/ Resolve(p) \/ Load(p) \/ Exists(p) \/ OpenReadOnly(p) \/ Query(p)
    \/ Count(p) \/ NextQuestion(p) \/ StoreEnabled(p) \/ ReviewPathOf(p)
    \/ ReadContent(p) \/ Deliver(p)

\* Someone with access to the trees removes or replaces a stored file.
Tamper ==
    /\ \E path \in StorePaths, c \in Tampers :
          file[path] # Absent /\ file' = [file EXCEPT ![path] = c]
    /\ UNCHANGED <<temp, write, target, payload, dbVars, saveVars, faults, readerVars>>

ReadersNext ==
    \/ Next /\ UNCHANGED readerVars
    \/ (\E p \in Readers : ReaderStep(p)) /\ UNCHANGED vars
    \/ Tamper

ReadersSpec == ReadersInit /\ [][ReadersNext]_<<vars, readerVars>>

-----------------------------------------------------------------------------

Answered(p) == code[p] = ExitValid

ReadersTypeOK ==
    /\ asked \in [Readers -> Asked]
    /\ stage \in [Readers -> {"resolve", "load", "exists", "open", "query", "count",
                             "answered", "enabled", "content", "read", "gone"}]
    /\ ask \in [Readers -> {"known", "enabled", "rows"}]
    /\ \A p \in Readers :
          /\ answer[p].known \in BOOLEAN /\ answer[p].columns \in BOOLEAN
          /\ answer[p].listed \subseteq DOMAIN rows
          /\ answer[p].total \in 0..Len(rows)
          /\ answer[p].unread \subseteq answer[p].listed
          /\ answer[p].shown \subseteq [row : answer[p].listed, content : Contents]
    /\ since \in [Readers -> 0..Len(rows)]
    /\ code \in [Readers -> ExitCodes \cup {Running}]
    /\ slips \in 0..MaxSlips

\* What was in the log when a reader was started is in its answer, unless the
\* limit cut it off, and its repository is known; collect-reviews may answer
\* with another row of the digest.
CompleteAnswer ==
    \A p \in Readers : Answered(p) =>
        \A i \in 1..since[p] :
            /\ rows[i].repo = asked[p].repo => answer[p].known \/ asked[p].command = "list"
            /\ Matches(asked[p], rows[i]) =>
                  \/ i \in answer[p].listed
                  \/ asked[p].limit > 0 /\ Cardinality(answer[p].listed) = asked[p].limit
                  \/ asked[p].command = "collect"
                     /\ \E j \in answer[p].listed : rows[j].digest = rows[i].digest

\* The total of an answer is never less than the rows it lists, though a run
\* may be recorded between the two statements.
TotalCoversListed ==
    \A p \in Readers : Answered(p) /\ asked[p].command \in {"reviews", "failed"} =>
        answer[p].total >= Cardinality(answer[p].listed)

\* Readers find the file of every row they list, whole, while runs that store
\* files fail or are killed: "unreadable" counts nothing but failed reads.
UnreadableHasCause ==
    \A p \in Readers : Cardinality(answer[p].unread) <= slips

\* What is shown of a row is what was submitted in that run (cut, if rejected);
\* collect-reviews keeps this promise even when files are tampered with.
ShownIsPromised ==
    \A p \in Readers : Tampers = {} \/ asked[p].command = "collect" =>
        \A s \in answer[p].shown :
            \E path \in FilesOf(rows[s.row]) : s.content = Promised(path)

\* Against a store that has been created a reader ends in exit 101 only when a
\* call of its own fails or the config is broken, whatever version the store is
\* of and whoever is migrating it.
ToolErrorHasCause ==
    \A p \in Readers : code[p] = ExitTool => slips > 0 \/ ~ConfigLoads

=============================================================================
