# loam-refinery in TLA+

loam-refinery is a command line program. Agents review a commit, write the
review down as a JSON document, and run `loam-refinery submit-review`, which
validates the document and stores it. `reviews` and `collect-reviews` read the
store back. There is no server: every invocation is a short-lived process, any
number of them run at the same time, and all they share is one config file, one
directory of review files and one SQLite database.

This directory holds the specification of that system: TLA+ modules translated
from the code, TLC configurations that check them on small instances, and proofs
that TLAPS checks for every size.

    tlc -config Save_pair.cfg MCSave.tla      # one run
    tlapm Save_proofs.tla                     # the proofs

## The system

### Inventory

| Part | Code | State it keeps | Operations |
|---|---|---|---|
| submit-review | `internal/cli/submit_review.go` | none between runs | read input, validate, store, print, exit code |
| validation | `internal/validate`, `internal/structural`, `internal/review` | none | parse, precondition, structural, verification and advisory tiers |
| schema of reviews | `internal/schema` | the schema, loaded once | the failures of a document, the property a failure is about, the property a typo meant |
| verification | `internal/verify` | a per-call cache of file states | discover the repository, resolve the ref, look up each anchor, count lines, compare the worktree |
| advisory checks | `internal/advisory` | none | pure checks of one document |
| storing adapter | `cmd/loam-refinery/store.go` | none | `Save`: load config, materialize it, open, name, place, record |
| config | `internal/config` | `config.json` | `Load`, `Materialize` |
| review files | `internal/store/files.go` | `reviews/`, `rejected/` | `WriteReview`, `WriteRejected`, `createAtomic` |
| database | `internal/store/{store,instance,record}.go` | `store.db` | `Open`, `convertToWAL`, `migrate`, `Record` |
| names | `internal/store/name.go`, `git.go` | none | `ValidateName`, `ValidateRef`, `RepoName` and its fallbacks |
| reading | `internal/store/read.go`, `cmd/loam-refinery/reviews.go`, `internal/cli/reviews.go` | none | known, list, failed, repositories, digests |
| collecting | `internal/cli/collect_reviews.go`, `internal/collect`, `cmd/loam-refinery/headcheck.go` | none | assemble all reviews of one ref, recheck HEAD |
| rendering | `internal/render` | none | JSON, Markdown, HTML |
| documentation | `internal/{entry,profile}`, `prime`, `describe` | a directory of profiles a person edits | find and read a profile, list all, resolve a name typed to an entry |
| schema and version commands, wiring | `schema`, `version`, `main.go` | none | print one text, construct the rest |

### How the parts interact

`submitReview` calls the validator, then `Save`, and prints only when `Save` has
succeeded. `Save` calls, in this order, `config.Load`, `config.Materialize`,
`store.New` (which opens, converts and migrates the database), `store.RepoName`
(which runs git), `WriteReview` or `WriteRejected`, and `Record`. Readers open
the database afresh for every question they ask it, read-only, and look for the
files the rows name. Processes never talk to each other; they meet in the file
system (rename is atomic) and in SQLite's one write lock.

### What is hard

- Any two calls of two processes may be interleaved. The interesting places are
  `Stat`-then-`Rename` in `createAtomic` and `Materialize`, the conversion to
  WAL, and the migration.
- A file and its row are two acts. A process may fail or be killed between them.
- A wait for SQLite's lock ends in the lock or in `SQLITE_BUSY`; WAL conversion
  does not even wait.
- Readers ask several questions, each of a database that may have moved on.
- Verification runs many git commands against a worktree somebody is editing.
- A document may be wrong in several ways at once, and every check must say what
  it found without what another found, skipped or could not read.
- Names (of repositories, profiles, entries) come from people, remotes and
  directories, and become paths or commands somebody types back.
- `prime` enumerates a directory and reads its files afterwards.

`hazards` in `PROJECT.json` lists them, each at its line, with the properties
that would catch it.

## The modules

`Processes` and `Faults` say what a run is and what may go wrong in it: a set of
processes, one clock, the exit codes, and a budget `MaxFaults` of failing calls
and kills. `Works` is a conjunct of every step that uses none of the budget,
`Fails` of every step that does.

`AtomicFile` is `createAtomic`, one action per system call. `Materialize` is the
same protocol on another path, so `Save` calls the same actions for both. The
file a reader sees and the temporary file of each run are separate variables: a
temporary file has a fresh name, so it belongs to its run.

`Database` is `store.Open` and `Record`, one action per statement. SQLite is
external. What the code relies on is modelled: one write lock, taken by
`BEGIN IMMEDIATE`, by a lone `INSERT` and by the conversion to WAL; a
transaction that works on a copy until `COMMIT`; the death of a process undoing
it. `tx` is the database as an open transaction sees it. A wait for the lock is
a choice between getting it and `SQLITE_BUSY`, except in `convertToWAL`, whose
retries are the code's own: an attempt that finds the lock taken is refused at
once, pauses (`backoff`) and is made again, until one is refused after the
deadline. The deadline is a local variable of each run; `DeadlinePasses` says when
it has gone by. (The loop also waits for its context, which is
`context.Background()` and never done.)

`Layout` is the naming of things: documents, digests (SHA-256 is taken to be
injective, so a digest is a record of the content), paths, rows, and the file
each row accounts for. A rejected input over a mebibyte is cut but keeps the
digest of the whole.

`Save` composes the four: a run validates (the verdict is a choice here), loads
the config, materializes it, opens the database, learns the repository's name,
places its file, records its row, prints, and exits. It may be killed anywhere.
The operating system drops the lock of a process that is gone, whichever way it
went.

`RunLog` is what a reader of the store is promised, in two actions: a file
appears, whole; a row is added whose file is already there, at most one per run.
`Save` implements it with `kept` mapped to the complete files and `log` to the
rows. Temporary files, locks, the migration and the kills are stutters.

`Reviews` adds the readers to `Save`: `reviews`, `--failed`, `--list` and
`collect-reviews`, each a process that asks its questions one after the other.
For every question it loads the config and opens the database again, and every
statement is an action of its own, so runs store, migrate and die in between.
`Tamper` is somebody who edits the stored trees. What a reader has gathered is
kept as positions in the log of rows, to be compared with the log later.

`Repository` is a git repository other people work in: they edit files, check
out, commit, fetch. `Verify` runs beside them, one action per git command: the
repository is discovered, the ref looked up, HEAD compared with it, and each
anchor taken in turn, its file looked up once and cached, and compared with the
working tree if the ref was found to be HEAD. The same verifier serves two
commands, so `job` is either a submission, whose findings `Report` turns into
the verdict of `Validate`, or a collection, which verifies several documents of
one ref over one cache. What a failing git says is its exit status and whether it
complained. The tiers that do not ask git are two flags of the document
(`sound`, `advised`). `agreed` and `differed` are history: where ref and working
tree agreed or differed at some moment of the run. They are what a finding about
a moving working tree can be held to. A path may hold a symbolic link, in a commit
and in the working tree: git looks at the link itself, except `hash-object`, which
opens the path (`Opened`, the file behind a chain of links, or nothing).

`Collect` is what `collect-reviews` makes of the documents of one ref, and how it
changes from one answer to the next while runs go on submitting. Of a run only
its row is left: stamped with the clock, in whole seconds, and inserted later,
perhaps after rows with a later stamp. An answer takes any part of the documents
for readable; that covers files removed, altered and restored, and reads that
fail, all of which `Reviews` models one by one. Digests and profiles are
integers, for the strings the code orders them as. A qualified id is a record of
its two parts: that they can be joined by a colon without a collision rests on
the format of profile names, which `submit-review` checks. `raced` remembers the
documents that two runs were recording at one time.

`Setup` is what `Save` settles before it places a file: `config.Load`, the check
of the overrides, and `RepoName` with the two questions it asks of git and every
way they may end. `Config` says where settings are and which file is accepted;
every key may be missing, null, of another type, or have a value. `Naming` is
`name.go` character by character, on words over a small alphabet: a name is
derived from a remote or a directory by folding case, replacing runs of unsafe
characters, trimming and cutting. The letters are few, the rules are all there.

`Document` is the JSON of a review and the fields `review.Parse` makes of it, a
field being absent, unreadable or read. Numbers are kept as twice their value, so
that one that is not an integer can be said; whether they were written with a
point is kept too, because the code reads the two by different functions, and whether a fraction is
lost by reading it as a float, which the schema's validator, exact, still sees.
`Schema` says of each field what the schema demands, which failures its validator
reports and where. `Structural` and `Advisories` are the checks, each an operator
that yields the set of diagnostics it raises (and the advisories it skips). Texts
are told apart by what the checks ask of them: long enough, one of the stock
phrases, alike but for case. `Validate` composes them in the order of
the code: parse, precondition, anchors, structure, advisories, verdict,
and then what `collect-reviews` reads of the stored document. Its repository
stands still; `Verify` is about one that does not.

`Registry` resolves a name typed to the entries it may mean; `Guide` is the
registry the program really has (schema, checks, topics). `Describe` runs the
command over any registry of a few entries that collide. `Profiles` is `prime`:
each file is found by enumerating the directory and opened later, and between
the two a person may put another file there. The file system may fold case,
and a file may be a link that leads nowhere: it is enumerated, but opening it is
told that there is no such file.
`Guidance` is one run of either command.

The modules compose as follows (an arrow reads "extends"); `Save` also
instantiates `RunLog`, which it implements.

    Save      -> AtomicFile, Database, Layout -> Processes, Faults
    Reviews   -> Save
    Verify    -> Repository, Faults
    Collect
    Setup     -> Naming, Config
    Validate  -> Advisories -> Structural -> Schema -> Document
              -> Guide -> Schema, Registry
    Guidance  -> Profiles, Describe -> Registry

`MCSave`, `MCReviews`, `MCVerify`, `MCCollect`, `MCSetup`, `MCValidate` and
`MCGuidance` give the constants values. The modules called `_proofs` hold the
theorems.

Some modules hold definitions marked "A plausible bug". They are alternatives
to the definition next to them which no specification uses; `mutants` in
`PROJECT.json` says which definition each replaces and which property then fails.

## The runs

| Run | Instance | What it shows |
|---|---|---|
| `save_pair` | 2 runs, 2 documents, every kind of store and config, 2 faults | type invariant, the consistency of files, rows, schema and exit codes, the refinement of `RunLog`, and that a run that keeps running ends |
| `save_edit` | violation of `NeverOverwritesConfig` | an operator's config.json can be overwritten |
| `reviews_store` | a reader of each form, 2 runs on a version 1 store, no faults, stored files removed and broken | answers are complete, totals cover the rows, no migration makes a reader fail, `collect-reviews` shows only what was submitted |
| `reviews_crash` | readers that open files, 2 runs from the first use on, 1 fault, a config that may break | every listed row has its file, whole; a file that cannot be named is an error, not a lost review |
| `reviews_young` | violation of `ToolErrorHasCause` | a reader of a store without a table exits 101 |
| `verify_commands` | submissions and a collection, documents of up to two anchors, 2 commits, 2 paths, 1 fault | findings are true of the commit, a pass means all anchors verified, divergence means a difference |
| `verify_clean` | violation of `CleanRunMatched` | a failing `git rev-parse HEAD` drops the comparison with the working tree |
| `verify_links` | violation of `DivergedMeansChanged` | a symbolic link nobody touched is reported as diverged |
| `collect_answers` | 3 runs, 5 documents, 3 of one profile, 3 seconds | the ids of an answer are unique, what supersedes is current, an answer orders submissions as the one before did |
| `setup_names` | every environment with every config file of up to two odd keys, every kind of remote and directory, every ending of git | names are safe, agree between spellings of a remote and are not guessed from silence; an accepted config is obeyed |
| `documents` | some thousands of documents, 7 states of the repository, with and without `--strict` | what is accepted is usable, no defect is hidden, silence is no claim, what `describe` is offered explains the finding |
| `guidance` | profiles of up to 5 lines, 2 edits during a run, a file system that folds case; registries of 3 colliding entries | exit codes and lists tell the truth of the directory, names offered open their entry, nothing is guessed |

Bounds. Two runs are enough for every property that relates a run to one other;
the proofs cover any number. `MaxFaults = 2` lets both runs fail,
or one fail and the clean-up of the failure fail as well. One document with a
ref and one oversized document that never parsed reach both trees and all
verdicts; two runs may choose the same one. The configs a run may find are none and
a disabled store, and an operator may save one that does not load at any moment;
the defaults are what another run has put there, and a file an operator wrote
(`Custom`) is read like them. One tick
of the clock tells two rows apart. SHA-256 collisions are excluded by `Digest`.

The readers' runs split the questions: migration, growth of the log and tampering
without faults, then content with a fault and a breaking config; each keeps
small what the other varies. `MaxSlips` bounds the failures of the readers' own
calls. Readers do not disturb one another (they write nothing), so one at a
time loses no behaviour of any one of them.

For `verify_commands`, one file grows between two commits and the other path turns
from a symbolic link to that file into a directory, so every outcome of an anchor
is reached, and the working tree may hold the link at either path, so that it
leads to itself. Anchors
may name a path as git would, in a spelling only `ls-tree` takes, or through
`..`. Two anchors of one document, or one of each of two, are what the cache and
the one question about HEAD can get wrong. The repository changes without bound.

`collect_answers` needs three documents of a profile, so that one is superseded
twice, and three runs, two of which may race while the third comes between.
Its clock never goes back.

In `setup_names` a segment has at most 7 characters, so that cutting one, and
trimming what is left, happens; a remote has up to three words drawn from the
shapes the code treats differently (both cases, unsafe characters, marks at
either end, `.git`, `..`, empty, too long, reserved). The config files depart
from a plain one in one or two keys, since at most two keys are read together.

`documents` takes families of documents instead of all: each departs from a valid
one in fields that some check reads together (ids; priorities with the
assessment; the file, line and end of an anchor; suggestions; any two fields of a
comment; any of the root), because checks of different families share no field.
Lines lie about the length of the file and about the largest integers that are
read exactly, which are 16 and 24 here. The limits of the advisories are 2, so
that three comments exceed them.

In `guidance` one edit between the enumeration and the read tells the two apart;
two undo or compound it. Three entries are enough for a name to mean one, two or
all of them and for an alias to lie between.

Fairness. All that `FairSpec` assumes is that time passes: weak fairness of each
run's `Deadline`. That a process goes on running is the antecedent of
`EveryRunEnds`, for each run by itself (`WF_vars(Step(r)) => <>(pc[r] = "gone")`),
because the others may stop wherever they are, also with the lock in their hands:
a process can be suspended in the middle of a migration for good. A run that finds
the lock taken is refused by `BEGIN IMMEDIATE` and `INSERT` after
`busyTimeoutMillis`, which is one step here, and by the loop of `convertToWAL`,
which is not: without its deadline, or with one that starts anew at every attempt
(`ConvertToWALAnew`), a run would ask and pause for ever. Nothing is assumed about
getting the lock. Kills and failures are bounded by `MaxFaults`, and no property
relies on their happening.

## The proofs

`Save_proofs` proves, for any sets of runs, documents, refs and repositories and
any number of faults (the assumptions are those named in the modules: the
constants are disjoint as their comments say, nothing else):

- `TypeCorrect`: `Spec => []TypeOK`.
- `RowsHaveFiles` and `FilesAreWhole`: `RowHasFile` and `NoTornFile`. Neither is
  inductive. `FilesInv` adds that a temporary file is complete when it is
  renamed (`TempComplete`), that what a run writes under a name is what the name
  promises (`CallsKeepPromises`), and that a run that has come to its row has
  its file in place (`FileBeforeRow`). The heart is `CreateKeepsFiles`: a step
  of `createAtomic`, also the rename over a file of another run, leaves every
  complete file as it is, because the bytes under a name are determined by it.
- `SchemaIsVersioned` and `MigrationsAreCurrent`: `SchemaMatchesVersion` and
  `NoStaleMigration`, from `MigrationInv`, whose main part is `LockHeld`: the
  sessions inside a transaction are exactly the holder of the lock.
- `Refinement`: `Spec => ImplementsRunLog`, from `FilesInv` and
  `RowsAreInserted`: every step adds at most one file and changes no row, or adds
  one row of a run that had none and whose file is there, or is a stutter.

`Reviews_proofs` adds, for any number of readers:

- `ReadersOnlyRead`: `ReadersSpec => Spec` where nobody tampers with the files
  (`Tampers = {}`), which carries every theorem above over to the system with
  readers.
- `ReadersTypeCorrect`, `ReadersShowWhatWasSubmitted` and
  `TotalAlwaysCoversListed`, whoever tampers: `ReadersTypeOK`, `ShownIsPromised`
  and `TotalCoversListed`. `ReadersInv` has a part for the store, which keeps its
  types under tampering and its promises without (`StoreInv`), and one for the
  answers: what a reader shows belongs to a row it has listed and is what that
  row's path promises, and what it has counted covers what it has listed
  (`AnswersInv`). Steps of runs leave it true because rows stay where they are
  (`RowsStay`); a reader's own steps because the file of a row is whole
  (`FilesAreWhole`) or, for `collect-reviews`, because it compares the digest.
- `UnreadableAlwaysHasCause`: `UnreadableHasCause`, where nobody tampers. A row
  that is listed has its file (`RowsHaveFiles`), and every reader accepts that file
  (`ListedIsReadable`), because only an input that names a commit, and so is JSON,
  is ever recorded as valid (`JudgedInv`). What is left to fail is the reader's own
  call, which `SlipsInv` counts.

`Ends_proofs` proves how runs and readers end. Of runs: `VerdictsAreRecorded`,
`ToolFailuresLeaveNoRow`, `VerdictsLeaveNoTemp`, `TreesAlwaysTellTruth` and
`OrphansHaveCauses`, each the property of that name in `save_pair`. `EndsInv`
says of each run what its position tells of its connection (`SessionAt`), its
target (`TargetOf`) and its temporary file (`TempOf`), what an exit code tells of
the run that had it (`EndOf`), and that a recorded run has its row (`RowOfRun`).
All of it is about a run's own variables and the log, which only grows, so other
runs cannot disturb it (`OthersKeep`); what is left is one step per action of the
run itself. The two theorems about files follow a file back to the run that
placed it: a path of the store changes only in a rename (`FileSteps`).

Two more theorems carry most of the argument that every run ends, for any number
of runs and of failures. `Left(r)` counts the steps a run may still take, its
retries aside: its stage, its place in the call of `createAtomic` (there may be
two, so a stage weighs more than a call) and its way through the database, where
asking for WAL and pausing weigh the same and weigh less once the deadline has
passed; 84 at most (`LeftIsBounded`). `EveryStepAlwaysCounts` says that each step
of the run itself, its deadline's passing and its being killed make that less,
except for an attempt refused and a pause ended before the deadline (`Retries`),
and that no step of another run, of the operator or of the clock makes it more. So
a run takes finitely many steps besides its retries and none of these once its
deadline has passed, which is where the code's loop could go wrong. `NoRunIsEverStuck` says that a run that is
not gone is always where the guard of one of its steps is met (`MayGoOn`), and that
one that is gone does not hold the lock. It needs `EndsInv`, `MigrationInv`
(a migration acts on version 0 or 1, and there is an action for each), that a run
is killed or in `Materialize` only where it should be (`Standing`), and that
config.json is whole at all times (`ConfigSteps`). From both to `EveryRunEnds` there
are two steps left: that `MayGoOn` enables the run's step, and weak fairness, of it
and of time; they are beyond the prover, and `save_pair` checks the whole.

Of readers it proves `AnswersAreComplete` (`CompleteAnswer`), whoever tampers
and from any store. `Complete` says what each stage of a reader has learnt of the
log it was started on: from the answer to its first question on it knows its
repository (`KnowsRepo`), from the second on it has its rows (`ListsRows`). The case
that needs the database is the answer without a query: a store that is not there
has never had rows (`WrittenInv`, which rests on `MigrationInv`, as a migration must
commit a database that exists). `ToolErrorsHaveCauses` is `ToolErrorHasCause` under
two assumptions, stated in the theorem, without which the code does not have it:
the store is of a released version (a younger one is `reviews_young`, see below)
and nobody writes a config that does not load. Then `MigrationInv` keeps the store
out of the rollback journal and its version from falling, so that no reader is
locked out or asks for a column that is not there (`ReadersAreAnswered`), and the
config stays readable because runs put nothing but the defaults there
(`ConfigInv`).

`Verify_proofs` proves every property of `verify_commands`, for any repository,
any commands and documents, any number of failures and whatever others do:
`VerifyTypeCorrect`, `FindingsAlwaysTrue`, `ValidMeansVerified`,
`CleanMeansAgreed` and `DivergedMeansDiffered`. The last excepts a path committed
as a symbolic link, for which it is not so (`verify_links`). `VerifyInv` has a part for the
position of the command (which anchor, and that only a blob at HEAD is
compared), one for the cache (a state that is no error tells the truth of the
commit), one for the history (it is up to date, and as long as HEAD has not
strayed and git has answered, HEAD was found to be the ref) and `ClaimsInv`, what
each outcome so far claims. Steps that settle an anchor all go through
`SettleStep`; those that learn a file state through `LearnStep`; `OthersStep` is
everybody else. `ReportInv` adds how far a submission came before its verdict.

`Collect_proofs` proves every property of `collect_answers`, for any number of
runs, documents and seconds: `CollectTypeCorrect`, `QualifiedIdsAlwaysUnique`,
`SupersededByAlwaysCurrent` and `OrderAlwaysKept`. The last needs an invariant
about the rows: unless two runs raced, no row of a document is stamped earlier
than one that is already there, so the minimum an answer was built on stays the
minimum (`Lasting`); and two documents compare one way or the other
(`BeforeIsTotal`), so two sorted answers with the same times agree (`SameOrder`).

`Setup_proofs` proves of the names, for every alphabet, every length and every
remote, directory and config file: `ValidNamesFit` (a name with valid segments is
not longer than the documentation allows, which is why the code checks no
length), `DerivedNamesAreValid` (what is derived from a remote or a directory
is a name `ValidateName` accepts) and from it `NamesAlwaysSafe`, that is
`NamesAreSafe`. `Tidy` is what a segment is between the steps of
`normalizeSegment`. Of the run it proves `NamesAlwaysHeard` (`NoNameFromSilence`)
and `AcceptedAlwaysObeyed` (`AcceptedIsObeyed`, from `LoadObeys`: what `Load`
makes of any file that `Accepted` lets pass). `SpellingsAlwaysAgree` is
`SpellingsAgree`: a remote whose name has two segments or more, all of letters and
digits, could have been written as a URL or scp-like, with or without `.git`,
with a slash before or behind, its host in capitals or not, and would have got
the same name. `PlainRemotesAgree` proves it of the function, by following a
spelling through the rewrites: each is the plain words with slashes and one `.git` at most
around them (`SpellingsAreStems`), `WithoutGit` and `WithoutSlashes` lead back to
the same words (`GitGoes`, `NoGit`, `SlashesGo`, `HostIsLowered`), and
normalisation leaves plain words alone (`PlainNameStays`). Names with other
characters are left to the run's alphabet.

`Guidance_proofs` proves, for every registry, directory and number of edits:
`OfferedNamesAlwaysOpen` (`OfferedNamesOpen`, from `Registered`: an entry that was
accepted shares no name with another of its namespace), `DescribeNeverGuesses`
(`NothingIsGuessed`, from `OpenedSoFar`, which matches what has been opened with
the names resolved so far, and `ResolveAnswers`, by which the index by last
segment finds the entries that answer to a name), and `PrimeAlwaysTellsTruth` and
`OnlyTheNamedIsRead` from `Tracked`, which says how the history of a file (`was`)
covers whatever a run has enumerated or opened. `ListsAreFaithful`
(`ListIsFaithful`) needs to know of the queue of a listing that it holds every
name that was enumerated, once (`SetToSeqLists`), that what has left it is in the
answer (`Listing`, `NoneIsLost`), and that what the answer says of a name was true
of its file at some time of the run (`ListedWere`, `BrokenWere`); `Names` is finite
because a directory is.

`Validate_proofs` proves every property of `documents`, for every document,
vocabulary, registry of texts and checkout. The invariant is `ReportInv`: at each
stage a run knows exactly what the checks so far have to say of the document
(`Reported`, `Structured`, `Found`, and of what was skipped `Unchecked`), and what
is valid has no error. The rest is about what the checks compute:

- `DefectsAreNeverHidden` (`NoDefectIsHidden`): a failure of the schema is dropped
  only where an error of another check has its very path (`FailuresAreReported`).
- `LensesAlwaysOpen` (`LensesOpen`): each failure names a field of the schema, or
  an object (`Placed`), the nearest known field included (`NearestExists`), and a
  name the schema holds for unambiguous is that of one entry (`FieldOpens`,
  `CheckOpens`), because no key of the schema is the name of a check or a topic.
- `ValidIsAlwaysUsable` (`ValidIsUsable`): what the schema admits, read by the
  lenient parser, is there and of its type (`CommentAdmitted`, `AnchorAdmitted`);
  an integer in range is read as it was written (`NumberRead`), a priority always
  and a line because no verified file is as long as the bound of exact floats;
  and a document that claims something was verified in all it claims
  (`ClaimsHold`), since otherwise it would have an error.
- `AssessmentAlwaysMatches` (`AssessmentMatchesBands`): the four bands part the
  comments (`BandsPart`), and the first of the worst comments exists
  (`WorstIsWorst`, by the least prefix that has none) and decides for the advisory
  what the bands decide for the shape.
- `SilenceAlwaysMeansSound` (`SilenceMeansSound`): what was not skipped could be
  asked of every comment (`UsableThroughout`), an integer keeps its side of a band
  however it is read (`IntegerReadAs`), and suffixes without a gap are all the
  numbers up to the last (`NoGapIsAll`).

The theorems assume of documents what `IsDocument` says: that they are JSON values
as the decoder leaves them (`WellFormed`: an array has finitely many elements, a
string has no members) and that the edit distance of any key to any known one is a
number. TLC checks it of every document of the run. Proving found two things. That
a priority past the exact range in two spellings counts as two was missing from
`SilenceMeansSound`, and the run had no such document; both now have. And the bound
of exact floats must not be less than the greatest priority, which
`DocumentAssumption` now says (it is 2^53, and 16 in the run).

What is only model-checked: liveness (`EveryRunEnds`), which is beyond the proof
system; its safe part is proved (`EveryStepAlwaysCounts`, `NoRunIsEverStuck`). Every invariant and action property of the runs is proved.

## What disagrees with the documentation

The violated properties are listed as findings. `docs/config.md` says that an
existing config.json is never overwritten, which an operator who writes it at the
wrong moment finds out is not so. The readers are said to answer a store nobody
has written to as empty; they fail in the window a first run opens.
`docs/features/combined-reviews.md` takes a clean run for evidence about the
working tree, which it is not when git could not say what HEAD is. `docs/cli.md`
takes "differs" for git's own answer to whether a file has changed; of a symbolic
link `git hash-object` hashes the file behind it and `git rev-parse` names the link,
so an anchor at one is reported as diverged in a clean tree, and one at a link that
leads nowhere, or to a directory, cannot be checked.

One thing is left at a hazard, since the documentation can be read either way:
`docs/features/combined-reviews.md` calls ordinals stable as long as nothing new
is submitted, but a document two runs are recording at once may move forward when
the second row arrives. `OrderIsKept` therefore excepts it.

Smaller differences were met while translating and follow from the definitions
without a run of their own:

- `docs/config.md` says that `known: false` comes with no reviews. Whether a
  repository is known and what it holds are two questions of two connections
  (`Answers` in `Reviews`), so a run that records between them is listed.
- A migration between the reading of the version and the query hides the
  assessment of a row that a newer schema wrote.
- `docs/config.md` says that neither derivation gives a name of one segment; the
  remote `https://host/` gives `host`. A remote whose host is `local` is filed
  under `local/`. A segment that is left empty yields a name under `local/`, where
  section 4.8 says no-repo. `ValidateName` accepts `no-repo` as an override.
- `.git` is trimmed before a trailing `/`, so `SpellingsAgree` does not claim
  `name.git/` among the spellings.
- `classifyOriginErr` takes any exit status of git for "no origin".
- `null` is accepted for `store`, `enabled` and `repos`; `LOAM_REFINERY_HOME` may
  be relative, which the config file may not.
- `docs/review-document.md` 11.4 says that a skipped check is reported as skipped;
  a check of one comment that cannot read it is silent (its schema failure
  is not).
- An integer written with a point is read through a float, so the first one
  past the exact range is taken for its neighbour. Two comments of one such
  priority, one written with a point, are two priorities to `priority-flat`.
- A fraction too small for a float (5.00000000000000000001) is dropped by `integral`
  and seen by the schema, which rejects the document: the advisories of such a
  document speak of the integer beside it.
- A profile that is a link that leads nowhere is unknown to `prime --profile` (exit 2)
  and passed over by `--list`, which names other files it cannot use.
- `duplicate-anchor` takes an unreadable end for none, and a line for another
  thing than the span of that one line.
- `prime --list` exits 0 and names every file as broken when the directory
  becomes unreadable after it was enumerated. The body of a profile is trimmed
  and its line endings changed, where `docs/cli.md` says verbatim.

## Plan

What was planned is built: the modules in the order in which they appear above,
the store first. What a next extension would take up:

1. `Validate` over `Verify`: the verdict of a document whose repository moves while
   its schema fails. The two share no state but the document, so this is a larger
   instance more than a new question.
2. An abstract specification of `collect-reviews` that `Reviews`, `Verify` and
   `Collect` implement together. Each covers one part of the command.

## What is not modelled

Rendering (`internal/render`: JSON, Markdown, HTML, highlighting). It formats
answers that are already computed, keeps no state, and what could be wrong with
it is escaping and layout, which is data throughout.

The `schema` and `version` commands: each prints one constant text.

The generated query code (`internal/store/sqlc`): the queries are modelled, from
`query.sql`, where they are called.

Wiring (`main.go`): only the order in which the registry is filled, which decides
what `describe` offers. The rest constructs values and passes an exit code on.

Of modelled parts: the `immutable=1` fallback for a store in a directory the
reader cannot write; a change of `store.path` by an operator while a reader works;
the translation of what `Verify` finds into `head_check` entries; suggestions in
messages and the text of messages; the file system after a power loss (nothing in
the code syncs).
