------------------------------ MODULE Validate ------------------------------
(***************************************************************************)
(* One submit-review from the bytes given to the verdict and what a caller *)
(* reads of it (internal/cli/submit_review.go, internal/validate), and the *)
(* severity under which collect-reviews shows the document afterwards      *)
(* (internal/collect).  The repository stands still here: Verify is about  *)
(* one that does not, and about git commands that fail half way.           *)
(***************************************************************************)
EXTENDS Advisories, Guide

CONSTANTS
    Starts \* what a run may be given: a source, --strict, a checkout

\* What a document is made of.
IsDocument(root) ==
    /\ \A v \in ValuesOf(root) : WellFormed(v)
    /\ Spelled(Object(root), Root)
    /\ \A c \in Elements(root, "comments") : Spelled(c, Comments)
    /\ \A a \in Inner(root, "anchors") : Spelled(a, Anchors)
    /\ \A s \in Inner(root, "suggestions") : Spelled(s, Suggestions)

Checkouts == {start.checkout : start \in Starts}

ASSUME ValidateAssumption ==
    /\ \A start \in Starts :
          /\ start.strict \in BOOLEAN
          /\ Parses(start.source) => IsDocument(start.source.root.object)
    /\ \A c \in Checkouts :
          /\ c.source \in {"repo", "none", "unavailable"}
          /\ c.commits \subseteq Commits /\ c.head \in c.commits
          /\ c.unreadable \subseteq Texts /\ c.diverged \subseteq DOMAIN c.lines
          \* treeEntry refuses a path that climbs, and no file is that long.
          /\ DOMAIN c.lines \cap Climbing = {}
          /\ \A file \in DOMAIN c.lines : c.lines[file] \in 0..(ExactFloatInt - 1)

VARIABLES
    source,      \* the bytes given
    strict,      \* whether advisories count as errors
    checkout,    \* the repository
    at,          \* where the run stands
    verification,\* what became of the anchors
    diagnostics, \* what was found so far
    skipped,     \* the checks that could not run
    valid,       \* the verdict
    severity     \* the severity shape of the stored review

inputs == <<source, strict, checkout>>
validateVars == <<inputs, at, verification, diagnostics, skipped, valid, severity>>

Doc == Parse(source.root.object)

NotVerified == [source |-> "unavailable", anchors |-> 0, verified |-> 0, diverged |-> {}]
NoSeverity == [max |-> {}, mustFix |-> 0, shouldFix |-> 0, worthFixing |-> 0, optional |-> 0]

ValidateInit ==
    /\ \E start \in Starts :
          source = start.source /\ strict = start.strict /\ checkout = start.checkout
    /\ at = "read"
    /\ verification = NotVerified
    /\ diagnostics = {} /\ skipped = {}
    /\ valid = FALSE
    /\ severity = NoSeverity

-----------------------------------------------------------------------------

\* unparseable: every other check is reported as skipped.
Unparseable ==
    /\ at = "read" /\ ~Parses(source)
    /\ diagnostics' = {Error("document-unparseable", "", Nowhere)}
    /\ skipped' = {Skip("not a document", name) : name \in Tiers \ {"document-unparseable"}}
    /\ at' = "done"
    /\ UNCHANGED <<inputs, verification, valid, severity>>

-----------------------------------------------------------------------------

AnchorChecks == {"anchor-file-missing", "anchor-line-out-of-range"}
Skips(reason) == {Skip(reason, name) : name \in AnchorChecks}

\* AnchorCount: the anchors that are objects.
Claims(doc) == {a \in AnchorsOf(doc) : doc.comments[a[1]].anchors[a[2]].object}

\* A plausible bug: a line that cannot be read is taken for none.
AnchorUsableFile(anchor) == anchor.file.ok

\* anchorUsable: every field this tier reads is readable.
AnchorUsable(anchor) ==
    /\ anchor.file.ok
    /\ anchor.line.present => anchor.line.ok
    /\ anchor.endLine.present => anchor.endLine.ok

RefUsable(doc) == doc.ref.ok /\ doc.ref.value \in Commits

\* checkAnchor, in its order: the file, the working tree, the lines.
Outcome(doc, anchor) ==
    LET file == anchor.file.value IN
    IF ~AnchorUsable(anchor) THEN "unusable"
    ELSE IF file \in checkout.unreadable THEN "unchecked"
    ELSE IF file \notin DOMAIN checkout.lines THEN "file"
    ELSE IF doc.ref.value = checkout.head /\ file \in checkout.diverged THEN "diverged"
    ELSE IF anchor.line.ok /\ anchor.line.value > checkout.lines[file] THEN "line"
    ELSE IF anchor.endLine.ok /\ anchor.endLine.value > checkout.lines[file] THEN "end_line"
    ELSE "verified"

OutcomeAt(doc, a) == Outcome(doc, doc.comments[a[1]].anchors[a[2]])

With(doc, outcomes) ==
    {a \in Claims(doc) : OutcomeAt(doc, a) \in outcomes}

Refuted(doc) ==
    {Error(IF OutcomeAt(doc, a) = "file"
           THEN "anchor-file-missing" ELSE "anchor-line-out-of-range",
           Id(doc.comments[a[1]]),
           InAnchor(a, OutcomeAt(doc, a))) :
        a \in With(doc, {"file", "line", "end_line"})}

\* Whether the anchors can be compared with a commit at all.
Comparable(doc) ==
    checkout.source = "repo" /\ RefUsable(doc) /\ doc.ref.value \in checkout.commits

\* verify: what the repository says of the document.
Verdict(doc) ==
    [source |-> checkout.source,
     anchors |-> Cardinality(Claims(doc)),
     verified |-> IF Comparable(doc) THEN Cardinality(With(doc, {"verified"})) ELSE 0,
     diverged |-> IF Comparable(doc) THEN With(doc, {"diverged"}) ELSE {}]

Findings(doc) ==
    IF Comparable(doc) THEN Refuted(doc)
    ELSE IF checkout.source = "repo" /\ RefUsable(doc)
         THEN {Error("ref-unknown", "", AtRoot("ref"))} ELSE {}

Unverifiable(doc) ==
    IF checkout.source # "repo"
    THEN Skips("no repository") \cup {Skip("no repository", "ref-unknown")}
    ELSE IF Comparable(doc)
    THEN {s \in Skips("unusable field") : With(doc, {"unusable"}) # {}}
         \cup {s \in Skips("git could not read") : With(doc, {"unchecked"}) # {}}
    ELSE {s \in Skips("no usable ref") : Claims(doc) # {}}

\* A plausible bug: skipped checks are no reason to require verification.
RequiredWithout(v, skips) == v.anchors > 0 /\ v.source # "repo"

\* unverified: whether the claims went unchecked.
VerificationRequired(v, skips) == v.anchors > 0 /\ (v.source # "repo" \/ skips # {})

\* The precondition stops the run before anything else is examined.
Diverge ==
    /\ at = "read" /\ Parses(source)
    /\ Verdict(Doc).source = "repo" /\ Verdict(Doc).diverged # {}
    /\ verification' = Verdict(Doc)
    /\ diagnostics' = {Error("anchor-worktree-diverged", "", Nowhere)}
    /\ at' = "done"
    /\ UNCHANGED <<inputs, skipped, valid, severity>>

VerifyAnchors ==
    /\ at = "read" /\ Parses(source)
    /\ Verdict(Doc).diverged = {}
    /\ verification' = Verdict(Doc)
    /\ diagnostics' = Findings(Doc)
        \cup {Error("verification-required", "", Nowhere) :
                 v \in {v \in {Verdict(Doc)} : VerificationRequired(v, Unverifiable(Doc))}}
    /\ skipped' = Unverifiable(Doc)
    /\ at' = "structure"
    /\ UNCHANGED <<inputs, valid, severity>>

CheckStructure ==
    /\ at = "structure"
    /\ diagnostics' = diagnostics \cup StructuralCheck(source.root.object, Doc)
    /\ at' = "advise"
    /\ UNCHANGED <<inputs, verification, skipped, valid, severity>>

Advise ==
    /\ at = "advise"
    /\ diagnostics' = diagnostics \cup Advised(Doc)
    /\ skipped' = skipped \cup Unadvised(Doc)
    /\ at' = "conclude"
    /\ UNCHANGED <<inputs, verification, valid, severity>>

Errors == {d \in diagnostics : d.severity = "error"}

Conclude ==
    /\ at = "conclude"
    /\ valid' = (Errors = {} /\ (strict => diagnostics = {}))
    /\ at' = IF valid' THEN "stored" ELSE "done"
    /\ UNCHANGED <<inputs, verification, diagnostics, skipped, severity>>

-----------------------------------------------------------------------------

Between(doc, low, high) ==
    Cardinality({i \in Usable(doc) : doc.comments[i].priority.value \in low..high})

\* A plausible bug: the bands of a document are those of what it files above 4.
SeverityAbove(doc) ==
    [max |-> {doc.comments[Worst(doc)].priority.value : u \in Usable(doc)},
     mustFix |-> Between(doc, 9, MaxInt), shouldFix |-> Between(doc, 7, 8),
     worthFixing |-> Between(doc, 5, 6), optional |-> Between(doc, -MaxInt, 4)]

\* severityOf and bandOf, of the priorities that can be read.
SeverityOf(doc) ==
    [max |-> {doc.comments[Worst(doc)].priority.value : u \in Usable(doc)},
     mustFix |-> Between(doc, 9, MaxInt), shouldFix |-> Between(doc, 7, 8),
     worthFixing |-> Between(doc, 4, 6), optional |-> Between(doc, -MaxInt, 3)]

\* The stored document is read again and parsed again, by collect-reviews.
Collect ==
    /\ at = "stored"
    /\ severity' = SeverityOf(Doc)
    /\ at' = "done"
    /\ UNCHANGED <<inputs, verification, diagnostics, skipped, valid>>

ValidateNext ==
    \/ Unparseable \/ Diverge \/ VerifyAnchors
    \/ CheckStructure \/ Advise \/ Conclude \/ Collect

ValidateSpec == ValidateInit /\ [][ValidateNext]_validateVars

-----------------------------------------------------------------------------

Commented == Items(source.root.object, "comments")
Raw(i) == Commented[i].object
RawAnchor(a) == Items(Raw(a[1]), "anchors")[a[2]].object

\* A field that is there was read, as it was written.
AsWritten(field, obj, key) ==
    key \in DOMAIN obj =>
        field.ok /\ 2 * field.value = obj[key].twice /\ ~obj[key].residue

\* Whoever reads a stored review reads its values without asking whether they
\* are there (collect.convertAnchors): each must be, as written, with distinct
\* ids, spans within their files, paths that stay in the repository and a
\* profile that no qualified id is split in.
ValidIsUsable ==
    valid =>
        LET doc == Doc IN
        /\ doc.commentsArray /\ doc.ref.ok
        /\ doc.profile.present => doc.profile.ok /\ doc.profile.value \in Labels
        /\ \A i \in DOMAIN doc.comments :
              LET c == doc.comments[i] IN
              /\ c.object /\ c.id.ok /\ c.category.ok /\ c.body.ok
              /\ c.priority.ok /\ AsWritten(c.priority, Raw(i), "priority")
              /\ \A k \in DOMAIN doc.comments : doc.comments[k].id = c.id => i = k
              /\ \A j \in DOMAIN c.suggestions : c.suggestions[j].pros.ok
        /\ \A a \in AnchorsOf(doc) :
              LET anchor == doc.comments[a[1]].anchors[a[2]] IN
              /\ anchor.file.ok /\ anchor.file.value \notin Climbing \cup Unprintable
              /\ AsWritten(anchor.line, RawAnchor(a), "line")
              /\ AsWritten(anchor.endLine, RawAnchor(a), "end_line")
              /\ anchor.endLine.present =>
                    anchor.endLine.value
                        \in anchor.line.value..checkout.lines[anchor.file.value]

\* A document examined is examined whole: whatever the schema has against a
\* field, an error is reported at that very place, whichever check reports it,
\* and of two comments of one id the later is reported
\* (docs/review-document.md, 11.4).
NoDefectIsHidden ==
    at \in {"conclude", "stored"} =>
        /\ \A f \in Failures(source.root.object) : \E d \in Errors : d.path = f.path
        /\ \A i, k \in DOMAIN Commented :
              /\ i < k /\ "id" \in DOMAIN Raw(i) /\ "id" \in DOMAIN Raw(k)
              /\ Raw(i)["id"].type = "string" /\ Raw(i)["id"] = Raw(k)["id"]
              => \E d \in Errors : d.path = InComment(k, "id")

Told(name) == \E d \in diagnostics : d.name = name
Unasked(name) == \E s \in skipped : s.name = name
Answered(name) == ~Told(name) /\ ~Unasked(name)

Listed == IsArray(source.root.object, "comments")
IntegersOnly ==
    /\ Listed
    /\ \A i \in DOMAIN Commented :
          /\ "priority" \in DOMAIN Raw(i)
          /\ Raw(i)["priority"].type = "number" /\ Integral(Raw(i)["priority"])

\* A skipped check is never counted as a pass (review.Skipped): where an
\* advisory about all the comments is neither raised nor reported as skipped,
\* every comment as written bears it out, also those of which a field cannot
\* be read.  Past ExactFloatInt one priority in two spellings reads as two, and
\* a residue that a float64 drops is not part of what is compared.
SilenceMeansSound ==
    at \in {"conclude", "stored"} =>
        /\ Answered("priority-flat") =>
              /\ IntegersOnly
              /\ \/ Len(Commented) < FlatFloor
                 \/ \E i, k \in DOMAIN Commented :
                       Raw(i)["priority"].twice # Raw(k)["priority"].twice
                 \/ \E i \in DOMAIN Commented :
                       Abs(Raw(i)["priority"].twice) > 2 * ExactFloatInt
        /\ Answered("comment-flood") =>
              /\ Listed /\ Len(Commented) <= FloodLimit
              /\ \A i \in DOMAIN Commented : Commented[i].type = "object"
        /\ Answered("assessment-priority-mismatch") /\ Graded(Doc) =>
              /\ IntegersOnly
              /\ (Doc.assessment.value = "weak")
                    <=> \E i \in DOMAIN Commented : Raw(i)["priority"].twice > 6
        /\ Answered("id-grouping") =>
              LET doc == Doc IN
              \A i \in Numbered(doc) : \A n \in 1..(IdAt(doc, i).suffix) :
                 \E k \in Numbered(doc) : IdAt(doc, k) = [IdAt(doc, i) EXCEPT !.suffix = n]

\* What collect-reviews says of the severity of a review and what the advisory
\* said of its assessment come from one scale: a strong or sound review shows
\* nothing above the optional band, a weak one does, and every comment is in
\* one band.
AssessmentMatchesBands ==
    valid /\ at = "done" =>
        LET serious == severity.mustFix + severity.shouldFix + severity.worthFixing IN
        /\ serious + severity.optional = Len(Doc.comments)
        /\ severity.max = {} <=> Doc.comments = <<>>
        /\ severity.mustFix > 0 <=> \E n \in severity.max : n >= 9
        /\ Graded(Doc) /\ ~Told("assessment-priority-mismatch") =>
              ((Doc.assessment.value = "weak") <=> serious > 0)

\* The entry e explains the diagnostic d: the check of its name or, for the
\* schema, the field it is at, or one of that object's own fields.
Explains(e, d) ==
    IF d.name # "schema" THEN e.space = "check" /\ e.name = <<d.name>>
    ELSE \/ d.path.field = Root /\ e.space = "check" /\ e.name = <<"schema">>
         \/ /\ e.space = "field"
            /\ \/ e.name = d.path.field
               \/ \E level \in Levels : /\ level = d.path.field
                                        /\ \E key \in Properties(level) :
                                              e.name = Append(level, key)

\* An exit 1 hands back the describe command that explains it: each name it
\* gives opens one entry, and that entry explains the diagnostic.
LensesOpen ==
    \A d \in diagnostics : \E e \in Guide : Opens(Guide, d.lens, e) /\ Explains(e, d)

=============================================================================
