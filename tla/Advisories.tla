----------------------------- MODULE Advisories -----------------------------
(***************************************************************************)
(* The advisories (internal/advisory): what a review can be told about its *)
(* quality.  One that would have to reason about every comment is skipped, *)
(* and says so, when some comment cannot be read.                          *)
(***************************************************************************)
EXTENDS Structural, FiniteSetsExt

CONSTANTS
    IdOf,       \* the slug of an id, and its suffix, 0 when it has none
    Normal,     \* the length of a text, whitespace collapsed
    Fold,       \* a text without case and surrounding punctuation
    Clauses,    \* the sentences of a text, folded
    Phrases,    \* the stock phrases
    BodyFloor,  \* the length under which a body or a summary is thin
    FlatFloor,  \* the comments from which one priority is flat
    FloodLimit, \* the comments beyond which a review is a flood
    FewComments \* the comments from which a summary may be thin

ASSUME AdvisoriesAssumption ==
    /\ IdOf \in [Texts -> [slug : STRING, suffix : Nat]]
    /\ Normal \in [Texts -> Nat]
    /\ DOMAIN Fold = Texts
    /\ Clauses \in [Texts -> SUBSET (Phrases \cup STRING)]
    /\ BodyFloor \in Nat /\ FloodLimit \in Nat
    /\ FlatFloor \in Nat \ {0} /\ FewComments \in Nat

Advice(name, comment, path) == Diagnostic("advisory", name, comment, path, Named(name))
Skip(reason, name) == [name |-> name, reason |-> reason]

Nowhere == Pointer(<<>>, <<>>)
AtRoot(key) == Pointer(<<>>, <<key>>)
AtAnchor(a) == Pointer(<<a[1] - 1, a[2] - 1>>, Anchors)
InSuggestion(s, key) == Pointer(<<s[1] - 1, s[2] - 1>>, Append(Suggestions, key))

\* The advice of one name on those comments of which Holds(comment).
OnComments(doc, name, key, Holds(_)) ==
    {Advice(name, Id(doc.comments[i]), InComment(i, key)) :
        i \in {i \in DOMAIN doc.comments : Holds(doc.comments[i])}}

SuggestionsOf(doc) ==
    UNION {{<<i, j>> : j \in DOMAIN doc.comments[i].suggestions} : i \in DOMAIN doc.comments}

OnSuggestions(doc, name, key, Holds(_)) ==
    {Advice(name, Id(doc.comments[s[1]]), InSuggestion(s, key)) :
        s \in {s \in SuggestionsOf(doc) : Holds(doc.comments[s[1]].suggestions[s[2]])}}

-----------------------------------------------------------------------------

\* The comments of one slug, and their suffixes.
Numbered(doc) ==
    {i \in DOMAIN doc.comments :
        doc.comments[i].id.ok /\ IdOf[doc.comments[i].id.value].suffix > 0}
IdAt(doc, i) == IdOf[doc.comments[i].id.value]
Suffixes(doc, slug) ==
    {IdAt(doc, i).suffix : i \in {i \in Numbered(doc) : IdAt(doc, i).slug = slug}}

\* A plausible bug: only the number of suffixes is compared with the last.
GapsOfLast(S) == {s \in S : s = Max(S) /\ s > Cardinality(S) + 1}

\* firstGap: sorted, each suffix is the number of those up to it.
Gaps(S) == {s \in S : Cardinality({t \in S : t <= s}) # s}

IdGrouping(doc) ==
    {LET i == Min({i \in Numbered(doc) :
                     IdAt(doc, i) = [slug |-> slug, suffix |-> Min(Gaps(Suffixes(doc, slug)))]})
     IN Advice("id-grouping", Id(doc.comments[i]), InComment(i, "id")) :
        slug \in {slug \in {IdAt(doc, i).slug : i \in Numbered(doc)} :
                     Gaps(Suffixes(doc, slug)) # {}}}

-----------------------------------------------------------------------------

BodyThin(doc) ==
    OnComments(doc, "body-thin", "body",
        LAMBDA c : c.body.ok /\ Normal[c.body.value] < BodyFloor)

AllClausesVacuous(body) ==
    Clauses[body] \ {""} # {} /\ Clauses[body] \ {""} \subseteq Phrases

VacuousBody(doc) ==
    OnComments(doc, "vacuous-body", "body",
        LAMBDA c : c.body.ok /\ AllClausesVacuous(c.body.value))

SuggestionAbsent(doc) ==
    OnComments(doc, "suggestion-absent", "suggestions",
        LAMBDA c : /\ c.priority.ok /\ c.priority.value >= 7
                   /\ c.suggestionsArray /\ c.suggestions = <<>>)

SuggestionNoCons(doc) ==
    OnSuggestions(doc, "suggestion-no-cons", "cons",
        LAMBDA s : s.cons.ok /\ s.cons.value = <<>>)

SuggestionNoPros(doc) ==
    OnSuggestions(doc, "suggestion-no-pros", "pros",
        LAMBDA s : s.pros.ok /\ s.pros.value = <<>>)

Broad(s) == s.scope.ok /\ s.scope.value \in {"module", "project"}

BroadScopeAlone(doc) ==
    {Advice("broad-scope-alone", Id(doc.comments[i]), InSuggestion(<<i, 1>>, "scope")) :
        i \in {i \in DOMAIN doc.comments :
                  /\ Len(doc.comments[i].suggestions) = 1
                  /\ Broad(doc.comments[i].suggestions[1])}}

BroadScopeNoCons(doc) ==
    OnSuggestions(doc, "broad-scope-no-cons", "cons",
        LAMBDA s : Broad(s) /\ s.cons.ok /\ s.cons.value = <<>>)

SummaryThin(doc) ==
    IF /\ doc.summary.ok /\ Len(doc.comments) >= FewComments
       /\ Normal[doc.summary.value] < BodyFloor
    THEN {Advice("summary-thin", "", AtRoot("summary"))} ELSE {}

-----------------------------------------------------------------------------

SoftCategories == {"testing", "maintainability", "documentation", "style"}

PriorityCategoryConvention(doc) ==
    OnComments(doc, "priority-category-convention", "priority",
        LAMBDA c : /\ c.priority.ok /\ c.priority.value >= 9
                   /\ c.category.ok /\ c.category.value \in SoftCategories)

\* A plausible bug: a comment without a usable priority is left out instead.
UnusableNever(doc) == IF ~doc.commentsArray THEN {"comments is not an array"} ELSE {}

\* prioritiesUsable: the reasons why an aggregate cannot be formed.
Unusable(doc) ==
    IF ~doc.commentsArray THEN {"comments is not an array"}
    ELSE IF \E i \in DOMAIN doc.comments : ~doc.comments[i].priority.ok
         THEN {"unusable priority"} ELSE {}

PriorityFlat(doc) ==
    IF /\ Unusable(doc) = {} /\ Len(doc.comments) >= FlatFloor
       /\ \A i \in DOMAIN doc.comments :
             doc.comments[i].priority.value = doc.comments[1].priority.value
    THEN {Advice("priority-flat", "", Nowhere)} ELSE {}

\* Where the optional band, 1 to 3, ends.
AssessmentOptionalBandFloor == 4

\* worstUsableComment: the first of the highest priority.
Usable(doc) == {i \in DOMAIN doc.comments : doc.comments[i].priority.ok}
Worst(doc) ==
    Min({i \in Usable(doc) : \A k \in Usable(doc) :
            doc.comments[k].priority.value <= doc.comments[i].priority.value})

\* A plausible bug: the floor itself is taken for part of the band.
SeriousAbove(doc) ==
    Usable(doc) # {} /\ doc.comments[Worst(doc)].priority.value > AssessmentOptionalBandFloor

Serious(doc) ==
    Usable(doc) # {} /\ doc.comments[Worst(doc)].priority.value >= AssessmentOptionalBandFloor

Graded(doc) == doc.assessment.ok /\ doc.assessment.value \in {"strong", "sound", "weak"}

\* A weak review files something serious, a strong or a sound one does not.
AssessmentPriorityMismatch(doc) ==
    LET weak == doc.assessment.value = "weak" IN
    IF ~Graded(doc) \/ Unusable(doc) # {} \/ weak = Serious(doc) THEN {}
    ELSE IF weak THEN {Advice("assessment-priority-mismatch", "", AtRoot("assessment"))}
    ELSE {Advice("assessment-priority-mismatch", Id(doc.comments[Worst(doc)]),
                 InComment(Worst(doc), "priority"))}

\* The span of an anchor; an end_line that cannot be read is 0.
Span(anchor) == <<anchor.file.value, anchor.line.value, anchor.endLine.value>>
Spanned(doc) ==
    {a \in AnchorsOf(doc) : LET anchor == doc.comments[a[1]].anchors[a[2]] IN
                            anchor.file.ok /\ anchor.line.ok}

DuplicateAnchor(doc) ==
    {Advice("duplicate-anchor", Id(doc.comments[a[1]]), AtAnchor(a)) :
        a \in {a \in Spanned(doc) : \E e \in Spanned(doc) :
                  /\ e[1] < a[1]
                  /\ Span(doc.comments[e[1]].anchors[e[2]])
                        = Span(doc.comments[a[1]].anchors[a[2]])}}

DuplicateBody(doc) ==
    {Advice("duplicate-body", Id(doc.comments[i]), InComment(i, "body")) :
        i \in {i \in DOMAIN doc.comments : \E e \in 1..(i - 1) :
                  /\ doc.comments[e].body.ok /\ doc.comments[i].body.ok
                  /\ Fold[doc.comments[e].body.value] = Fold[doc.comments[i].body.value]}}

CommentFlood(doc) ==
    IF doc.commentsWellTyped /\ Len(doc.comments) > FloodLimit
    THEN {Advice("comment-flood", "", AtRoot("comments"))} ELSE {}

FloodUnknown(doc) ==
    IF ~doc.commentsArray THEN {"comments is not an array"}
    ELSE IF ~doc.commentsWellTyped THEN {"some comments are not objects"} ELSE {}

-----------------------------------------------------------------------------

Consistency(doc) == IdGrouping(doc)

Substance(doc) ==
    BodyThin(doc) \cup VacuousBody(doc) \cup SuggestionAbsent(doc)
    \cup SuggestionNoCons(doc) \cup SuggestionNoPros(doc)
    \cup BroadScopeAlone(doc) \cup BroadScopeNoCons(doc) \cup SummaryThin(doc)

Calibration(doc) ==
    PriorityCategoryConvention(doc) \cup PriorityFlat(doc)
    \cup AssessmentPriorityMismatch(doc)
    \cup DuplicateAnchor(doc) \cup DuplicateBody(doc) \cup CommentFlood(doc)

\* All of them, each on its own.
Advised(doc) == Consistency(doc) \cup Substance(doc) \cup Calibration(doc)

\* Run: what could not be asked, beside what was.
Unadvised(doc) ==
    {Skip(reason, "priority-flat") : reason \in Unusable(doc)}
    \cup {Skip(reason, "assessment-priority-mismatch") :
             reason \in {reason \in Unusable(doc) : Graded(doc)}}
    \cup {Skip(reason, "comment-flood") : reason \in FloodUnknown(doc)}

=============================================================================
