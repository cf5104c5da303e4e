----------------------------- MODULE MCValidate -----------------------------
(***************************************************************************)
(* Instances of Validate for TLC: families of documents, each of which     *)
(* departs from a valid one in a few fields that some check reads together.*)
(***************************************************************************)
EXTENDS Validate, TLC

MCIds == {"a-1", "a-2", "a-3", "b-2"}
MCCommits == {"c0ffee", "facade"}
MCLabels == {"deep"}
MCClimbing == {"../f", "/f"}
MCUnprintable == {"f\\g"}
Prose == {"long", "Long!", "thin", "lgtm."}
Verdicts == {"approve", "request_changes", "comment"}
Assessments == {"strong", "sound", "mixed", "weak"}
Categories == {"security", "style"}
Scopes == {"line", "module"}
Odd == {"", "odd"}

MCTexts ==
    {"1", "f", "g", "small"} \cup MCIds \cup MCCommits \cup MCLabels \cup MCClimbing
    \cup MCUnprintable \cup Prose \cup Verdicts \cup Assessments \cup Categories
    \cup Scopes \cup Odd

\* What the schema admits, of the fields it does not leave free.
Restricted ==
    <<"version">> :> {"1"} @@ <<"verdict">> :> Verdicts @@ <<"summary">> :> Prose
    @@ <<"ref">> :> MCCommits @@ <<"profile">> :> MCLabels
    @@ <<"assessment">> :> Assessments
    @@ <<"comments", "id">> :> MCIds @@ <<"comments", "category">> :> Categories
    @@ <<"comments", "body">> :> Prose
    @@ <<"comments", "anchors", "file">> :> {"f", "g", "../f", "odd"}
    @@ <<"comments", "suggestions", "summary">> :> Prose
    @@ <<"comments", "suggestions", "effort">> :> {"small"}
    @@ <<"comments", "suggestions", "scope">> :> Scopes
MCAdmitted ==
    [field \in Strings |-> IF field \in DOMAIN Restricted THEN Restricted[field] ELSE MCTexts]

MCDistance ==
    [pair \in {"sumary", "lime", "zzz"} \X UNION {Properties(level) : level \in Levels} |->
        IF pair \in {<<"sumary", "summary">>, <<"lime", "line">>} THEN 1 ELSE 9]

MCIdOf ==
    [t \in MCTexts |->
        CASE t = "a-1" -> [slug |-> "a", suffix |-> 1]
          [] t = "a-2" -> [slug |-> "a", suffix |-> 2]
          [] t = "a-3" -> [slug |-> "a", suffix |-> 3]
          [] t = "b-2" -> [slug |-> "b", suffix |-> 2]
          [] OTHER -> [slug |-> t, suffix |-> 0]]
MCNormal == [t \in MCTexts |-> IF t \in {"", "thin"} THEN 1 ELSE 3]
MCFold == [t \in MCTexts |-> IF t = "Long!" THEN "long" ELSE t]
MCClauses == [t \in MCTexts |-> IF t = "lgtm." THEN {"lgtm", ""} ELSE {t}]

-----------------------------------------------------------------------------

Absent == Json("absent")
Put(obj, key, value) ==
    IF value = Absent THEN [k \in DOMAIN obj \ {key} |-> obj[k]] ELSE key :> value @@ obj

Comment == [id |-> String("a-1"), priority |-> Digits(5), category |-> String("security"),
            body |-> String("long"), anchors |-> Array(<<>>), suggestions |-> Array(<<>>)]
Suggestion == [summary |-> String("long"), effort |-> String("small"),
               scope |-> String("line"), pros |-> Array(<<String("long")>>),
               cons |-> Array(<<String("long")>>)]
Review == [version |-> String("1"), verdict |-> String("comment"), summary |-> String("long"),
           ref |-> String("c0ffee"), comments |-> Array(<<Object(Comment)>>)]
Of(comments) ==
    Put(Review, "comments", Array([i \in DOMAIN comments |-> Object(comments[i])]))
Numbers3 == <<"a-1", "a-2", "a-3">>
Lists3(S) == UNION {[1..n -> S] : n \in 0..3}

\* By their ids: repeated, with a gap, malformed, of a wrong type or missing.
IdValues == {String(t) : t \in MCIds \cup {"odd"}} \cup {Digits(1), Absent}
IdReviews ==
    {Of([i \in DOMAIN ids |-> Put(Comment, "id", ids[i])]) : ids \in Lists3(IdValues)}

\* By their priorities, in every spelling, and their assessment.
PriorityValues ==
    {Digits(3), Digits(4), Digits(9), Float(18), Float(7), Beside(18), Digits(12), Digits(17),
     Float(34), String("odd"), Absent}
AssessmentValues == {String(t) : t \in {"strong", "weak", "mixed", "odd"}} \cup {Digits(1), Absent}
Prioritised(priorities) ==
    [i \in DOMAIN priorities |->
        Put(Put(Comment, "id", String(Numbers3[i])), "priority", priorities[i])]
PriorityReviews ==
    {Put(Of(Prioritised(priorities)), "assessment", assessment) :
        priorities \in UNION {[1..n -> PriorityValues] : n \in 1..2}
                       \cup [1..3 -> {Digits(3), Digits(4), Float(18), String("odd")}],
        assessment \in AssessmentValues}

\* By their anchors, of lines about the length of the file and about the bound.
FileValues == {String(t) : t \in {"f", "g", "../f", "f\\g"}} \cup {Digits(1), Absent}
LineValues == {Absent, Digits(1), Digits(3), Digits(4), Digits(20), Float(4), Beside(4),
               Float(34), Digits(0)}
Anchored(file, line, end) ==
    Object(Put(Put(Put(NoObject, "file", file), "line", line), "end_line", end))
Second == [Comment EXCEPT !.id = String("a-2"), !.body = String("Long!"),
                          !.anchors = Array(<<Anchored(String("f"), Digits(1), Absent)>>)]
AnchorReviews ==
    {Of(<<[Comment EXCEPT !.anchors = Array(<<Anchored(file, line, end)>>)], Second>>) :
        file \in FileValues, line \in LineValues, end \in LineValues}

\* By their suggestions.
Suggested ==
    {Object(Put(Suggestion, "cons", Array(<<>>))), Object(Put(Suggestion, "scope", String("module"))),
     Object([Suggestion EXCEPT !.scope = String("module"), !.cons = Array(<<>>)]),
     Object(Put(Suggestion, "cons", Array(<<Digits(1)>>))), Object(Put(Suggestion, "pros", Array(<<>>))),
     Object(Put(Suggestion, "scope", Absent)), Object(Put(Suggestion, "lime", Digits(1))),
     Object(Put(Suggestion, "effort", String("odd"))), Object(NoObject), String("odd")}
SuggestionReviews ==
    {Of(<<[Comment EXCEPT !.priority = priority, !.suggestions = suggestions]>>) :
        priority \in {Digits(5), Digits(7)},
        suggestions \in {Array(s) : s \in UNION {[1..n -> Suggested] : n \in 0..2}}
                        \cup {String("odd")}}

\* By the fields of a comment: of a wrong type or missing, one or two of them.
FieldValues == {Digits(1), Absent, String("odd"), String("lgtm.")}
CommentReviews ==
    {Of(<<Put(Put(Comment, k, u), l, v)>>) :
        k, l \in DOMAIN Comment \cup {"code", "zzz"}, u, v \in FieldValues}
    \cup {Put(Review, "comments", Array(<<first, second>>)) :
             first, second \in {Object(Comment), Object(NoObject), String("odd"), Null}}

\* By the fields of the root.
CommentsValues ==
    {Array(<<>>), Array(<<Object(Comment)>>), Array(<<String("odd")>>), String("odd"), Absent}
RootReviews ==
    {Put(Put(Put(Put(Review, "verdict", verdict), "comments", comments), key, String("odd")),
         "summary", summary) :
        verdict \in {String("approve"), String("comment"), String("odd"), Digits(1), Absent},
        comments \in CommentsValues, key \in {"summary", "sumary", "zzz"},
        summary \in {String("long"), String("thin"), String(""), Digits(1), Absent}}
    \cup {Put(Put(Put(Review, "profile", profile), "ref", ref), "version", version) :
             profile \in {Absent, String("deep"), String("odd"), Digits(1)},
             ref \in {Absent, String("c0ffee"), String("facade"), String("odd"), Digits(1)},
             version \in {Absent, String("1"), String("odd"), Digits(1)}}

-----------------------------------------------------------------------------

One(root) == [json |-> "one", root |-> Object(root)]
NoDocuments ==
    {[json |-> "none", root |-> Null], [json |-> "many", root |-> Object(Review)],
     [json |-> "one", root |-> Array(<<Object(Review)>>)], [json |-> "one", root |-> Null]}

\* f has 3 lines at either commit, of which the last is checked out.
Repo == [source |-> "repo", commits |-> MCCommits, head |-> "facade",
         lines |-> "f" :> 3 @@ "f\\g" :> 3, unreadable |-> {}, diverged |-> {}]
RepoStates ==
    {Repo, [Repo EXCEPT !.source = "none"], [Repo EXCEPT !.source = "unavailable"],
     [Repo EXCEPT !.unreadable = {"f"}], [Repo EXCEPT !.diverged = {"f"}],
     [Repo EXCEPT !.diverged = {"f"}, !.head = "c0ffee"],
     [Repo EXCEPT !.commits = {"facade"}]}

Run(root, strictly, where) == [source |-> One(root), strict |-> strictly, checkout |-> where]

MCStarts ==
    [source : NoDocuments, strict : BOOLEAN, checkout : {Repo}]
    \cup {Run(root, FALSE, Repo) : root \in IdReviews \cup CommentReviews}
    \cup {Run(root, strictly, Repo) : root \in PriorityReviews \cup SuggestionReviews,
                                      strictly \in BOOLEAN}
    \cup {Run(root, FALSE, where) : root \in AnchorReviews, where \in RepoStates}
    \cup {Run(root, TRUE, where) : root \in RootReviews,
                                   where \in {Repo, [Repo EXCEPT !.commits = {"facade"}]}}

=============================================================================
