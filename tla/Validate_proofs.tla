--------------------------- MODULE Validate_proofs --------------------------
(***************************************************************************)
(* What one submit-review finds, reports and stores (Validate.tla), for    *)
(* every document, every checkout and every vocabulary of texts.           *)
(***************************************************************************)
EXTENDS Validate, FiniteSetTheorems, SequenceTheorems, WellFoundedInduction, TLAPS

-----------------------------------------------------------------------------
(* The run                                                                 *)

\* What the repository, the schema and the advisories have to say of a document.
Reported ==
    Findings(Doc)
    \cup {Error("verification-required", "", Nowhere) :
             v \in {v \in {Verdict(Doc)} : VerificationRequired(v, Unverifiable(Doc))}}
Structured == Reported \cup StructuralCheck(source.root.object, Doc)
Found == Structured \cup Advised(Doc)
Unchecked == Unverifiable(Doc) \cup Unadvised(Doc)

Examined == at \in {"conclude", "stored"} \/ valid

\* Past its parsing a run knows of the document what there is to know.
ReportInv ==
    /\ \E start \in Starts :
          source = start.source /\ strict = start.strict /\ checkout = start.checkout
    /\ at \in {"read", "structure", "advise", "conclude", "stored", "done"}
    /\ valid \in BOOLEAN /\ (valid => at \in {"stored", "done"})
    /\ (at \in {"structure", "advise"} \/ Examined) =>
          Parses(source) /\ Verdict(Doc).diverged = {}
    /\ at = "structure" => diagnostics = Reported /\ skipped = Unverifiable(Doc)
    /\ at = "advise" => diagnostics = Structured /\ skipped = Unverifiable(Doc)
    /\ Examined => diagnostics = Found /\ skipped = Unchecked
    /\ valid => Errors = {}
    /\ at = "done" /\ valid => severity = SeverityOf(Doc)

LEMMA ReportStarts == ValidateInit => ReportInv
  BY DEF ValidateInit, ReportInv, Examined

LEMMA DocumentStands ==
    ASSUME UNCHANGED inputs
    PROVE  /\ UNCHANGED <<Doc, Reported, Structured, Found, Unchecked>>
           /\ UNCHANGED <<Findings(Doc), Unverifiable(Doc), Verdict(Doc)>>
  <1>1. source' = source /\ checkout' = checkout /\ strict' = strict
    BY DEF inputs
  <1>2. Doc' = Doc
    BY <1>1 DEF Doc
  <1>3. ASSUME NEW a PROVE OutcomeAt(Doc, a)' = OutcomeAt(Doc, a)
    BY <1>1, <1>2 DEF OutcomeAt, Outcome
  <1>4. ASSUME NEW outcomes PROVE With(Doc, outcomes)' = With(Doc, outcomes)
    BY <1>2, <1>3, Zenon DEF With
  <1>5. Refuted(Doc)' = Refuted(Doc)
    BY <1>2, <1>3, <1>4, Zenon DEF Refuted
  <1>6. Comparable(Doc)' = Comparable(Doc)
    BY <1>1, <1>2, Zenon DEF Comparable
  <1>7. Findings(Doc)' = Findings(Doc)
    BY <1>1, <1>2, <1>5, <1>6, Zenon DEF Findings
  <1>8. Unverifiable(Doc)' = Unverifiable(Doc)
    BY <1>1, <1>2, <1>4, <1>6, Zenon DEF Unverifiable
  <1>9. Verdict(Doc)' = Verdict(Doc)
    BY <1>1, <1>2, <1>4, <1>6, Zenon DEF Verdict
  <1>10. Reported' = Reported
    BY <1>7, <1>8, <1>9, Zenon DEF Reported
  <1>11. Structured' = Structured
    BY <1>1, <1>2, <1>10, Zenon DEF Structured
  <1>12. Found' = Found /\ Unchecked' = Unchecked
    BY <1>2, <1>8, <1>11, Zenon DEF Found, Unchecked
  <1> QED BY <1>2, <1>7, <1>8, <1>9, <1>10, <1>11, <1>12

LEMMA ReportStays == ReportInv /\ [ValidateNext]_validateVars => ReportInv'
  <1> SUFFICES ASSUME ReportInv, [ValidateNext]_validateVars
               PROVE  ReportInv'
    OBVIOUS
  <1>1. UNCHANGED inputs
    BY DEF ValidateNext, Unparseable, Diverge, VerifyAnchors, CheckStructure, Advise,
           Conclude, Collect, validateVars
  <1>2. /\ UNCHANGED <<source, strict, checkout>>
        /\ UNCHANGED <<Doc, Reported, Structured, Found, Unchecked>>
        /\ UNCHANGED <<Findings(Doc), Unverifiable(Doc), Verdict(Doc)>>
    BY <1>1, DocumentStands DEF inputs
  <1>3. Parses(source)' = Parses(source)
    BY <1>2
  <1> USE <1>2, <1>3 DEF ReportInv, Examined
  <1>4. CASE Unparseable
    BY <1>4 DEF Unparseable
  <1>5. CASE Diverge
    BY <1>5 DEF Diverge
  <1>6. CASE VerifyAnchors
    <2>1. diagnostics' = Reported /\ skipped' = Unverifiable(Doc)
      BY <1>6, Zenon DEF VerifyAnchors, Reported
    <2> QED BY <1>6, <2>1 DEF VerifyAnchors
  <1>7. CASE CheckStructure
    <2>1. diagnostics' = Structured /\ UNCHANGED skipped
      BY <1>7 DEF CheckStructure, Structured
    <2> QED BY <1>7, <2>1 DEF CheckStructure
  <1>8. CASE Advise
    <2>1. diagnostics' = Found /\ skipped' = Unchecked
      BY <1>8 DEF Advise, Found, Unchecked
    <2> QED BY <1>8, <2>1 DEF Advise
  <1>9. CASE Conclude
    <2>1. Errors' = Errors
      BY <1>9 DEF Conclude, Errors
    <2> QED BY <1>9, <2>1 DEF Conclude
  <1>10. CASE Collect
    <2>1. Errors' = Errors
      BY <1>10 DEF Collect, Errors
    <2>2. SeverityOf(Doc)' = SeverityOf(Doc)
      BY DEF SeverityOf, Between, Worst, Usable
    <2> QED BY <1>10, <2>1, <2>2 DEF Collect
  <1>11. CASE UNCHANGED validateVars
    <2>1. Errors' = Errors
      BY <1>11 DEF validateVars, Errors
    <2>2. SeverityOf(Doc)' = SeverityOf(Doc)
      BY DEF SeverityOf, Between, Worst, Usable
    <2> QED BY <1>11, <2>1, <2>2 DEF validateVars
  <1> QED BY <1>4, <1>5, <1>6, <1>7, <1>8, <1>9, <1>10, <1>11 DEF ValidateNext

-----------------------------------------------------------------------------
(* Reading a field                                                         *)

LEMMA StringRead ==
    ASSUME NEW obj, NEW key
    PROVE  /\ StringField(obj, key).present <=> key \in DOMAIN obj
           /\ StringField(obj, key).ok <=> (key \in DOMAIN obj /\ obj[key].type = "string")
           /\ StringField(obj, key).ok => StringField(obj, key).value = obj[key].text
  BY DEF StringField, NoString

LEMMA IntRead ==
    ASSUME NEW obj, NEW key
    PROVE  /\ IntField(obj, key).present <=> key \in DOMAIN obj
           /\ IntField(obj, key).ok
                 <=> /\ key \in DOMAIN obj
                     /\ obj[key].type = "number" /\ Integral(obj[key])
           /\ IntField(obj, key).ok => IntField(obj, key).value = IntegerOf(obj[key])
  BY DEF IntField, NoInt

-----------------------------------------------------------------------------
(* No defect is hidden                                                     *)

LEMMA DedicatedAreErrors ==
    ASSUME NEW doc, NEW d \in Dedicated(doc)
    PROVE  d.severity = "error"
  <1>1. \A name, comment, path : Error(name, comment, path).severity = "error"
    BY DEF Error, Diagnostic
  <1>2. CASE d \in IdUnique(doc)
    BY <1>1, <1>2, Zenon DEF IdUnique
  <1>3. CASE d \in AnchorRangeOrdered(doc)
    BY <1>1, <1>3, Zenon DEF AnchorRangeOrdered
  <1>4. CASE d \in AnchorPathSafe(doc)
    BY <1>1, <1>4, Zenon DEF AnchorPathSafe
  <1>5. CASE d \in RefFormat(doc) \cup ProfileFormat(doc)
    BY <1>1, <1>5 DEF RefFormat, ProfileFormat
  <1> QED BY <1>2, <1>3, <1>4, <1>5, Zenon DEF Dedicated

\* Whatever the schema has against a field, an error is raised at that place.
LEMMA FailuresAreReported ==
    ASSUME NEW root, NEW doc, NEW f \in Failures(root)
    PROVE  \E d \in StructuralCheck(root, doc) : d.severity = "error" /\ d.path = f.path
  <1>1. CASE \E d \in Dedicated(doc) : d.path = f.path
    <2>1. PICK d \in Dedicated(doc) : d.path = f.path
      BY <1>1
    <2> QED BY <2>1, DedicatedAreErrors, Zenon DEF StructuralCheck
  <1>2. CASE \A d \in Dedicated(doc) : d.path # f.path
    <2> DEFINE d == Diagnostic("error", "schema", "", f.path, Lens(f.field))
    <2>1. d \in StructuralCheck(root, doc)
      BY <1>2, Zenon DEF StructuralCheck, SchemaCheck
    <2>2. d.severity = "error" /\ d.path = f.path
      BY DEF Diagnostic
    <2> QED BY <2>1, <2>2, Zenon
  <1> QED BY <1>1, <1>2, Zenon

LEMMA CommentParsed ==
    ASSUME NEW root, NEW i \in DOMAIN Items(root, "comments")
    PROVE  /\ i \in DOMAIN Parse(root).comments
           /\ Parse(root).comments[i] = ParseComment(Items(root, "comments")[i])
  BY DEF Parse

LEMMA RepeatedIdsAreReported ==
    ASSUME NEW root, NEW i \in DOMAIN Items(root, "comments"),
           NEW k \in DOMAIN Items(root, "comments"), i < k,
           LET one == Items(root, "comments")[i].object
               other == Items(root, "comments")[k].object
           IN /\ "id" \in DOMAIN one /\ "id" \in DOMAIN other
              /\ one["id"].type = "string" /\ one["id"] = other["id"]
    PROVE  \E d \in StructuralCheck(root, Parse(root)) :
              d.severity = "error" /\ d.path = InComment(k, "id")
  <1> DEFINE doc == Parse(root)
  <1>1. /\ i \in DOMAIN doc.comments /\ k \in DOMAIN doc.comments
        /\ doc.comments[i] = ParseComment(Items(root, "comments")[i])
        /\ doc.comments[k] = ParseComment(Items(root, "comments")[k])
    BY CommentParsed
  <1> HIDE DEF doc
  <1>2. doc.comments[i].id = doc.comments[k].id /\ doc.comments[k].id.ok
    <2>1. /\ doc.comments[i].id = StringField(Items(root, "comments")[i].object, "id")
          /\ doc.comments[k].id = StringField(Items(root, "comments")[k].object, "id")
      BY <1>1 DEF ParseComment
    <2>2. /\ Items(root, "comments")[i].object["id"] = Items(root, "comments")[k].object["id"]
          /\ Items(root, "comments")[i].object["id"].type = "string"
      OBVIOUS
    <2>3. StringField(Items(root, "comments")[i].object, "id")
             = StringField(Items(root, "comments")[k].object, "id")
      BY <2>2 DEF StringField
    <2> QED BY <2>1, <2>2, <2>3, StringRead
  <1> DEFINE d == Error("id-unique", Id(doc.comments[k]), InComment(k, "id"))
  <1>3. d \in IdUnique(doc)
    BY <1>1, <1>2 DEF IdUnique
  <1>4. d.severity = "error" /\ d.path = InComment(k, "id")
    BY DEF Error, Diagnostic
  <1>5. d \in StructuralCheck(root, doc)
    BY <1>3 DEF StructuralCheck, Dedicated
  <1> HIDE DEF d
  <1> QED BY <1>4, <1>5 DEF doc

\* A document that is examined is examined whole: an error at every place the
\* schema has something against, and at the later of two comments with one id
\* (structural.Check; docs/review-document.md, 11.4).
THEOREM DefectsAreNeverHidden == ValidateSpec => []NoDefectIsHidden
  <1>1. ReportInv => NoDefectIsHidden
    <2> SUFFICES ASSUME ReportInv, at \in {"conclude", "stored"}
                 PROVE  /\ \A f \in Failures(source.root.object) : \E d \in Errors : d.path = f.path
                        /\ \A i, k \in DOMAIN Commented :
                              /\ i < k /\ "id" \in DOMAIN Raw(i) /\ "id" \in DOMAIN Raw(k)
                              /\ Raw(i)["id"].type = "string" /\ Raw(i)["id"] = Raw(k)["id"]
                              => \E d \in Errors : d.path = InComment(k, "id")
      BY DEF NoDefectIsHidden
    <2> DEFINE root == source.root.object
    <2>1. StructuralCheck(root, Doc) \subseteq diagnostics
      BY DEF ReportInv, Examined, Found, Structured
    <2>2. \A d \in StructuralCheck(root, Doc) : d.severity = "error" => d \in Errors
      BY <2>1 DEF Errors
    <2> HIDE DEF root
    <2>3. \A f \in Failures(root) : \E d \in Errors : d.path = f.path
      BY <2>2, FailuresAreReported
    <2>4. \A i, k \in DOMAIN Commented :
             /\ i < k /\ "id" \in DOMAIN Raw(i) /\ "id" \in DOMAIN Raw(k)
             /\ Raw(i)["id"].type = "string" /\ Raw(i)["id"] = Raw(k)["id"]
             => \E d \in Errors : d.path = InComment(k, "id")
      BY <2>2, RepeatedIdsAreReported DEF Commented, Raw, Doc, root
    <2> QED BY <2>3, <2>4 DEF root
  <1> QED BY <1>1, ReportStarts, ReportStays, PTL DEF ValidateSpec

-----------------------------------------------------------------------------
(* Every lens opens                                                        *)

\* The words by which topics are called.
TopicWords ==
    {"collect-reviews", "collecting", "combined-reviews", "effort-vs-scope", "tradeoffs",
     "sizing", "ids", "comment-ids", "slugs", "store", "storing", "tiers", "exit-codes",
     "severity", "strict", "verification", "anchor-claims", "checking"}

\* And those the schema is written with.
Keys ==
    {"version", "verdict", "summary", "ref", "comments", "profile", "assessment",
     "id", "priority", "category", "body", "code", "anchors", "suggestions",
     "file", "line", "end_line", "effort", "scope", "pros", "cons"}

LEMMA LevelsAreSequences ==
    ASSUME NEW level \in Levels
    PROVE  level \in Seq(Keys)
  <1>1. "comments" \in Keys /\ "anchors" \in Keys /\ "suggestions" \in Keys
    BY DEF Keys
  <1>2. \A a, b \in Keys : <<>> \in Seq(Keys) /\ <<a>> \in Seq(Keys) /\ <<a, b>> \in Seq(Keys)
    OBVIOUS
  <1>3. /\ Root \in Seq(Keys) /\ Comments \in Seq(Keys)
        /\ Anchors \in Seq(Keys) /\ Suggestions \in Seq(Keys)
    BY <1>1, <1>2, Zenon DEF Root, Comments, Anchors, Suggestions
  <1> QED BY <1>3, Zenon DEF Levels

LEMMA LevelsDiffer ==
    /\ Root # Comments /\ Root # Anchors /\ Root # Suggestions
    /\ Comments # Anchors /\ Comments # Suggestions /\ Anchors # Suggestions
  <1>1. Len(Root) = 0 /\ Len(Comments) = 1 /\ Len(Anchors) = 2 /\ Len(Suggestions) = 2
    BY DEF Root, Comments, Anchors, Suggestions
  <1>2. Anchors[2] = "anchors" /\ Suggestions[2] = "suggestions"
    BY DEF Anchors, Suggestions
  <1> QED BY <1>1, <1>2

LEMMA PropertiesOf ==
    /\ Properties(Root) =
          {"version", "verdict", "summary", "ref", "comments", "profile", "assessment"}
    /\ Properties(Comments) =
          {"id", "priority", "category", "body", "code", "anchors", "suggestions"}
    /\ Properties(Anchors) = {"file", "line", "end_line"}
    /\ Properties(Suggestions) = {"summary", "effort", "scope", "pros", "cons", "code"}
  BY LevelsDiffer, Zenon DEF Properties

\* No key of the schema is the name of a check or of a topic.
LEMMA KeysAreTheirOwn ==
    ASSUME NEW level \in Levels, NEW key \in Properties(level)
    PROVE  key \in Keys /\ key \notin Tiers /\ key \notin TopicWords
  <1>1. key \in Keys
    BY PropertiesOf DEF Levels, Keys
  <1>2. key \notin StructuralChecks
    BY <1>1 DEF StructuralChecks, Keys
  <1>3. key \notin VerificationChecks
    BY <1>1 DEF VerificationChecks, Keys
  <1>4. key \notin AdvisoryChecks
    BY <1>1 DEF AdvisoryChecks, Keys
  <1>5. key \notin TopicWords
    BY <1>1 DEF TopicWords, Keys
  <1> QED BY <1>1, <1>2, <1>3, <1>4, <1>5 DEF Tiers

LEMMA FieldIs ==
    ASSUME NEW field
    PROVE  field \in Fields
              <=> \E level \in Levels : \E key \in Properties(level) : field = Append(level, key)
  <1>1. field \in Fields
           <=> \E level \in Levels : field \in {Append(level, key) : key \in Properties(level)}
    BY DEF Fields
  <1> QED BY <1>1, Zenon

LEMMA FieldEnds ==
    ASSUME NEW level \in Levels, NEW key \in Properties(level)
    PROVE  /\ Append(level, key) \in Fields
           /\ Append(level, key) \in Seq(Keys)
           /\ Len(Append(level, key)) >= 1 /\ Append(level, key) # <<>>
           /\ Last(Append(level, key)) = key
  <1>1. level \in Seq(Keys) /\ key \in Keys
    BY LevelsAreSequences, KeysAreTheirOwn
  <1>2. Append(level, key) \in Fields
    BY FieldIs
  <1> DEFINE field == Append(level, key)
  <1>3. /\ field \in Seq(Keys) /\ Len(field) = Len(level) + 1 /\ Len(level) \in Nat
        /\ field[Len(level) + 1] = key /\ field # <<>>
    <2>1. Len(level) \in Nat
      BY <1>1
    <2>2. field \in Seq(Keys) /\ field # <<>>
      BY <1>1, AppendProperties, Zenon
    <2>3. Len(field) = Len(level) + 1 /\ field[Len(level) + 1] = key
      BY <1>1
    <2> QED BY <2>1, <2>2, <2>3
  <1>4. Last(field) = key
    BY <1>3, Zenon DEF Last
  <1>5. Len(field) >= 1
    BY <1>3
  <1> QED BY <1>2, <1>3, <1>4, <1>5

LEMMA FieldType ==
    ASSUME NEW field \in Fields
    PROVE  /\ field \in Seq(Keys) /\ Len(field) >= 1 /\ field # <<>>
           /\ Last(field) \in Keys /\ Last(field) \notin Tiers
           /\ Last(field) \notin TopicWords
           /\ FinalSegment(field) = <<Last(field)>>
  <1>1. PICK level \in Levels : \E key \in Properties(level) : field = Append(level, key)
    BY FieldIs
  <1>2. PICK key \in Properties(level) : field = Append(level, key)
    BY <1>1
  <1>3. FinalSegment(field) = <<Last(field)>>
    BY DEF FinalSegment, Last
  <1> QED BY <1>2, <1>3, FieldEnds, KeysAreTheirOwn

LEMMA LastOfWord == \A word : Last(<<word>>) = word
  BY DEF Last

FieldEntry(field) == [space |-> "field", name |-> field, aliases |-> {}]
CheckEntry(check) == [space |-> "check", name |-> <<check>>, aliases |-> {}]

LEMMA GuideIs ==
    ASSUME NEW e \in Guide
    PROVE  \/ \E field \in Fields : e = FieldEntry(field)
           \/ \E check \in Tiers : e = CheckEntry(check)
           \/ /\ e.space = "topic"
              /\ \A name \in NamesOf(e) : \E word \in TopicWords : name = <<word>>
  <1>1. CASE e \in FieldEntries
    BY <1>1, Zenon DEF FieldEntries, FieldEntry
  <1>2. CASE e \in CheckEntries
    BY <1>2, Zenon DEF CheckEntries, CheckEntry
  <1>3. CASE e \in TopicEntries
    <2>1. ASSUME NEW name, NEW aliases, name \in TopicWords, aliases \subseteq TopicWords
          PROVE  /\ Topic(name, aliases).space = "topic"
                 /\ \A n \in NamesOf(Topic(name, aliases)) : \E word \in TopicWords : n = <<word>>
      BY <2>1 DEF Topic, NamesOf
    <2>2. \E name \in TopicWords : \E aliases \in SUBSET TopicWords : e = Topic(name, aliases)
      BY <1>3 DEF TopicEntries, TopicWords
    <2> QED BY <2>1, <2>2
  <1> QED BY <1>1, <1>2, <1>3 DEF Guide

LEMMA EntriesAreIn ==
    /\ \A field \in Fields : FieldEntry(field) \in Guide
    /\ \A check \in Tiers : CheckEntry(check) \in Guide
  BY Zenon DEF Guide, FieldEntries, CheckEntries, FieldEntry, CheckEntry

LEMMA CheckOpens ==
    ASSUME NEW check \in Tiers
    PROVE  Opens(Guide, Named(check), CheckEntry(check))
  <1> DEFINE lens == Named(check)
  <1>1. lens.space = "" /\ lens.path = <<check>>
    BY DEF Named
  <1>2. ASSUME NEW e \in Guide
        PROVE  (\E name \in NamesOf(e) : <<check>> = name \/ <<check>> = FinalSegment(name))
                  <=> e = CheckEntry(check)
    <2>1. CASE \E field \in Fields : e = FieldEntry(field)
      <3>1. PICK field \in Fields : e = FieldEntry(field)
        BY <2>1
      <3>2. NamesOf(e) = {field} /\ e.space = "field"
        BY <3>1 DEF NamesOf, FieldEntry
      <3>3. <<check>> # FinalSegment(field)
        BY FieldType
      <3>4. <<check>> # field
        <4>1. Last(<<check>>) = check
          BY LastOfWord
        <4> QED BY <4>1, FieldType
      <3>5. e # CheckEntry(check)
        BY <3>2 DEF CheckEntry
      <3> QED BY <3>2, <3>3, <3>4, <3>5
    <2>2. CASE \E other \in Tiers : e = CheckEntry(other)
      <3>1. PICK other \in Tiers : e = CheckEntry(other)
        BY <2>2
      <3>2. NamesOf(e) = {<<other>>} /\ FinalSegment(<<other>>) = <<other>>
        BY <3>1 DEF NamesOf, CheckEntry, FinalSegment
      <3>3. <<check>> = <<other>> <=> check = other
        OBVIOUS
      <3>4. e = CheckEntry(check) <=> check = other
        BY <3>1, <3>3 DEF CheckEntry
      <3> QED BY <3>2, <3>3, <3>4
    <2>3. CASE /\ e.space = "topic"
               /\ \A name \in NamesOf(e) : \E word \in TopicWords : name = <<word>>
      <3>1. check \notin TopicWords
        BY DEF Tiers, StructuralChecks, VerificationChecks, AdvisoryChecks, TopicWords
      <3>2. \A word \in TopicWords : <<check>> # <<word>> /\ FinalSegment(<<word>>) = <<word>>
        BY <3>1 DEF FinalSegment
      <3>3. e # CheckEntry(check)
        BY <2>3 DEF CheckEntry
      <3> QED BY <2>3, <3>2, <3>3
    <2> QED BY <2>1, <2>2, <2>3, GuideIs
  <1>3. Matching(Guide, <<check>>) = {CheckEntry(check)}
    <2>1. CheckEntry(check) \in Guide
      BY EntriesAreIn
    <2> QED BY <1>2, <2>1, Zenon DEF Matching
  <1> QED BY <1>1, <1>3, Zenon DEF Opens, Resolve

\* The names of entries other than those of fields are single words, and no keys.
LEMMA OthersAreWords ==
    ASSUME NEW e \in Guide, e.space # "field", NEW name \in NamesOf(e)
    PROVE  \E word : word \notin Keys /\ name = <<word>> /\ FinalSegment(name) = <<word>>
  <1>1. \A word : FinalSegment(<<word>>) = <<word>>
    BY DEF FinalSegment
  <1>2. CASE \E check \in Tiers : e = CheckEntry(check)
    <2>1. PICK check \in Tiers : e = CheckEntry(check)
      BY <1>2
    <2>2. name = <<check>>
      BY <2>1 DEF CheckEntry, NamesOf
    <2>3. check \notin Keys
      BY DEF Tiers, StructuralChecks, VerificationChecks, AdvisoryChecks, Keys
    <2> QED BY <1>1, <2>2, <2>3
  <1>3. CASE \E word \in TopicWords : name = <<word>>
    <2>1. TopicWords \cap Keys = {}
      BY DEF TopicWords, Keys
    <2> QED BY <1>1, <1>3, <2>1
  <1>4. \A field : FieldEntry(field).space = "field"
    BY DEF FieldEntry
  <1> QED BY <1>2, <1>3, <1>4, GuideIs

LEMMA FieldEntriesDiffer ==
    ASSUME NEW e \in Guide, e.space = "field"
    PROVE  e.name \in Fields /\ e = FieldEntry(e.name) /\ NamesOf(e) = {e.name}
  <1>1. \A check : CheckEntry(check).space # "field"
    BY DEF CheckEntry
  <1>2. PICK field \in Fields : e = FieldEntry(field)
    BY <1>1, GuideIs
  <1> QED BY <1>2 DEF FieldEntry, NamesOf

\* The name under which a failure explains its field opens the entry of that field.
LEMMA FieldOpens ==
    ASSUME NEW field \in Fields
    PROVE  Opens(Guide, Lens(field), FieldEntry(field))
  <1>1. FieldEntry(field) \in Guide /\ FieldEntry(field).space = "field"
        /\ FieldEntry(field).name = field /\ field # <<>>
    BY EntriesAreIn, FieldType DEF FieldEntry
  <1>2. CASE Unique(Last(field))
    <2>1. Lens(field).space = "" /\ Lens(field).path = <<Last(field)>>
      BY <1>1, <1>2 DEF Lens
    <2>2. ASSUME NEW e \in Guide
          PROVE  (\E name \in NamesOf(e) : \/ <<Last(field)>> = name
                                           \/ <<Last(field)>> = FinalSegment(name))
                    <=> e = FieldEntry(field)
      <3>1. CASE e.space = "field"
        <4>1. e.name \in Fields /\ e = FieldEntry(e.name) /\ NamesOf(e) = {e.name}
          BY <3>1, FieldEntriesDiffer
        <4>2. <<Last(field)>> = FinalSegment(e.name) <=> Last(field) = Last(e.name)
          BY <4>1, FieldType
        <4>3. <<Last(field)>> = e.name => Last(field) = Last(e.name)
          <5>1. Last(<<Last(field)>>) = Last(field)
            BY LastOfWord
          <5> QED BY <5>1, Zenon
        <4>4. Last(field) = Last(e.name) <=> e.name = field
          BY <1>2, <4>1 DEF Unique
        <4>5. e = FieldEntry(field) <=> e.name = field
          BY <1>1, <4>1
        <4> QED BY <4>1, <4>2, <4>3, <4>4, <4>5
      <3>2. CASE e.space # "field"
        <4>1. \A name \in NamesOf(e) : <<Last(field)>> # name /\ <<Last(field)>> # FinalSegment(name)
          BY <3>2, FieldType, OthersAreWords
        <4> QED BY <1>1, <3>2, <4>1
      <3> QED BY <3>1, <3>2
    <2>3. Matching(Guide, <<Last(field)>>) = {FieldEntry(field)}
      BY <1>1, <2>2, Zenon DEF Matching
    <2> QED BY <2>1, <2>3, Zenon DEF Opens, Resolve
  <1>3. CASE ~Unique(Last(field)) /\ Len(field) > 1
    <2>1. Lens(field).space = "" /\ Lens(field).path = field
      BY <1>1, <1>3 DEF Lens
    <2>2. \A word : field # <<word>>
      <3>1. ASSUME NEW word, field = <<word>>
            PROVE  Len(field) = 1
        <4>1. Len(<<word>>) = 1
          OBVIOUS
        <4> QED BY <3>1, <4>1, Zenon
      <3>2. Len(field) # 1
        <4>1. Len(field) > 1
          BY <1>3, Zenon
        <4>2. Len(field) \in Nat
          BY FieldType
        <4>3. \A n \in Nat : n > 1 => n # 1
          OBVIOUS
        <4> QED BY <4>1, <4>2, <4>3, Zenon
      <3> QED BY <3>1, <3>2, Zenon
    <2>3. ASSUME NEW e \in Guide
          PROVE  (\E name \in NamesOf(e) : field = name \/ field = FinalSegment(name))
                    <=> e = FieldEntry(field)
      <3>1. CASE e.space = "field"
        <4>1. e.name \in Fields /\ e = FieldEntry(e.name) /\ NamesOf(e) = {e.name}
          BY <3>1, FieldEntriesDiffer
        <4>2. field # FinalSegment(e.name)
          BY <2>2, <4>1, FieldType
        <4>3. e = FieldEntry(field) <=> e.name = field
          BY <1>1, <4>1
        <4> QED BY <4>1, <4>2, <4>3
      <3>2. CASE e.space # "field"
        <4>1. \A name \in NamesOf(e) : field # name /\ field # FinalSegment(name)
          BY <2>2, <3>2, OthersAreWords
        <4> QED BY <1>1, <3>2, <4>1
      <3> QED BY <3>1, <3>2
    <2>4. Matching(Guide, field) = {FieldEntry(field)}
      BY <1>1, <2>3, Zenon DEF Matching
    <2> QED BY <2>1, <2>4, Zenon DEF Opens, Resolve
  <1>4. CASE ~Unique(Last(field)) /\ ~(Len(field) > 1)
    <2>1. Lens(field).space = "field" /\ Lens(field).path = field
      BY <1>1, <1>4 DEF Lens
    <2>2. ASSUME NEW e \in Guide
          PROVE  (e.space = "field" /\ field \in NamesOf(e)) <=> e = FieldEntry(field)
      BY <1>1, FieldEntriesDiffer
    <2>3. {e \in Guide : e.space = "field" /\ field \in NamesOf(e)} = {FieldEntry(field)}
      BY <1>1, <2>2
    <2>4. Resolve(Guide, Lens(field)) = {e \in Guide : e.space = "field" /\ field \in NamesOf(e)}
      BY <2>1 DEF Resolve
    <2> QED BY <2>3, <2>4 DEF Opens
  <1> QED BY <1>2, <1>3, <1>4

\* Where a failure lies, and the field it says is to be looked up: that of its
\* place or, where keys are missing or unknown, one of the object there.
Placed(f) ==
    \/ f.field \in Fields /\ f.path.field = f.field
    \/ f.field = Root /\ f.path.field = Root
    \/ /\ f.path.field \in Levels
       /\ \E key \in Properties(f.path.field) : f.field = Append(f.path.field, key)

LEMMA LeastExists ==
    ASSUME NEW S \in SUBSET Nat, S # {}
    PROVE  Min(S) \in S /\ \A u \in S : Min(S) <= u
  <1>1. PICK least \in S : \A u \in S : ~(<<u, least>> \in OpToRel(<, Nat))
    BY NatLessThanWellFounded, WFMin
  <1>2. \A u \in S : ~(u < least)
    <2> SUFFICES ASSUME NEW u \in S, u < least
                 PROVE  <<u, least>> \in OpToRel(<, Nat)
      BY <1>1
    <2>1. <<u, least>> \in Nat \X Nat /\ <<u, least>>[1] < <<u, least>>[2]
      OBVIOUS
    <2> QED BY <2>1, Zenon DEF OpToRel
  <1>3. \A u \in S : least <= u
    BY <1>2
  <1> QED BY <1>3 DEF Min

LEMMA NearestExists ==
    ASSUME NEW level \in Levels, NEW key, Near(key, level) # {},
           {key} \X Properties(level) \subseteq DOMAIN Distance
    PROVE  NearestField(key, level) \in Properties(level)
  <1> DEFINE near == Near(key, level)
             far(known) == Distance[<<key, known>>]
             S == {far(known) : known \in near}
  <1>1. \A known \in near : known \in Properties(level) /\ far(known) \in Nat
    <2> TAKE known \in near
    <2>1. known \in Properties(level)
      BY DEF Near
    <2>2. <<key, known>> \in DOMAIN Distance
      BY <2>1
    <2> QED BY <2>1, <2>2, SchemaAssumption
  <1>2. Min(S) \in S /\ \A u \in S : Min(S) <= u
    <2>1. S \in SUBSET Nat /\ S # {}
      BY <1>1
    <2> HIDE DEF S
    <2> QED BY <2>1, LeastExists
  <1>3. PICK known \in near : far(known) = Min(S)
    BY <1>2
  <1>4. \A other \in near : far(known) <= far(other)
    BY <1>2, <1>3
  <1>5. NearestField(key, level) \in near
    BY <1>4 DEF NearestField
  <1> QED BY <1>1, <1>5

LEMMA ObjectFailuresPlaced ==
    ASSUME NEW raw, NEW indices, NEW level \in Levels, Spelled(raw, level),
           NEW f \in ObjectFailures(raw, indices, level)
    PROVE  Placed(f)
  <1> DEFINE obj == raw.object
             missing == Required(level) \ DOMAIN obj
             unknown == DOMAIN obj \ Properties(level)
             here == Pointer(indices, level)
  <1>1. level = Root \/ level \in Fields
    <2>1. "comments" \in Properties(Root) /\ "anchors" \in Properties(Comments)
          /\ "suggestions" \in Properties(Comments)
      BY PropertiesOf
    <2>2. Root \in Levels /\ Comments \in Levels
      BY DEF Levels
    <2>3. /\ Comments = Append(Root, "comments") /\ Anchors = Append(Comments, "anchors")
          /\ Suggestions = Append(Comments, "suggestions")
      BY DEF Root, Comments, Anchors, Suggestions
    <2>4. Comments \in Fields /\ Anchors \in Fields /\ Suggestions \in Fields
      BY <2>1, <2>2, <2>3, FieldIs
    <2> QED BY <2>4 DEF Levels
  <1>2. here.field = level
    BY DEF Pointer
  <1>3. Placed(Failure(here, level))
    BY <1>1, <1>2 DEF Placed, Failure
  <1>4. ASSUME NEW key \in Properties(level)
        PROVE  Placed(Failure(here, Append(level, key)))
    BY <1>2, <1>4 DEF Placed, Failure
  <1>5. ASSUME NEW key \in Properties(level)
        PROVE  Placed(Failure(Pointer(indices, Append(level, key)), Append(level, key)))
    BY <1>5, FieldEnds DEF Placed, Failure, Pointer
  <1>6. Placed(Failure(here, MissingField(level, missing)))
    <2>1. missing \subseteq Properties(level)
      BY DEF Required
    <2>2. MissingField(level, missing) = level
          \/ \E key \in Properties(level) : MissingField(level, missing) = Append(level, key)
      BY <2>1 DEF MissingField
    <2> HIDE DEF missing, here
    <2> QED BY <1>3, <1>4, <2>2
  <1>7. Placed(Failure(here, UnknownField(level, unknown)))
    <2>1. UnknownField(level, unknown) = level
          \/ \E key \in Properties(level) : UnknownField(level, unknown) = Append(level, key)
      <3>1. CASE \E key \in unknown : Near(key, level) # {}
        <4> DEFINE known == CHOOSE key \in unknown : Near(key, level) # {}
        <4>1. known \in unknown /\ Near(known, level) # {}
          BY <3>1
        <4> HIDE DEF known
        <4>2. {known} \X Properties(level) \subseteq DOMAIN Distance
          BY <4>1 DEF Spelled
        <4>3. NearestField(known, level) \in Properties(level)
          BY <4>1, <4>2, NearestExists
        <4> QED BY <3>1, <4>3, Zenon DEF UnknownField, known
      <3>2. CASE ~\E key \in unknown : Near(key, level) # {}
        BY <3>2, Zenon DEF UnknownField
      <3> QED BY <3>1, <3>2
    <2> HIDE DEF unknown, here
    <2> QED BY <1>3, <1>4, <2>1
  <1>8. \/ f = Failure(here, level)
        \/ f = Failure(here, MissingField(level, missing))
        \/ f = Failure(here, UnknownField(level, unknown))
        \/ \E key \in Properties(level) :
              f = Failure(Pointer(indices, Append(level, key)), Append(level, key))
    BY Zenon DEF ObjectFailures
  <1> HIDE DEF here, missing, unknown
  <1> QED BY <1>3, <1>5, <1>6, <1>7, <1>8

LEMMA InnerElement ==
    ASSUME NEW root, NEW key, NEW raw \in Elements(root, "comments"),
           NEW j \in DOMAIN Items(raw.object, key)
    PROVE  Items(raw.object, key)[j] \in Inner(root, key)
  <1>1. Items(raw.object, key)[j] \in Elements(raw.object, key)
    BY DEF Elements
  <1> QED BY <1>1, Zenon DEF Inner

LEMMA FailuresPlaced ==
    ASSUME NEW root, IsDocument(root), NEW f \in Failures(root)
    PROVE  Placed(f)
  <1>1. /\ Root \in Levels /\ Comments \in Levels /\ Anchors \in Levels /\ Suggestions \in Levels
        /\ "comments" \in Properties(Root)
        /\ "pros" \in Properties(Suggestions) /\ "cons" \in Properties(Suggestions)
    BY PropertiesOf DEF Levels
  <1>2. CASE f \in ObjectFailures(Object(root), <<>>, Root)
    BY <1>1, <1>2, ObjectFailuresPlaced DEF IsDocument
  <1>3. CASE f \in EmptyFailures(root)
    <2>1. f = Failure(Pointer(<<>>, Comments), Comments)
      BY <1>3 DEF EmptyFailures
    <2>2. Comments \in Fields
      <3>1. Append(Root, "comments") = Comments
        BY DEF Root, Comments
      <3> QED BY <1>1, <3>1, FieldIs
    <2> QED BY <2>1, <2>2 DEF Placed, Failure, Pointer
  <1>4. CASE \E i \in DOMAIN Items(root, "comments") :
                f \in CommentFailures(Items(root, "comments")[i], i)
    <2>1. PICK i \in DOMAIN Items(root, "comments") :
             f \in CommentFailures(Items(root, "comments")[i], i)
      BY <1>4
    <2> DEFINE raw == Items(root, "comments")[i]
    <2>2. raw \in Elements(root, "comments") /\ f \in CommentFailures(raw, i)
      BY <2>1 DEF Elements
    <2> HIDE DEF raw
    <2>3. CASE f \in ObjectFailures(raw, <<i - 1>>, Comments)
      BY <1>1, <2>2, <2>3, ObjectFailuresPlaced DEF IsDocument
    <2>4. CASE \E j \in DOMAIN Items(raw.object, "anchors") :
                  f \in ObjectFailures(Items(raw.object, "anchors")[j], <<i - 1, j - 1>>, Anchors)
      <3>1. PICK j \in DOMAIN Items(raw.object, "anchors") :
               f \in ObjectFailures(Items(raw.object, "anchors")[j], <<i - 1, j - 1>>, Anchors)
        BY <2>4
      <3>2. Items(raw.object, "anchors")[j] \in Inner(root, "anchors")
        BY <2>2, InnerElement
      <3>3. Spelled(Items(raw.object, "anchors")[j], Anchors)
        BY <3>2 DEF IsDocument
      <3> QED BY <1>1, <3>1, <3>3, ObjectFailuresPlaced, Zenon
    <2>5. CASE \E j \in DOMAIN Items(raw.object, "suggestions") :
                  \/ f \in ObjectFailures(Items(raw.object, "suggestions")[j],
                                          <<i - 1, j - 1>>, Suggestions)
                  \/ f \in StringFailures(Items(raw.object, "suggestions")[j], <<i - 1, j - 1>>)
      <3>1. PICK j \in DOMAIN Items(raw.object, "suggestions") :
               \/ f \in ObjectFailures(Items(raw.object, "suggestions")[j],
                                       <<i - 1, j - 1>>, Suggestions)
               \/ f \in StringFailures(Items(raw.object, "suggestions")[j], <<i - 1, j - 1>>)
        BY <2>5
      <3> DEFINE suggestion == Items(raw.object, "suggestions")[j]
      <3>2. suggestion \in Inner(root, "suggestions")
        BY <2>2, InnerElement
      <3>3. Spelled(suggestion, Suggestions)
        BY <3>2 DEF IsDocument
      <3> HIDE DEF suggestion
      <3>4. CASE f \in ObjectFailures(suggestion, <<i - 1, j - 1>>, Suggestions)
        BY <1>1, <3>3, <3>4, ObjectFailuresPlaced, Zenon
      <3>5. CASE f \in StringFailures(suggestion, <<i - 1, j - 1>>)
        <4>1. PICK key \in {"pros", "cons"} : \E at1 :
                 f = Failure(Pointer(at1, Append(Suggestions, key)), Append(Suggestions, key))
          BY <3>5, Zenon DEF StringFailures
        <4>2. Append(Suggestions, key) \in Fields
          BY <1>1, <4>1, FieldIs
        <4> QED BY <4>1, <4>2 DEF Placed, Failure, Pointer
      <3> QED BY <3>1, <3>4, <3>5, Zenon DEF suggestion
    <2> DEFINE ofAnchors ==
                  UNION {ObjectFailures(Items(raw.object, "anchors")[j],
                                        <<i - 1, j - 1>>, Anchors) :
                            j \in DOMAIN Items(raw.object, "anchors")}
               ofSuggestions ==
                  UNION {ObjectFailures(Items(raw.object, "suggestions")[j],
                                        <<i - 1, j - 1>>, Suggestions)
                         \cup StringFailures(Items(raw.object, "suggestions")[j],
                                             <<i - 1, j - 1>>) :
                            j \in DOMAIN Items(raw.object, "suggestions")}
    <2>6. CommentFailures(raw, i)
             = ObjectFailures(raw, <<i - 1>>, Comments) \cup ofAnchors \cup ofSuggestions
      BY Zenon DEF CommentFailures
    <2>7. f \in ObjectFailures(raw, <<i - 1>>, Comments)
          \/ f \in ofAnchors \/ f \in ofSuggestions
      <3> HIDE DEF ofAnchors, ofSuggestions
      <3> QED BY <2>2, <2>6
    <2> QED BY <2>3, <2>4, <2>5, <2>7, Zenon
  <1> QED BY <1>2, <1>3, <1>4, Zenon DEF Failures

\* The describe command a diagnostic hands back.
Lensed(d) == \E e \in Guide : Opens(Guide, d.lens, e) /\ Explains(e, d)

LEMMA NamedIsLensed ==
    ASSUME NEW d, d.name \in Tiers \ {"schema"}, d.lens = Named(d.name)
    PROVE  Lensed(d)
  <1>1. CheckEntry(d.name) \in Guide /\ Opens(Guide, d.lens, CheckEntry(d.name))
    BY CheckOpens, EntriesAreIn
  <1>2. Explains(CheckEntry(d.name), d)
    BY DEF Explains, CheckEntry
  <1> QED BY <1>1, <1>2 DEF Lensed

LEMMA PlacedIsLensed ==
    ASSUME NEW f, Placed(f)
    PROVE  Lensed(Diagnostic("error", "schema", "", f.path, Lens(f.field)))
  <1> DEFINE d == Diagnostic("error", "schema", "", f.path, Lens(f.field))
  <1>1. d.name = "schema" /\ d.path = f.path /\ d.lens = Lens(f.field)
    BY DEF Diagnostic
  <1> HIDE DEF d
  <1>2. CASE f.field = Root /\ f.path.field = Root
    <2>1. "schema" \in Tiers
      BY DEF Tiers, StructuralChecks
    <2>2. d.lens = Named("schema")
      BY <1>1, <1>2 DEF Root, Lens, Named
    <2>3. CheckEntry("schema") \in Guide /\ Opens(Guide, d.lens, CheckEntry("schema"))
      BY <2>1, <2>2, CheckOpens, EntriesAreIn
    <2>4. Explains(CheckEntry("schema"), d)
      BY <1>1, <1>2 DEF Explains, CheckEntry
    <2> QED BY <2>3, <2>4 DEF Lensed, d
  <1>3. CASE f.field \in Fields
             /\ \/ f.path.field = f.field
                \/ /\ f.path.field \in Levels
                   /\ \E key \in Properties(f.path.field) : f.field = Append(f.path.field, key)
    <2>1. FieldEntry(f.field) \in Guide /\ Opens(Guide, d.lens, FieldEntry(f.field))
      BY <1>1, <1>3, FieldOpens, EntriesAreIn
    <2>2. FieldEntry(f.field).space = "field" /\ FieldEntry(f.field).name = f.field
      BY DEF FieldEntry
    <2>3. Explains(FieldEntry(f.field), d)
      BY <1>1, <1>3, <2>2, Zenon DEF Explains
    <2> QED BY <2>1, <2>3 DEF Lensed, d
  <1>4. (/\ f.path.field \in Levels
         /\ \E key \in Properties(f.path.field) : f.field = Append(f.path.field, key))
        => f.field \in Fields
    BY FieldIs
  <1> QED BY <1>2, <1>3, <1>4, Zenon DEF Placed, d

LEMMA NamedDiagnostics ==
    ASSUME NEW name \in Tiers \ {"schema"}, NEW comment, NEW path
    PROVE  Lensed(Error(name, comment, path)) /\ Lensed(Advice(name, comment, path))
  <1>1. /\ Error(name, comment, path).name = name
        /\ Error(name, comment, path).lens = Named(name)
        /\ Advice(name, comment, path).name = name
        /\ Advice(name, comment, path).lens = Named(name)
    BY DEF Error, Advice, Diagnostic
  <1> QED BY <1>1, NamedIsLensed

LEMMA StructuralIsLensed ==
    ASSUME NEW root, IsDocument(root), NEW doc, NEW d \in StructuralCheck(root, doc)
    PROVE  Lensed(d)
  <1>1. CASE d \in SchemaCheck(root, doc)
    <2>1. PICK f \in Failures(root) :
             d = Diagnostic("error", "schema", "", f.path, Lens(f.field))
      BY <1>1, Zenon DEF SchemaCheck
    <2> QED BY <2>1, FailuresPlaced, PlacedIsLensed, Zenon
  <1>2. {"id-unique", "anchor-range-ordered", "anchor-path-safe", "ref-format",
         "profile-format"} \subseteq Tiers \ {"schema"}
    BY DEF Tiers, StructuralChecks
  <1>3. CASE d \in IdUnique(doc)
    BY <1>2, <1>3, NamedDiagnostics, Zenon DEF IdUnique
  <1>4. CASE d \in AnchorRangeOrdered(doc)
    BY <1>2, <1>4, NamedDiagnostics, Zenon DEF AnchorRangeOrdered
  <1>5. CASE d \in AnchorPathSafe(doc)
    BY <1>2, <1>5, NamedDiagnostics, Zenon DEF AnchorPathSafe
  <1>6. CASE d \in RefFormat(doc) \cup ProfileFormat(doc)
    <2>1. d = Error("ref-format", "", Pointer(<<>>, <<"ref">>))
          \/ d = Error("profile-format", "", Pointer(<<>>, <<"profile">>))
      BY <1>6 DEF RefFormat, ProfileFormat
    <2> QED BY <1>2, <2>1, NamedDiagnostics, Zenon
  <1> QED BY <1>1, <1>3, <1>4, <1>5, <1>6, Zenon DEF StructuralCheck, Dedicated

LEMMA ReportedIsLensed ==
    ASSUME NEW d \in Reported
    PROVE  Lensed(d)
  <1>1. {"verification-required", "ref-unknown", "anchor-file-missing",
         "anchor-line-out-of-range"} \subseteq Tiers \ {"schema"}
    BY DEF Tiers, VerificationChecks
  <1>2. CASE d \in Refuted(Doc)
    <2>1. PICK a : \/ d = Error("anchor-file-missing",
                                Id(Doc.comments[a[1]]), InAnchor(a, OutcomeAt(Doc, a)))
                   \/ d = Error("anchor-line-out-of-range",
                                Id(Doc.comments[a[1]]), InAnchor(a, OutcomeAt(Doc, a)))
      BY <1>2 DEF Refuted
    <2> QED BY <1>1, <2>1, NamedDiagnostics, Zenon
  <1>3. CASE d \in Findings(Doc) /\ d \notin Refuted(Doc)
    <2>1. d = Error("ref-unknown", "", AtRoot("ref"))
      BY <1>3 DEF Findings
    <2> QED BY <1>1, <2>1, NamedDiagnostics, Zenon
  <1>4. CASE d = Error("verification-required", "", Nowhere)
    BY <1>1, <1>4, NamedDiagnostics, Zenon
  <1> QED BY <1>2, <1>3, <1>4, Zenon DEF Reported

LEMMA AdvisedIsLensed ==
    ASSUME NEW doc, NEW d \in Advised(doc)
    PROVE  Lensed(d)
  <1>1. AdvisoryChecks \subseteq Tiers \ {"schema"}
    BY DEF Tiers, AdvisoryChecks
  <1>2. ASSUME NEW name \in AdvisoryChecks, NEW comment, NEW path,
               d = Advice(name, comment, path)
        PROVE  Lensed(d)
    BY <1>1, <1>2, NamedDiagnostics, Zenon
  <1>3. CASE d \in IdGrouping(doc)
    <2>1. "id-grouping" \in AdvisoryChecks
      BY DEF AdvisoryChecks
    <2> QED BY <1>2, <1>3, <2>1, Zenon DEF IdGrouping
  <1>4. CASE d \in BodyThin(doc) \cup VacuousBody(doc) \cup SuggestionAbsent(doc)
    <2>1. {"body-thin", "vacuous-body", "suggestion-absent"} \subseteq AdvisoryChecks
      BY DEF AdvisoryChecks
    <2> QED BY <1>2, <1>4, <2>1, Zenon DEF BodyThin, VacuousBody, SuggestionAbsent, OnComments
  <1>5. CASE d \in SuggestionNoCons(doc) \cup SuggestionNoPros(doc) \cup BroadScopeNoCons(doc)
    <2>1. {"suggestion-no-cons", "suggestion-no-pros", "broad-scope-no-cons"}
             \subseteq AdvisoryChecks
      BY DEF AdvisoryChecks
    <2> QED BY <1>2, <1>5, <2>1, Zenon
            DEF SuggestionNoCons, SuggestionNoPros, BroadScopeNoCons, OnSuggestions
  <1>6. CASE d \in BroadScopeAlone(doc) \cup SummaryThin(doc)
    <2>1. {"broad-scope-alone", "summary-thin"} \subseteq AdvisoryChecks
      BY DEF AdvisoryChecks
    <2> QED BY <1>2, <1>6, <2>1, Zenon DEF BroadScopeAlone, SummaryThin
  <1>7. CASE d \in PriorityCategoryConvention(doc) \cup PriorityFlat(doc)
    <2>1. {"priority-category-convention", "priority-flat"} \subseteq AdvisoryChecks
      BY DEF AdvisoryChecks
    <2> QED BY <1>2, <1>7, <2>1, Zenon DEF PriorityCategoryConvention, PriorityFlat, OnComments
  <1>8. CASE d \in AssessmentPriorityMismatch(doc)
    <2>1. "assessment-priority-mismatch" \in AdvisoryChecks
      BY DEF AdvisoryChecks
    <2>2. \/ d = Advice("assessment-priority-mismatch", "", AtRoot("assessment"))
          \/ d = Advice("assessment-priority-mismatch", Id(doc.comments[Worst(doc)]),
                        InComment(Worst(doc), "priority"))
      BY <1>8 DEF AssessmentPriorityMismatch
    <2> QED BY <1>2, <2>1, <2>2, Zenon
  <1>9. CASE d \in DuplicateAnchor(doc) \cup DuplicateBody(doc) \cup CommentFlood(doc)
    <2>1. {"duplicate-anchor", "duplicate-body", "comment-flood"} \subseteq AdvisoryChecks
      BY DEF AdvisoryChecks
    <2> QED BY <1>2, <1>9, <2>1, Zenon DEF DuplicateAnchor, DuplicateBody, CommentFlood
  <1> QED BY <1>3, <1>4, <1>5, <1>6, <1>7, <1>8, <1>9, Zenon
          DEF Advised, Consistency, Substance, Calibration

\* Every diagnostic of every run opens one entry of describe, and that entry
\* explains it (Diagnostic.Lens, schemaCheck and Registry.Resolve).
THEOREM LensesAlwaysOpen == ValidateSpec => []LensesOpen
  <1> DEFINE IInv == ReportInv /\ \A d \in diagnostics : Lensed(d)
  <1>1. ValidateInit => IInv
    BY ReportStarts DEF ValidateInit
  <1>2. IInv /\ [ValidateNext]_validateVars => IInv'
    <2> SUFFICES ASSUME IInv, [ValidateNext]_validateVars
                 PROVE  \A d \in diagnostics' : Lensed(d)
      BY ReportStays DEF Lensed
    <2>1. UNCHANGED Reported /\ UNCHANGED Doc
      <3>1. UNCHANGED inputs
        BY DEF ValidateNext, Unparseable, Diverge, VerifyAnchors, CheckStructure, Advise,
               Conclude, Collect, validateVars
      <3> QED BY <3>1, DocumentStands
    <2>2. {"document-unparseable", "anchor-worktree-diverged"} \subseteq Tiers \ {"schema"}
      BY DEF Tiers, StructuralChecks, VerificationChecks
    <2>3. CASE Unparseable
      BY <2>2, <2>3, NamedDiagnostics DEF Unparseable
    <2>4. CASE Diverge
      BY <2>2, <2>4, NamedDiagnostics DEF Diverge
    <2>5. CASE VerifyAnchors
      <3>1. diagnostics' = Reported
        BY <2>5, Zenon DEF VerifyAnchors, Reported
      <3> QED BY <3>1, ReportedIsLensed
    <2>6. CASE CheckStructure
      <3>1. IsDocument(source.root.object)
        BY <2>6, ValidateAssumption DEF CheckStructure, ReportInv
      <3> QED BY <2>6, <3>1, StructuralIsLensed DEF CheckStructure
    <2>7. CASE Advise
      BY <2>7, AdvisedIsLensed DEF Advise
    <2>8. CASE UNCHANGED diagnostics
      BY <2>8
    <2> QED BY <2>3, <2>4, <2>5, <2>6, <2>7, <2>8
            DEF ValidateNext, Conclude, Collect, validateVars
  <1>3. IInv => LensesOpen
    BY DEF LensesOpen, Lensed
  <1> QED BY <1>1, <1>2, <1>3, PTL DEF ValidateSpec

-----------------------------------------------------------------------------
(* What the schema admits                                                  *)

NumberKeys == {"priority", "line", "end_line"}
ListKeys == {"comments", "anchors", "suggestions"}
StringListKeys == {"pros", "cons"}

LEMMA KindByKey ==
    /\ \A field \in Numbers : Last(field) \in NumberKeys
    /\ \A field \in Lists : Last(field) \in ListKeys
    /\ \A field \in StringLists : Last(field) \in StringListKeys
  <1>1. /\ Last(<<"comments", "priority">>) = "priority"
        /\ Last(<<"comments", "anchors", "line">>) = "line"
        /\ Last(<<"comments", "anchors", "end_line">>) = "end_line"
    BY DEF Last
  <1>2. /\ Last(<<"comments">>) = "comments"
        /\ Last(<<"comments", "anchors">>) = "anchors"
        /\ Last(<<"comments", "suggestions">>) = "suggestions"
    BY DEF Last
  <1>3. /\ Last(<<"comments", "suggestions", "pros">>) = "pros"
        /\ Last(<<"comments", "suggestions", "cons">>) = "cons"
    BY DEF Last
  <1>4. \A field \in Numbers : Last(field) \in NumberKeys
    BY <1>1, Zenon DEF Numbers, NumberKeys
  <1>5. \A field \in Lists : Last(field) \in ListKeys
    BY <1>2, Zenon DEF Lists, ListKeys
  <1>6. \A field \in StringLists : Last(field) \in StringListKeys
    BY <1>3, Zenon DEF StringLists, StringListKeys
  <1> QED BY <1>4, <1>5, <1>6

LEMMA AppendedTwice ==
    ASSUME NEW S, NEW a \in S, NEW b \in S
    PROVE  Append(<<a>>, b) = <<a, b>>
  <1> DEFINE s == <<a>>
             t == <<a, b>>
  <1>1. s \in Seq(S) /\ t \in Seq(S) /\ Len(s) = 1 /\ Len(t) = 2
    OBVIOUS
  <1>2. Append(s, b) \in Seq(S) /\ Len(Append(s, b)) = 2
    BY <1>1
  <1>3. \A i \in 1..2 : Append(s, b)[i] = t[i]
    BY <1>1
  <1> HIDE DEF s, t
  <1>4. Append(s, b) = t
    BY <1>1, <1>2, <1>3, SeqEqual
  <1> QED BY <1>4 DEF s, t

LEMMA AppendedThrice ==
    ASSUME NEW S, NEW a \in S, NEW b \in S, NEW c \in S
    PROVE  Append(<<a, b>>, c) = <<a, b, c>>
  <1> DEFINE s == <<a, b>>
             t == <<a, b, c>>
  <1>1. s \in Seq(S) /\ t \in Seq(S) /\ Len(s) = 2 /\ Len(t) = 3
    OBVIOUS
  <1>2. Append(s, c) \in Seq(S) /\ Len(Append(s, c)) = 3
    BY <1>1
  <1>3. \A i \in 1..3 : Append(s, c)[i] = t[i]
    BY <1>1
  <1> HIDE DEF s, t
  <1>4. Append(s, c) = t
    BY <1>1, <1>2, <1>3, SeqEqual
  <1> QED BY <1>4 DEF s, t

LEMMA ListsAreLists ==
    ASSUME NEW level \in Levels, NEW key \in Properties(level)
    PROVE  /\ key \in NumberKeys => Append(level, key) \in Numbers
           /\ key \in ListKeys => Append(level, key) \in Lists
           /\ key \in StringListKeys => Append(level, key) \in StringLists
  <1>1. /\ key \in {"priority", "anchors", "suggestions"} => level = Comments
        /\ key \in {"line", "end_line"} => level = Anchors
        /\ key \in {"pros", "cons"} => level = Suggestions
        /\ key = "comments" => level = Root
    BY PropertiesOf DEF Levels
  <1>2. Append(Root, "comments") = <<"comments">>
    BY DEF Root
  <1>3. {"comments", "priority", "anchors", "suggestions", "line", "end_line", "pros", "cons"}
           \subseteq Keys
    BY DEF Keys
  <1>4. /\ Append(Comments, "priority") = <<"comments", "priority">>
        /\ Append(Comments, "anchors") = <<"comments", "anchors">>
        /\ Append(Comments, "suggestions") = <<"comments", "suggestions">>
    BY <1>3, AppendedTwice, Zenon DEF Comments
  <1>5. /\ Append(Anchors, "line") = <<"comments", "anchors", "line">>
        /\ Append(Anchors, "end_line") = <<"comments", "anchors", "end_line">>
    BY <1>3, AppendedThrice, Zenon DEF Anchors
  <1>6. /\ Append(Suggestions, "pros") = <<"comments", "suggestions", "pros">>
        /\ Append(Suggestions, "cons") = <<"comments", "suggestions", "cons">>
    BY <1>3, AppendedThrice, Zenon DEF Suggestions
  <1>7. key \in NumberKeys => Append(level, key) \in Numbers
    BY <1>1, <1>4, <1>5, Zenon DEF NumberKeys, Numbers
  <1>8. key \in ListKeys => Append(level, key) \in Lists
    BY <1>1, <1>2, <1>4, Zenon DEF ListKeys, Lists
  <1>9. key \in StringListKeys => Append(level, key) \in StringLists
    BY <1>1, <1>6, Zenon DEF StringListKeys, StringLists
  <1> QED BY <1>7, <1>8, <1>9

LEMMA Admission ==
    ASSUME NEW level \in Levels, NEW key \in Properties(level), NEW raw,
           Admits(Append(level, key), raw)
    PROVE  /\ key \in NumberKeys =>
                 /\ raw.type = "number" /\ raw.twice % 2 = 0 /\ ~raw.residue /\ raw.twice >= 2
                 /\ key = "priority" => raw.twice <= 20
           /\ key \in ListKeys \cup StringListKeys => raw.type = "array"
           /\ key \notin NumberKeys \cup ListKeys \cup StringListKeys =>
                 raw.type = "string" /\ raw.text \in Admitted[Append(level, key)]
  <1> DEFINE field == Append(level, key)
  <1>1. field \in Fields /\ Last(field) = key
    BY FieldEnds
  <1>2. NumberKeys \cap ListKeys = {} /\ NumberKeys \cap StringListKeys = {}
        /\ ListKeys \cap StringListKeys = {}
    BY DEF NumberKeys, ListKeys, StringListKeys
  <1>3. /\ field \in Numbers <=> key \in NumberKeys
        /\ field \in Lists <=> key \in ListKeys
        /\ field \in StringLists <=> key \in StringListKeys
    BY <1>1, KindByKey, ListsAreLists
  <1>4. field \in Strings <=> key \notin NumberKeys \cup ListKeys \cup StringListKeys
    BY <1>1, <1>3 DEF Strings
  <1> HIDE DEF field
  <1>5. \/ field \in Strings /\ raw.type = "string" /\ raw.text \in Admitted[field]
        \/ field \in Numbers /\ raw.type = "number" /\ InRange(field, raw)
        \/ field \in Lists \cup StringLists /\ raw.type = "array"
    BY Zenon DEF Admits, field
  <1> QED BY <1>1, <1>2, <1>3, <1>4, <1>5 DEF InRange, field

\* An object nothing is held against has what it must have, and that is admitted.
LEMMA ObjectAdmitted ==
    ASSUME NEW raw, NEW indices, NEW level \in Levels, ObjectFailures(raw, indices, level) = {}
    PROVE  /\ raw.type = "object"
           /\ Required(level) \subseteq DOMAIN raw.object
           /\ \A key \in DOMAIN raw.object \cap Properties(level) :
                 Admits(Append(level, key), raw.object[key])
  <1> DEFINE obj == raw.object
             missing == Required(level) \ DOMAIN obj
             unknown == DOMAIN obj \ Properties(level)
             here == Pointer(indices, level)
             wrong == {key \in DOMAIN obj \cap Properties(level) :
                          ~Admits(Append(level, key), obj[key])}
  <1>1. raw.type = "object"
    BY Zenon DEF ObjectFailures
  <1>2. {Failure(here, MissingField(level, missing)) : key \in missing}
        \cup {Failure(here, UnknownField(level, unknown)) : key \in unknown}
        \cup {Failure(Pointer(indices, Append(level, key)), Append(level, key)) : key \in wrong}
        = {}
    BY <1>1, Zenon DEF ObjectFailures
  <1>3. missing = {} /\ wrong = {}
    BY <1>2
  <1> QED BY <1>1, <1>3

LEMMA NothingFails ==
    ASSUME NEW root, Failures(root) = {}
    PROVE  /\ ObjectFailures(Object(root), <<>>, Root) = {}
           /\ \A i \in DOMAIN Items(root, "comments") :
                 CommentFailures(Items(root, "comments")[i], i) = {}
  <1> DEFINE ofComments == UNION {CommentFailures(Items(root, "comments")[i], i) :
                                     i \in DOMAIN Items(root, "comments")}
  <1>1. ObjectFailures(Object(root), <<>>, Root) \cup EmptyFailures(root) \cup ofComments = {}
    BY Zenon DEF Failures
  <1>2. ofComments = {}
    <2> HIDE DEF ofComments
    <2> QED BY <1>1
  <1>3. \A i \in DOMAIN Items(root, "comments") :
           CommentFailures(Items(root, "comments")[i], i) = {}
    BY <1>2
  <1> HIDE DEF ofComments
  <1> QED BY <1>1, <1>3

LEMMA NothingFailsInComments ==
    ASSUME NEW raw, NEW i, CommentFailures(raw, i) = {}
    PROVE  /\ ObjectFailures(raw, <<i - 1>>, Comments) = {}
           /\ \A j \in DOMAIN Items(raw.object, "anchors") :
                 ObjectFailures(Items(raw.object, "anchors")[j], <<i - 1, j - 1>>, Anchors) = {}
           /\ \A j \in DOMAIN Items(raw.object, "suggestions") :
                 /\ ObjectFailures(Items(raw.object, "suggestions")[j],
                                   <<i - 1, j - 1>>, Suggestions) = {}
                 /\ StringFailures(Items(raw.object, "suggestions")[j], <<i - 1, j - 1>>) = {}
  <1> DEFINE anchor(j) == ObjectFailures(Items(raw.object, "anchors")[j],
                                         <<i - 1, j - 1>>, Anchors)
             suggestion(j) == ObjectFailures(Items(raw.object, "suggestions")[j],
                                             <<i - 1, j - 1>>, Suggestions)
             strings(j) == StringFailures(Items(raw.object, "suggestions")[j], <<i - 1, j - 1>>)
             ofAnchors == UNION {anchor(j) : j \in DOMAIN Items(raw.object, "anchors")}
             ofSuggestions == UNION {suggestion(j) \cup strings(j) :
                                        j \in DOMAIN Items(raw.object, "suggestions")}
             own == ObjectFailures(raw, <<i - 1>>, Comments)
  <1>1. own \cup ofAnchors \cup ofSuggestions = {}
    BY Zenon DEF CommentFailures
  <1>2. own = {} /\ ofAnchors = {} /\ ofSuggestions = {}
    <2> HIDE DEF own, ofAnchors, ofSuggestions
    <2> QED BY <1>1
  <1> HIDE DEF anchor, suggestion, strings
  <1>3. \A j \in DOMAIN Items(raw.object, "anchors") : anchor(j) = {}
    BY <1>2
  <1>4. \A j \in DOMAIN Items(raw.object, "suggestions") : suggestion(j) = {} /\ strings(j) = {}
    BY <1>2
  <1> QED BY <1>2, <1>3, <1>4, Zenon DEF anchor, suggestion, strings

-----------------------------------------------------------------------------
(* Values and numbers                                                      *)

LEMMA ObjectHas == \A root : Object(root).object = root /\ Object(root).type = "object"
  BY DEF Object, Json

LEMMA MembersAreWellFormed ==
    ASSUME NEW root, IsDocument(root)
    PROVE  /\ \A key \in DOMAIN root : WellFormed(root[key])
           /\ \A raw \in Elements(root, "comments") \cup Inner(root, "anchors")
                         \cup Inner(root, "suggestions") :
                 \A key \in DOMAIN raw.object : WellFormed(raw.object[key])
  <1>1. ASSUME NEW raw \in ObjectsOf(root), NEW key \in DOMAIN raw.object
        PROVE  WellFormed(raw.object[key])
    <2>1. raw.object[key] \in Members(raw)
      BY DEF Members
    <2>2. raw.object[key] \in ValuesOf(root)
      BY <2>1, Zenon DEF ValuesOf
    <2> QED BY <2>2 DEF IsDocument
  <1>2. Object(root) \in ObjectsOf(root)
    BY Zenon DEF ObjectsOf
  <1>3. Elements(root, "comments") \cup Inner(root, "anchors") \cup Inner(root, "suggestions")
           \subseteq ObjectsOf(root)
    BY Zenon DEF ObjectsOf
  <1> QED BY <1>1, <1>2, <1>3, ObjectHas

LEMMA ItemsAreIndexed ==
    ASSUME NEW obj, NEW key, key \in DOMAIN obj => WellFormed(obj[key])
    PROVE  /\ Len(Items(obj, key)) \in Nat
           /\ DOMAIN Items(obj, key) = 1..Len(Items(obj, key))
  <1>1. CASE key \in DOMAIN obj
    BY <1>1 DEF Items, WellFormed
  <1>2. CASE key \notin DOMAIN obj
    <2>1. Items(obj, key) = <<>>
      BY <1>2 DEF Items
    <2> QED BY <2>1
  <1> QED BY <1>1, <1>2

\* What is in range is read as it was written: a priority always, and a line
\* that lies short of the bound to which a float is exact.
LEMMA NumberRead ==
    ASSUME NEW raw, raw.twice \in Int, raw.digits \in BOOLEAN,
           raw.twice % 2 = 0, raw.twice >= 2
    PROVE  /\ IntegerOf(raw) \in Int
           /\ raw.twice <= 20 =>
                 Integral(raw) /\ 2 * IntegerOf(raw) = raw.twice
           /\ Integral(raw) /\ IntegerOf(raw) < ExactFloatInt =>
                 2 * IntegerOf(raw) = raw.twice
  <1> DEFINE n == raw.twice \div 2
  <1>1. n \in Int /\ n >= 1 /\ 2 * n = raw.twice
    OBVIOUS
  <1>2. Abs(n) = n
    BY <1>1 DEF Abs
  <1>3. raw.twice <= 20 => n <= 10
    BY <1>1
  <1> HIDE DEF n
  <1>4. Float64(n) \in {n, n - 1, n + 1} /\ (n <= ExactFloatInt => Float64(n) = n)
    BY <1>2, Zenon DEF Float64
  <1> DEFINE m == Float64(n)
  <1>5. /\ m \in Int /\ m >= 0 /\ (n <= ExactFloatInt => m = n)
        /\ n > ExactFloatInt => m >= ExactFloatInt
    <2> HIDE DEF m
    <2>1. m \in {n, n - 1, n + 1} /\ (n <= ExactFloatInt => m = n)
      BY <1>4 DEF m
    <2>2. ExactFloatInt \in Nat
      BY DocumentAssumption, Zenon
    <2> QED BY <1>1, <2>1, <2>2
  <1>6. Abs(m) = m
    <2>1. \A k \in Int : k >= 0 => Abs(k) = k
      BY DEF Abs
    <2> QED BY <1>5, <2>1, Zenon
  <1>7. Integral(raw) <=> (raw.digits /\ n <= MaxInt) \/ m <= ExactFloatInt
    <2>1. raw.twice % 2 = 0
      OBVIOUS
    <2> QED BY <1>2, <1>6, <2>1, Zenon DEF Integral, n
  <1>8. IntegerOf(raw) = IF raw.digits /\ n <= MaxInt THEN n ELSE m
    BY <1>2, Zenon DEF IntegerOf, n
  <1> HIDE DEF m
  <1>9. /\ ExactFloatInt \in Nat /\ ExactFloatInt >= 10
        /\ MaxInt \in Nat /\ ExactFloatInt < MaxInt
    BY DocumentAssumption, Zenon
  <1> QED BY <1>1, <1>3, <1>5, <1>7, <1>8, <1>9

-----------------------------------------------------------------------------
(* What is valid can be used                                               *)

LEMMA StringAdmitted ==
    ASSUME NEW raw, NEW indices, NEW level \in Levels, ObjectFailures(raw, indices, level) = {},
           NEW key \in Properties(level),
           key \notin NumberKeys \cup ListKeys \cup StringListKeys
    PROVE  LET field == StringField(raw.object, key) IN
           /\ key \in Required(level) \/ field.present => field.ok
           /\ field.ok => field.value \in Admitted[Append(level, key)]
  <1> DEFINE obj == raw.object
  <1>1. key \in Required(level) => key \in DOMAIN obj
    BY ObjectAdmitted
  <1>2. key \in DOMAIN obj =>
           obj[key].type = "string" /\ obj[key].text \in Admitted[Append(level, key)]
    BY ObjectAdmitted, Admission
  <1> HIDE DEF obj
  <1>3. /\ StringField(obj, key).present <=> key \in DOMAIN obj
        /\ StringField(obj, key).ok <=> (key \in DOMAIN obj /\ obj[key].type = "string")
        /\ StringField(obj, key).ok => StringField(obj, key).value = obj[key].text
    BY StringRead
  <1> QED BY <1>1, <1>2, <1>3 DEF obj

LEMMA NumberAdmitted ==
    ASSUME NEW raw, NEW indices, NEW level \in Levels, ObjectFailures(raw, indices, level) = {},
           NEW key \in Properties(level) \cap NumberKeys,
           \A k \in DOMAIN raw.object : WellFormed(raw.object[k])
    PROVE  LET field == IntField(raw.object, key) IN
           /\ field.ok => field.value \in Int
           /\ key = "priority" => /\ field.ok /\ field.value \in 1..10
                                  /\ AsWritten(field, raw.object, key)
           /\ (field.present => field.ok /\ field.value < ExactFloatInt)
                 => AsWritten(field, raw.object, key)
  <1> DEFINE obj == raw.object
             field == IntField(obj, key)
  <1>1. ASSUME key \in DOMAIN obj
        PROVE  /\ obj[key].type = "number" /\ obj[key].twice % 2 = 0
               /\ obj[key].twice \in Int /\ obj[key].digits \in BOOLEAN
               /\ obj[key].twice >= 2 /\ ~obj[key].residue
               /\ key = "priority" => obj[key].twice <= 20
    BY <1>1, ObjectAdmitted, Admission DEF WellFormed
  <1>2. key = "priority" => key \in DOMAIN obj
    <2>1. key = "priority" => key \in Required(level)
      BY DEF Required, Optional
    <2> QED BY <2>1, ObjectAdmitted
  <1> HIDE DEF obj
  <1>3. /\ field.present <=> key \in DOMAIN obj
        /\ field.ok <=> (key \in DOMAIN obj /\ obj[key].type = "number" /\ Integral(obj[key]))
        /\ field.ok => field.value = IntegerOf(obj[key])
    BY IntRead
  <1> HIDE DEF field
  <1>4. ASSUME key \in DOMAIN obj
        PROVE  /\ IntegerOf(obj[key]) \in Int
               /\ obj[key].twice <= 20 =>
                     Integral(obj[key]) /\ 2 * IntegerOf(obj[key]) = obj[key].twice
               /\ Integral(obj[key]) /\ IntegerOf(obj[key]) < ExactFloatInt =>
                     2 * IntegerOf(obj[key]) = obj[key].twice
    BY <1>1, <1>4, NumberRead
  <1>5. field.ok => field.value \in Int
    BY <1>3, <1>4
  <1>6. ASSUME key = "priority"
        PROVE  field.ok /\ field.value \in 1..10 /\ 2 * field.value = obj[key].twice
               /\ ~obj[key].residue
    <2>1. field.ok /\ 2 * field.value = obj[key].twice /\ field.value \in Int
      BY <1>1, <1>2, <1>3, <1>4, <1>6
    <2>2. obj[key].twice >= 2 /\ obj[key].twice <= 20 /\ obj[key].twice \in Int
      BY <1>1, <1>2, <1>6
    <2>3. \A m \in Int : 2 * m >= 2 /\ 2 * m <= 20 => m \in 1..10
      OBVIOUS
    <2> QED BY <1>1, <1>2, <1>6, <2>1, <2>2, <2>3
  <1>7. (field.present => field.ok /\ field.value < ExactFloatInt)
           => AsWritten(field, obj, key)
    BY <1>1, <1>3, <1>4 DEF AsWritten
  <1> QED BY <1>5, <1>6, <1>7 DEF AsWritten, field, obj

LEMMA CommentAdmitted ==
    ASSUME NEW root, IsDocument(root), Failures(root) = {},
           NEW i \in DOMAIN Items(root, "comments")
    PROVE  LET raw == Items(root, "comments")[i]
               c == ParseComment(raw) IN
           /\ raw \in Elements(root, "comments")
           /\ \A key \in DOMAIN raw.object : WellFormed(raw.object[key])
           /\ c.object /\ c.id.ok /\ c.category.ok /\ c.body.ok
           /\ c.priority.ok /\ c.priority.value \in 1..10
           /\ AsWritten(c.priority, raw.object, "priority")
           /\ \A j \in DOMAIN c.suggestions : c.suggestions[j].pros.ok
  <1> DEFINE raw == Items(root, "comments")[i]
             c == ParseComment(raw)
  <1>1. raw \in Elements(root, "comments") /\ CommentFailures(raw, i) = {}
    BY NothingFails DEF Elements
  <1> HIDE DEF raw
  <1>2. \A key \in DOMAIN raw.object : WellFormed(raw.object[key])
    BY <1>1, MembersAreWellFormed
  <1>3. /\ ObjectFailures(raw, <<i - 1>>, Comments) = {}
        /\ \A j \in DOMAIN Items(raw.object, "suggestions") :
              /\ ObjectFailures(Items(raw.object, "suggestions")[j],
                                <<i - 1, j - 1>>, Suggestions) = {}
              /\ StringFailures(Items(raw.object, "suggestions")[j], <<i - 1, j - 1>>) = {}
    BY <1>1, NothingFailsInComments
  <1>4. /\ Comments \in Levels /\ Suggestions \in Levels
        /\ {"id", "category", "body"} \subseteq
              Required(Comments) \ (NumberKeys \cup ListKeys \cup StringListKeys)
        /\ "priority" \in Properties(Comments) \cap NumberKeys
        /\ "pros" \in Required(Suggestions) \cap StringListKeys
    BY PropertiesOf DEF Levels, Required, Optional, NumberKeys, ListKeys, StringListKeys
  <1>5. Required(Comments) \subseteq Properties(Comments)
        /\ Required(Suggestions) \subseteq Properties(Suggestions)
    BY DEF Required
  <1>6. /\ c.object <=> raw.type = "object"
        /\ c.id = StringField(raw.object, "id")
        /\ c.category = StringField(raw.object, "category")
        /\ c.body = StringField(raw.object, "body")
        /\ c.priority = IntField(raw.object, "priority")
        /\ DOMAIN c.suggestions = DOMAIN Items(raw.object, "suggestions")
        /\ \A j \in DOMAIN c.suggestions :
              c.suggestions[j] = ParseSuggestion(Items(raw.object, "suggestions")[j])
    BY DEF ParseComment
  <1>7. c.object
    BY <1>3, <1>4, <1>6, ObjectAdmitted
  <1>8. c.id.ok /\ c.category.ok /\ c.body.ok
    BY <1>3, <1>4, <1>5, <1>6, StringAdmitted
  <1>9. c.priority.ok /\ c.priority.value \in 1..10
        /\ AsWritten(c.priority, raw.object, "priority")
    BY <1>2, <1>3, <1>4, <1>6, NumberAdmitted
  <1>10. ASSUME NEW j \in DOMAIN c.suggestions
         PROVE  c.suggestions[j].pros.ok
    <2> DEFINE suggestion == Items(raw.object, "suggestions")[j]
               obj == suggestion.object
    <2>1. ObjectFailures(suggestion, <<i - 1, j - 1>>, Suggestions) = {}
          /\ StringFailures(suggestion, <<i - 1, j - 1>>) = {}
      <3>1. j \in DOMAIN Items(raw.object, "suggestions")
        BY <1>6, <1>10
      <3> QED BY <1>3, <3>1, Zenon
    <2>2. c.suggestions[j].pros = StringsField(obj, "pros")
      <3>1. c.suggestions[j] = ParseSuggestion(suggestion)
        BY <1>6, <1>10, Zenon
      <3> QED BY <3>1 DEF ParseSuggestion
    <2> HIDE DEF suggestion
    <2>3. "pros" \in DOMAIN obj /\ obj["pros"].type = "array"
      BY <1>4, <1>5, <2>1, ObjectAdmitted, Admission
    <2>4. {k \in DOMAIN Items(obj, "pros") : Items(obj, "pros")[k].type # "string"} = {}
      <3> DEFINE odd == {k \in DOMAIN Items(obj, "pros") :
                            Items(obj, "pros")[k].type # "string"}
                 place(k) == Failure(Pointer(Append(<<i - 1, j - 1>>, k - 1),
                                             Append(Suggestions, "pros")),
                                     Append(Suggestions, "pros"))
      <3>1. \A k \in odd : place(k) \in StringFailures(suggestion, <<i - 1, j - 1>>)
        BY Zenon DEF StringFailures
      <3> HIDE DEF odd, place
      <3>2. odd = {}
        BY <2>1, <3>1
      <3> QED BY <3>2 DEF odd
    <2>5. \A k \in DOMAIN obj["pros"].items : obj["pros"].items[k].type = "string"
      BY <2>3, <2>4 DEF Items
    <2> HIDE DEF obj
    <2>6. StringsField(obj, "pros").ok
      BY <2>3, <2>5 DEF StringsField
    <2> QED BY <2>2, <2>6
  <1> HIDE DEF c
  <1> QED BY <1>1, <1>2, <1>7, <1>8, <1>9, <1>10, Zenon DEF raw, c

LEMMA AnchorAdmitted ==
    ASSUME NEW root, IsDocument(root), Failures(root) = {},
           NEW i \in DOMAIN Items(root, "comments"),
           NEW j \in DOMAIN Items(Items(root, "comments")[i].object, "anchors")
    PROVE  LET raw == Items(Items(root, "comments")[i].object, "anchors")[j]
               anchor == ParseAnchor(raw) IN
           /\ anchor.object /\ anchor.file.ok
           /\ anchor.line.ok => anchor.line.value \in Int
           /\ anchor.endLine.ok => anchor.endLine.value \in Int
           /\ (anchor.line.present => anchor.line.ok /\ anchor.line.value < ExactFloatInt)
                 => AsWritten(anchor.line, raw.object, "line")
           /\ (anchor.endLine.present =>
                  anchor.endLine.ok /\ anchor.endLine.value < ExactFloatInt)
                 => AsWritten(anchor.endLine, raw.object, "end_line")
  <1> DEFINE comment == Items(root, "comments")[i]
             raw == Items(comment.object, "anchors")[j]
             anchor == ParseAnchor(raw)
  <1>1. comment \in Elements(root, "comments") /\ CommentFailures(comment, i) = {}
    BY NothingFails DEF Elements
  <1>2. ObjectFailures(raw, <<i - 1, j - 1>>, Anchors) = {}
    BY <1>1, NothingFailsInComments
  <1>3. raw \in Inner(root, "anchors")
    BY <1>1, InnerElement
  <1> HIDE DEF raw
  <1>4. \A key \in DOMAIN raw.object : WellFormed(raw.object[key])
    BY <1>3, MembersAreWellFormed
  <1>5. /\ Anchors \in Levels
        /\ "file" \in Required(Anchors) /\ "file" \in Properties(Anchors)
        /\ "file" \notin NumberKeys \cup ListKeys \cup StringListKeys
        /\ {"line", "end_line"} \subseteq Properties(Anchors) \cap NumberKeys
    BY PropertiesOf DEF Levels, Required, Optional, NumberKeys, ListKeys, StringListKeys
  <1>6. /\ anchor.object <=> raw.type = "object"
        /\ anchor.file = StringField(raw.object, "file")
        /\ anchor.line = IntField(raw.object, "line")
        /\ anchor.endLine = IntField(raw.object, "end_line")
    BY DEF ParseAnchor
  <1> HIDE DEF anchor
  <1>7. anchor.object
    BY <1>2, <1>5, <1>6, ObjectAdmitted
  <1>8. anchor.file.ok
    BY <1>2, <1>5, <1>6, StringAdmitted
  <1>9. /\ anchor.line.ok => anchor.line.value \in Int
        /\ (anchor.line.present => anchor.line.ok /\ anchor.line.value < ExactFloatInt)
              => AsWritten(anchor.line, raw.object, "line")
    BY <1>2, <1>4, <1>5, <1>6, NumberAdmitted
  <1>10. /\ anchor.endLine.ok => anchor.endLine.value \in Int
         /\ (anchor.endLine.present =>
                anchor.endLine.ok /\ anchor.endLine.value < ExactFloatInt)
               => AsWritten(anchor.endLine, raw.object, "end_line")
    BY <1>2, <1>4, <1>5, <1>6, NumberAdmitted
  <1> QED BY <1>7, <1>8, <1>9, <1>10, Zenon DEF anchor, raw

\* What is valid has no error to show, of whichever check.
LEMMA NothingIsAmiss ==
    ASSUME ReportInv, valid
    PROVE  /\ IsDocument(source.root.object)
           /\ Failures(source.root.object) = {} /\ Dedicated(Doc) = {}
           /\ Findings(Doc) = {} /\ Verdict(Doc).diverged = {}
           /\ ~VerificationRequired(Verdict(Doc), Unverifiable(Doc))
  <1> DEFINE root == source.root.object
  <1>1. /\ Parses(source) /\ Verdict(Doc).diverged = {}
        /\ diagnostics = Found /\ Errors = {}
    BY DEF ReportInv, Examined
  <1>2. IsDocument(root)
    BY <1>1, ValidateAssumption DEF ReportInv
  <1>3. \A d \in diagnostics : d.severity # "error"
    BY <1>1 DEF Errors
  <1>4. StructuralCheck(root, Doc) \subseteq diagnostics /\ Reported \subseteq diagnostics
    BY <1>1 DEF Found, Structured
  <1>5. Failures(root) = {}
    <2> HIDE DEF root
    <2>1. \A f \in Failures(root) : \E d \in diagnostics : d.severity = "error"
      BY <1>4, FailuresAreReported
    <2> QED BY <1>3, <2>1
  <1>6. Dedicated(Doc) = {}
    <2>1. Dedicated(Doc) \subseteq diagnostics
      BY <1>4 DEF StructuralCheck
    <2> QED BY <1>3, <2>1, DedicatedAreErrors
  <1>7. \A name, comment, path : Error(name, comment, path).severity = "error"
    BY DEF Error, Diagnostic
  <1>8. Findings(Doc) = {}
    <2>1. Findings(Doc) \subseteq diagnostics
      BY <1>4 DEF Reported
    <2>2. \A d \in Refuted(Doc) : d.severity = "error"
      BY <1>7, Zenon DEF Refuted
    <2>3. \A d \in Findings(Doc) : d.severity = "error"
      BY <1>7, <2>2 DEF Findings
    <2> QED BY <1>3, <2>1, <2>3
  <1>9. ~VerificationRequired(Verdict(Doc), Unverifiable(Doc))
    <2> SUFFICES ASSUME VerificationRequired(Verdict(Doc), Unverifiable(Doc))
                 PROVE  FALSE
      OBVIOUS
    <2>1. Error("verification-required", "", Nowhere) \in Reported
      BY Zenon DEF Reported
    <2> QED BY <1>3, <1>4, <1>7, <2>1
  <1> QED BY <1>1, <1>2, <1>5, <1>6, <1>8, <1>9

LEMMA ImageIsFinite ==
    ASSUME NEW S, IsFiniteSet(S), NEW f, f = [x \in S |-> f[x]]
    PROVE  IsFiniteSet({f[x] : x \in S})
  <1> DEFINE T == {f[x] : x \in S}
  <1>1. f \in Surjection(S, T)
    BY DEF Surjection
  <1> QED BY <1>1, FS_Surjection

LEMMA AnchorsAreFinite ==
    ASSUME NEW root, IsDocument(root)
    PROVE  IsFiniteSet(Claims(Parse(root))) /\ Cardinality(Claims(Parse(root))) \in Nat
  <1> DEFINE doc == Parse(root)
             comments == Items(root, "comments")
             of(i) == {<<i, j>> : j \in DOMAIN doc.comments[i].anchors}
  <1>1. DOMAIN doc.comments = DOMAIN comments
        /\ \A i \in DOMAIN comments :
              DOMAIN doc.comments[i].anchors = DOMAIN Items(comments[i].object, "anchors")
    BY CommentParsed DEF Parse, ParseComment
  <1> HIDE DEF doc
  <1>2. Len(comments) \in Nat /\ DOMAIN comments = 1..Len(comments)
    BY MembersAreWellFormed, ItemsAreIndexed
  <1>3. ASSUME NEW i \in DOMAIN comments
        PROVE  IsFiniteSet(of(i))
    <2>1. comments[i] \in Elements(root, "comments")
      BY <1>3 DEF Elements
    <2> DEFINE anchors == Items(comments[i].object, "anchors")
    <2>2. Len(anchors) \in Nat /\ DOMAIN anchors = 1..Len(anchors)
      BY <2>1, MembersAreWellFormed, ItemsAreIndexed
    <2>3. IsFiniteSet(DOMAIN anchors)
      BY <2>2, FS_Interval
    <2>4. DOMAIN doc.comments[i].anchors = DOMAIN anchors
      BY <1>1, <1>3
    <2> HIDE DEF anchors
    <2>5. of(i) = {<<i, j>> : j \in DOMAIN anchors}
      BY <2>4
    <2> DEFINE pair == [j \in DOMAIN anchors |-> <<i, j>>]
    <2>6. IsFiniteSet({pair[j] : j \in DOMAIN anchors})
      BY <2>3, ImageIsFinite, Zenon
    <2> QED BY <2>5, <2>6
  <1> HIDE DEF of
  <1>4. IsFiniteSet({of(i) : i \in DOMAIN comments})
    <2>1. IsFiniteSet(DOMAIN comments)
      BY <1>2, FS_Interval
    <2> HIDE DEF comments
    <2> DEFINE all == [i \in DOMAIN comments |-> of(i)]
    <2>2. IsFiniteSet({all[i] : i \in DOMAIN comments})
      BY <2>1, ImageIsFinite, Zenon
    <2> QED BY <2>2
  <1>5. AnchorsOf(doc) = UNION {of(i) : i \in DOMAIN comments}
    BY <1>1, Zenon DEF AnchorsOf, of
  <1>6. IsFiniteSet(AnchorsOf(doc))
    BY <1>3, <1>4, <1>5, FS_UNION
  <1>7. Claims(doc) \subseteq AnchorsOf(doc)
    BY DEF Claims
  <1> QED BY <1>6, <1>7, FS_Subset, FS_CardinalityType DEF doc

\* Every claim of a valid document was checked, and held.
LEMMA ClaimsHold ==
    ASSUME ReportInv, valid, NEW a \in Claims(Doc)
    PROVE  OutcomeAt(Doc, a) = "verified"
  <1>1. /\ IsDocument(source.root.object) /\ Findings(Doc) = {}
        /\ Verdict(Doc).diverged = {}
        /\ ~VerificationRequired(Verdict(Doc), Unverifiable(Doc))
    BY NothingIsAmiss
  <1>2. Cardinality(Claims(Doc)) > 0
    <2>1. IsFiniteSet(Claims(Doc)) /\ Cardinality(Claims(Doc)) \in Nat
      BY <1>1, AnchorsAreFinite DEF Doc
    <2>2. Cardinality(Claims(Doc)) # 0
      BY <2>1, FS_EmptySet
    <2> QED BY <2>1, <2>2
  <1>3. checkout.source = "repo" /\ Unverifiable(Doc) = {}
    <2>1. Verdict(Doc).anchors = Cardinality(Claims(Doc))
          /\ Verdict(Doc).source = checkout.source
      BY DEF Verdict
    <2> QED BY <1>1, <1>2, <2>1, Zenon DEF VerificationRequired
  <1>4. \A reason : Skips(reason) # {}
    BY DEF Skips, AnchorChecks
  <1>5. Comparable(Doc)
    <2> SUFFICES ASSUME ~Comparable(Doc)
                 PROVE  FALSE
      OBVIOUS
    <2>1. {s \in Skips("no usable ref") : Claims(Doc) # {}} = {}
      BY <1>3, Zenon DEF Unverifiable
    <2> QED BY <1>4, <2>1
  <1>6. With(Doc, {"unusable"}) = {} /\ With(Doc, {"unchecked"}) = {}
    <2>1. {s \in Skips("unusable field") : With(Doc, {"unusable"}) # {}}
          \cup {s \in Skips("git could not read") : With(Doc, {"unchecked"}) # {}} = {}
      BY <1>3, <1>5, Zenon DEF Unverifiable
    <2> QED BY <1>4, <2>1
  <1>7. With(Doc, {"file", "line", "end_line"}) = {}
    <2>1. Refuted(Doc) = {}
      BY <1>1, <1>5 DEF Findings
    <2> QED BY <2>1 DEF Refuted
  <1>8. With(Doc, {"diverged"}) = {}
    BY <1>1, <1>5 DEF Verdict
  <1>9. OutcomeAt(Doc, a)
           \in {"unusable", "unchecked", "file", "diverged", "line", "end_line", "verified"}
    BY DEF OutcomeAt, Outcome
  <1>10. \A outcomes : OutcomeAt(Doc, a) \in outcomes => a \in With(Doc, outcomes)
    BY DEF With
  <1>11. OutcomeAt(Doc, a)
            \notin {"unusable", "unchecked", "file", "diverged", "line", "end_line"}
    BY <1>6, <1>7, <1>8, <1>10
  <1> QED BY <1>9, <1>11

\* What is verified lies within its file.
LEMMA VerifiedLies ==
    ASSUME NEW doc, NEW anchor, Outcome(doc, anchor) = "verified"
    PROVE  /\ AnchorUsable(anchor)
           /\ anchor.file.value \in DOMAIN checkout.lines
           /\ anchor.line.ok => ~(anchor.line.value > checkout.lines[anchor.file.value])
           /\ anchor.endLine.ok => ~(anchor.endLine.value > checkout.lines[anchor.file.value])
  BY DEF Outcome

\* One anchor of a valid document.
LEMMA AnchorIsUsable ==
    ASSUME ReportInv, valid, NEW a \in AnchorsOf(Doc)
    PROVE  LET anchor == Doc.comments[a[1]].anchors[a[2]] IN
           /\ anchor.file.ok /\ anchor.file.value \notin Climbing \cup Unprintable
           /\ AsWritten(anchor.line, RawAnchor(a), "line")
           /\ AsWritten(anchor.endLine, RawAnchor(a), "end_line")
           /\ anchor.endLine.present =>
                 anchor.endLine.value
                     \in anchor.line.value..checkout.lines[anchor.file.value]
  <1> DEFINE root == source.root.object
             comments == Items(root, "comments")
             anchors == Items(comments[a[1]].object, "anchors")
             anchor == Doc.comments[a[1]].anchors[a[2]]
             length == checkout.lines[anchor.file.value]
  <1>1. /\ IsDocument(root) /\ Failures(root) = {} /\ Dedicated(Doc) = {}
    BY NothingIsAmiss
  <1>2. PICK i \in DOMAIN Doc.comments : \E j \in DOMAIN Doc.comments[i].anchors : a = <<i, j>>
    BY Zenon DEF AnchorsOf
  <1>3. PICK j \in DOMAIN Doc.comments[i].anchors : a = <<i, j>>
    BY <1>2
  <1>4. a[1] = i /\ a[2] = j
    BY <1>3
  <1>5. i \in DOMAIN comments /\ Doc.comments[i] = ParseComment(comments[i])
    BY <1>2, CommentParsed DEF Doc, Parse
  <1>6. j \in DOMAIN Items(comments[i].object, "anchors")
        /\ Doc.comments[i].anchors[j] = ParseAnchor(Items(comments[i].object, "anchors")[j])
    BY <1>3, <1>5 DEF ParseComment
  <1>7. anchor = ParseAnchor(anchors[a[2]]) /\ RawAnchor(a) = anchors[a[2]].object
    BY <1>4, <1>6, Zenon DEF RawAnchor, Raw, Commented
  <1>8. /\ anchor.object /\ anchor.file.ok
        /\ anchor.line.ok => anchor.line.value \in Int
        /\ anchor.endLine.ok => anchor.endLine.value \in Int
        /\ (anchor.line.present => anchor.line.ok /\ anchor.line.value < ExactFloatInt)
              => AsWritten(anchor.line, RawAnchor(a), "line")
        /\ (anchor.endLine.present =>
               anchor.endLine.ok /\ anchor.endLine.value < ExactFloatInt)
              => AsWritten(anchor.endLine, RawAnchor(a), "end_line")
    <2> HIDE DEF root, anchor
    <2>1. anchor = ParseAnchor(Items(Items(root, "comments")[i].object, "anchors")[j])
          /\ RawAnchor(a) = Items(Items(root, "comments")[i].object, "anchors")[j].object
      BY <1>4, <1>7, Zenon
    <2> QED BY <1>1, <1>5, <1>6, <2>1, AnchorAdmitted, Zenon
  <1>9. a \in Claims(Doc)
    BY <1>8 DEF Claims
  <1>10. Outcome(Doc, anchor) = "verified"
    BY <1>9, ClaimsHold, Zenon DEF OutcomeAt
  <1>11. a \notin {e \in AnchorsOf(Doc) :
                     LET one == Doc.comments[e[1]].anchors[e[2]] IN
                     /\ one.endLine.ok
                     /\ \/ ~one.line.present
                        \/ one.line.ok /\ one.endLine.value < one.line.value}
    <2>1. AnchorRangeOrdered(Doc) = {}
      BY <1>1 DEF Dedicated
    <2> QED BY <2>1, Zenon DEF AnchorRangeOrdered
  <1>12. a \notin {e \in AnchorsOf(Doc) :
                     LET file == Doc.comments[e[1]].anchors[e[2]].file IN
                     file.ok /\ file.value \in Climbing \cup Unprintable}
    <2>1. AnchorPathSafe(Doc) = {}
      BY <1>1 DEF Dedicated
    <2> QED BY <2>1, Zenon DEF AnchorPathSafe
  <1>13. /\ anchor.endLine.ok => /\ anchor.line.present
                                 /\ anchor.line.ok => ~(anchor.endLine.value < anchor.line.value)
         /\ anchor.file.value \notin Climbing \cup Unprintable
    BY <1>8, <1>11, <1>12, Zenon
  <1> HIDE DEF anchor
  <1>14. /\ AnchorUsable(anchor) /\ anchor.file.value \in DOMAIN checkout.lines
         /\ anchor.line.ok => ~(anchor.line.value > length)
         /\ anchor.endLine.ok => ~(anchor.endLine.value > length)
    BY <1>10, VerifiedLies, Zenon
  <1>15. length \in Int /\ length < ExactFloatInt /\ ExactFloatInt \in Int
    <2>1. checkout \in Checkouts
      BY DEF ReportInv, Checkouts
    <2>2. length \in 0..(ExactFloatInt - 1)
      BY <1>14, <2>1, ValidateAssumption, Zenon
    <2>3. ExactFloatInt \in Nat
      BY DocumentAssumption, Zenon
    <2> QED BY <2>2, <2>3
  <1> HIDE DEF length
  <1>16. /\ anchor.line.present => anchor.line.ok
         /\ anchor.endLine.present => anchor.endLine.ok
    BY <1>14, Zenon DEF AnchorUsable
  <1>17. /\ anchor.line.present => anchor.line.value < ExactFloatInt
         /\ anchor.endLine.present => anchor.endLine.value < ExactFloatInt
    BY <1>8, <1>14, <1>15, <1>16
  <1>18. anchor.endLine.present => anchor.endLine.value \in anchor.line.value..length
    BY <1>8, <1>13, <1>14, <1>15, <1>16
  <1> QED BY <1>8, <1>13, <1>16, <1>17, <1>18, Zenon DEF anchor, length

LEMMA IdsAreDistinct ==
    ASSUME NEW root, IsDocument(root), IdUnique(Parse(root)) = {},
           NEW i \in DOMAIN Parse(root).comments, NEW k \in DOMAIN Parse(root).comments,
           Parse(root).comments[i].id.ok,
           Parse(root).comments[k].id = Parse(root).comments[i].id
    PROVE  i = k
  <1> DEFINE doc == Parse(root)
  <1>1. DOMAIN doc.comments = 1..Len(Items(root, "comments"))
        /\ Len(Items(root, "comments")) \in Nat
    <2>1. DOMAIN doc.comments = DOMAIN Items(root, "comments")
      BY DEF Parse
    <2> QED BY <2>1, MembersAreWellFormed, ItemsAreIndexed
  <1>2. \A m \in DOMAIN doc.comments :
           ~(/\ doc.comments[m].id.ok
             /\ \E e \in DOMAIN doc.comments :
                   e < m /\ doc.comments[e].id = doc.comments[m].id)
    BY Zenon DEF IdUnique
  <1> HIDE DEF doc
  <1>3. doc.comments[k].id = doc.comments[i].id /\ doc.comments[i].id.ok
        /\ doc.comments[k].id.ok
    BY DEF doc
  <1>4. i \in DOMAIN doc.comments /\ k \in DOMAIN doc.comments
    BY DEF doc
  <1>5. ~(i < k) /\ ~(k < i)
    BY <1>2, <1>3, <1>4, Zenon
  <1> QED BY <1>1, <1>4, <1>5

LEMMA ReportedIsUsable == ReportInv => ValidIsUsable
  <1> SUFFICES ASSUME ReportInv, valid
               PROVE  ValidIsUsable
    BY DEF ValidIsUsable
  <1> DEFINE root == source.root.object
  <1>1. /\ IsDocument(root) /\ Failures(root) = {} /\ Dedicated(Doc) = {}
    BY NothingIsAmiss
  <1>2. /\ ObjectFailures(Object(root), <<>>, Root) = {}
        /\ Object(root).object = root
    BY <1>1, NothingFails, ObjectHas
  <1>3. /\ Root \in Levels /\ {"ref", "profile", "comments"} \subseteq Properties(Root)
        /\ {"ref", "comments"} \subseteq Required(Root)
        /\ "ref" \notin NumberKeys \cup ListKeys \cup StringListKeys
        /\ "profile" \notin NumberKeys \cup ListKeys \cup StringListKeys
        /\ "comments" \in ListKeys
    BY PropertiesOf DEF Levels, Required, Optional, NumberKeys, ListKeys, StringListKeys
  <1>4. /\ Doc.ref = StringField(root, "ref") /\ Doc.profile = StringField(root, "profile")
        /\ Doc.commentsArray = IsArray(root, "comments")
        /\ DOMAIN Doc.comments = DOMAIN Items(root, "comments")
        /\ \A i \in DOMAIN Doc.comments : Doc.comments[i] = ParseComment(Commented[i])
    BY DEF Doc, Parse, Commented
  <1>5. Doc.commentsArray
    <2>1. "comments" \in DOMAIN root /\ root["comments"].type = "array"
      BY <1>2, <1>3, ObjectAdmitted, Admission
    <2> QED BY <1>4, <2>1, Zenon DEF IsArray
  <1>6. Doc.ref.ok /\ (Doc.profile.present => Doc.profile.ok)
    BY <1>2, <1>3, <1>4, StringAdmitted
  <1>7. Doc.profile.ok => Doc.profile.value \in Labels
    <2>1. ProfileFormat(Doc) = {}
      BY <1>1 DEF Dedicated
    <2> QED BY <2>1 DEF ProfileFormat
  <1>8. ASSUME NEW i \in DOMAIN Doc.comments
        PROVE  LET c == Doc.comments[i] IN
               /\ c.object /\ c.id.ok /\ c.category.ok /\ c.body.ok
               /\ c.priority.ok /\ AsWritten(c.priority, Raw(i), "priority")
               /\ \A k \in DOMAIN Doc.comments : Doc.comments[k].id = c.id => i = k
               /\ \A j \in DOMAIN c.suggestions : c.suggestions[j].pros.ok
    <2>1. i \in DOMAIN Items(root, "comments")
          /\ Doc.comments[i] = ParseComment(Items(root, "comments")[i])
          /\ Raw(i) = Items(root, "comments")[i].object
      BY <1>4, <1>8, Zenon DEF Raw, Commented
    <2>2. LET c == Doc.comments[i] IN
          /\ c.object /\ c.id.ok /\ c.category.ok /\ c.body.ok
          /\ c.priority.ok /\ AsWritten(c.priority, Raw(i), "priority")
          /\ \A j \in DOMAIN c.suggestions : c.suggestions[j].pros.ok
      <3> HIDE DEF root
      <3> QED BY <1>1, <2>1, CommentAdmitted, Zenon
    <2>3. \A k \in DOMAIN Doc.comments : Doc.comments[k].id = Doc.comments[i].id => i = k
      <3>1. IdUnique(Doc) = {}
        BY <1>1 DEF Dedicated
      <3> QED BY <1>1, <1>8, <2>2, <3>1, IdsAreDistinct DEF Doc
    <2> QED BY <2>2, <2>3, Zenon
  <1> QED BY <1>5, <1>6, <1>7, <1>8, AnchorIsUsable, Zenon DEF ValidIsUsable

\* What is stored as valid can be read without asking whether it is there: the
\* fields are of their types, the numbers as they were written, the ids
\* distinct, the spans within their files (validate.Run, collect.convertAnchors).
THEOREM ValidIsAlwaysUsable == ValidateSpec => []ValidIsUsable
  BY ReportedIsUsable, ReportStarts, ReportStays, PTL DEF ValidateSpec

-----------------------------------------------------------------------------
(* The worst comment                                                       *)

\* Some index has the greatest value: otherwise take the least prefix of which
\* none has.
LEMMA GreatestExists ==
    ASSUME NEW n \in Nat, NEW U \in SUBSET (1..n), U # {}, NEW f, \A i \in U : f[i] \in Int
    PROVE  \E i \in U : \A k \in U : f[k] <= f[i]
  <1> DEFINE tops(m) == {i \in U \cap 1..m : \A k \in U \cap 1..m : f[k] <= f[i]}
             topless == {m \in 1..n : U \cap 1..m # {} /\ tops(m) = {}}
  <1>1. topless = {}
    <2> SUFFICES ASSUME topless # {}
                 PROVE  FALSE
      OBVIOUS
    <2> DEFINE m == Min(topless)
    <2>1. m \in topless /\ \A u \in topless : m <= u
      <3>1. topless \in SUBSET Nat
        OBVIOUS
      <3> HIDE DEF topless
      <3> QED BY <3>1, LeastExists
    <2> HIDE DEF m
    <2>2. m \in 1..n /\ U \cap 1..m # {} /\ tops(m) = {}
      BY <2>1
    <2>3. CASE U \cap 1..(m - 1) = {}
      <3>1. U \cap 1..m = {m}
        BY <2>2, <2>3
      <3>2. m \in tops(m)
        BY <3>1
      <3> QED BY <2>2, <3>2
    <2>4. CASE U \cap 1..(m - 1) # {}
      <3>1. m - 1 \in 1..n /\ m - 1 < m
        BY <2>2, <2>4
      <3>2. m - 1 \notin topless
        BY <2>1, <3>1
      <3>3. PICK i \in U \cap 1..(m - 1) : \A k \in U \cap 1..(m - 1) : f[k] <= f[i]
        BY <2>4, <3>1, <3>2
      <3>4. \A k \in U \cap 1..m : k = m \/ k \in U \cap 1..(m - 1)
        BY <2>2
      <3>5. i \in U \cap 1..m
        BY <2>2, <3>3
      <3>6. CASE m \in U /\ f[i] <= f[m]
        <4>1. \A k \in U \cap 1..(m - 1) : f[k] <= f[m]
          BY <3>3, <3>6
        <4>2. m \in U \cap 1..m /\ f[m] <= f[m]
          BY <2>2, <3>6
        <4>3. m \in tops(m)
          BY <3>4, <4>1, <4>2
        <4> QED BY <2>2, <4>3
      <3>7. CASE ~(m \in U /\ f[i] <= f[m])
        <4>1. m \in U => f[m] <= f[i]
          BY <3>3, <3>7
        <4>2. i \in tops(m)
          BY <3>3, <3>4, <3>5, <4>1
        <4> QED BY <2>2, <4>2
      <3> QED BY <3>6, <3>7
    <2> QED BY <2>3, <2>4
  <1>2. U \cap 1..n = U /\ n \in 1..n
    <2>1. U \cap 1..n = U
      OBVIOUS
    <2>2. PICK i \in U : i \in 1..n
      OBVIOUS
    <2>3. n \in 1..n
      BY <2>2
    <2> QED BY <2>1, <2>3
  <1>3. tops(n) # {}
    BY <1>1, <1>2
  <1> QED BY <1>2, <1>3

LEMMA WorstIsWorst ==
    ASSUME NEW doc, NEW n \in Nat, DOMAIN doc.comments = 1..n, Usable(doc) # {},
           \A i \in Usable(doc) : doc.comments[i].priority.value \in Int
    PROVE  /\ Worst(doc) \in Usable(doc)
           /\ \A k \in Usable(doc) :
                 doc.comments[k].priority.value <= doc.comments[Worst(doc)].priority.value
  <1> DEFINE f == [i \in 1..n |-> doc.comments[i].priority.value]
             tops == {i \in Usable(doc) : \A k \in Usable(doc) :
                         doc.comments[k].priority.value <= doc.comments[i].priority.value}
  <1>1. Usable(doc) \subseteq 1..n
    BY DEF Usable
  <1>2. \A i \in Usable(doc) : f[i] = doc.comments[i].priority.value /\ f[i] \in Int
    BY <1>1
  <1> HIDE DEF f
  <1>3. \E i \in Usable(doc) : \A k \in Usable(doc) : f[k] <= f[i]
    BY <1>1, <1>2, GreatestExists, Zenon
  <1>4. tops # {} /\ tops \in SUBSET Nat
    <2>1. PICK i \in Usable(doc) : \A k \in Usable(doc) : f[k] <= f[i]
      BY <1>3
    <2>2. i \in tops
      BY <1>2, <2>1
    <2>3. tops \subseteq Usable(doc) /\ 1..n \subseteq Nat
      OBVIOUS
    <2> QED BY <1>1, <2>2, <2>3
  <1>5. Min(tops) \in tops
    <2> HIDE DEF tops
    <2> QED BY <1>4, LeastExists
  <1> QED BY <1>5, Zenon DEF Worst

LEMMA CommentsAreIndexed ==
    ASSUME NEW root, IsDocument(root)
    PROVE  /\ Len(Items(root, "comments")) \in Nat
           /\ DOMAIN Items(root, "comments") = 1..Len(Items(root, "comments"))
           /\ DOMAIN Parse(root).comments = 1..Len(Items(root, "comments"))
           /\ Len(Parse(root).comments) = Len(Items(root, "comments"))
           /\ Parse(root).comments = <<>> <=> Len(Items(root, "comments")) = 0
  <1> DEFINE n == Len(Items(root, "comments"))
             comments == Parse(root).comments
             S == {comments[i] : i \in 1..n}
  <1>1. n \in Nat /\ DOMAIN Items(root, "comments") = 1..n
    BY MembersAreWellFormed, ItemsAreIndexed
  <1>2. comments = [i \in 1..n |-> comments[i]] /\ DOMAIN comments = 1..n
    BY <1>1 DEF Parse
  <1> HIDE DEF n, comments
  <1>3. comments \in [1..n -> S]
    BY <1>2
  <1> HIDE DEF S
  <1>4. comments \in Seq(S)
    BY <1>1, <1>3, SeqDef
  <1>5. Len(comments) \in Nat /\ DOMAIN comments = 1..Len(comments)
    BY <1>4
  <1>6. Len(comments) = n
    <2>1. \A a, b \in Nat : 1..a = 1..b => a = b
      <3> SUFFICES ASSUME NEW a \in Nat, NEW b \in Nat, 1..a = 1..b, a # b
                   PROVE  FALSE
        OBVIOUS
      <3>1. (a \in 1..a <=> a \in 1..b) /\ (b \in 1..a <=> b \in 1..b)
        OBVIOUS
      <3> QED BY <3>1
    <2> QED BY <1>1, <1>2, <1>5, <2>1
  <1>7. comments = <<>> <=> Len(comments) = 0
    BY <1>4, EmptySeq
  <1> QED BY <1>1, <1>2, <1>6, <1>7 DEF n, comments

LEMMA IntegersAreRead ==
    ASSUME NEW raw, raw.twice \in Int
    PROVE  IntegerOf(raw) \in Int
  <1>1. raw.twice \div 2 \in Int
    OBVIOUS
  <1> DEFINE n == raw.twice \div 2
  <1>2. n \in Int /\ n - 1 \in Int /\ n + 1 \in Int
    BY <1>1
  <1> HIDE DEF n
  <1>3. Float64(n) \in Int
    BY <1>2, Zenon DEF Float64
  <1> QED BY <1>2, <1>3, Zenon DEF IntegerOf, n

LEMMA PrioritiesAreIntegers ==
    ASSUME NEW root, IsDocument(root), NEW i \in Usable(Parse(root))
    PROVE  Parse(root).comments[i].priority.value \in Int
  <1> DEFINE raw == Items(root, "comments")[i]
             field == IntField(raw.object, "priority")
  <1>1. i \in DOMAIN Items(root, "comments")
    <2>1. i \in DOMAIN Parse(root).comments
      BY DEF Usable
    <2>2. DOMAIN Parse(root).comments = DOMAIN Items(root, "comments")
      BY DEF Parse
    <2> QED BY <2>1, <2>2, Zenon
  <1>2. raw \in Elements(root, "comments")
    BY <1>1 DEF Elements
  <1>3. Parse(root).comments[i].priority = field
    <2>1. Parse(root).comments[i] = ParseComment(raw)
      BY <1>1, CommentParsed
    <2> QED BY <2>1 DEF ParseComment
  <1> HIDE DEF raw
  <1>4. field.ok => /\ "priority" \in DOMAIN raw.object
                    /\ field.value = IntegerOf(raw.object["priority"])
    BY IntRead, Zenon
  <1>5. "priority" \in DOMAIN raw.object => raw.object["priority"].twice \in Int
    BY <1>2, MembersAreWellFormed DEF WellFormed
  <1>6. field.ok
    BY <1>3 DEF Usable
  <1> QED BY <1>3, <1>4, <1>5, <1>6, IntegersAreRead, Zenon

-----------------------------------------------------------------------------
(* The bands of severity                                                   *)

LEMMA TwoParts ==
    ASSUME NEW S, NEW T, IsFiniteSet(S), IsFiniteSet(T), S \cap T = {}
    PROVE  IsFiniteSet(S \cup T) /\ Cardinality(S \cup T) = Cardinality(S) + Cardinality(T)
  <1>1. /\ IsFiniteSet(S \cup T)
        /\ Cardinality(S \cup T) = Cardinality(S) + Cardinality(T) - Cardinality(S \cap T)
    BY FS_Union, Zenon
  <1>2. Cardinality(S \cap T) = 0
    BY FS_EmptySet
  <1>3. Cardinality(S) \in Nat /\ Cardinality(T) \in Nat
    BY FS_CardinalityType
  <1> QED BY <1>1, <1>2, <1>3

LEMMA FourParts ==
    ASSUME NEW A, NEW B, NEW C, NEW D,
           IsFiniteSet(A), IsFiniteSet(B), IsFiniteSet(C), IsFiniteSet(D),
           A \cap B = {}, (A \cup B) \cap C = {}, (A \cup B \cup C) \cap D = {}
    PROVE  Cardinality(A \cup B \cup C \cup D)
              = Cardinality(A) + Cardinality(B) + Cardinality(C) + Cardinality(D)
  <1>1. IsFiniteSet(A \cup B) /\ Cardinality(A \cup B) = Cardinality(A) + Cardinality(B)
    BY TwoParts, Zenon
  <1>2. /\ IsFiniteSet(A \cup B \cup C)
        /\ Cardinality(A \cup B \cup C) = Cardinality(A \cup B) + Cardinality(C)
    BY <1>1, TwoParts, Zenon
  <1>3. Cardinality(A \cup B \cup C \cup D) = Cardinality(A \cup B \cup C) + Cardinality(D)
    BY <1>2, TwoParts, Zenon
  <1> QED BY <1>1, <1>2, <1>3, Zenon

\* The bands of comments whose priorities are those the schema admits.
LEMMA BandsPart ==
    ASSUME NEW doc, NEW n \in Nat, DOMAIN doc.comments = 1..n, Usable(doc) = 1..n,
           \A i \in 1..n : doc.comments[i].priority.value \in 1..10
    PROVE  LET s == SeverityOf(doc)
               p(i) == doc.comments[i].priority.value IN
           /\ s.mustFix \in Nat /\ s.shouldFix \in Nat
           /\ s.worthFixing \in Nat /\ s.optional \in Nat
           /\ s.mustFix + s.shouldFix + s.worthFixing + s.optional = n
           /\ s.mustFix > 0 <=> \E i \in 1..n : p(i) >= 9
           /\ s.mustFix + s.shouldFix + s.worthFixing > 0 <=> \E i \in 1..n : p(i) >= 4
  <1> DEFINE p(i) == doc.comments[i].priority.value
             A == {i \in Usable(doc) : p(i) \in 9..MaxInt}
             B == {i \in Usable(doc) : p(i) \in 7..8}
             C == {i \in Usable(doc) : p(i) \in 4..6}
             D == {i \in Usable(doc) : p(i) \in (-MaxInt)..3}
             s == SeverityOf(doc)
  <1>1. /\ s.mustFix = Cardinality(A) /\ s.shouldFix = Cardinality(B)
        /\ s.worthFixing = Cardinality(C) /\ s.optional = Cardinality(D)
    BY DEF SeverityOf, Between
  <1>2. MaxInt \in Nat /\ MaxInt >= 10
    <2>1. /\ ExactFloatInt \in Nat /\ ExactFloatInt >= 10
          /\ MaxInt \in Nat /\ ExactFloatInt < MaxInt
      BY DocumentAssumption, Zenon
    <2> QED BY <2>1
  <1> HIDE DEF s, p
  <1>3. \A i \in 1..n : p(i) \in 1..10
    BY DEF p
  <1>4. /\ \A i : i \in A <=> i \in 1..n /\ p(i) >= 9
        /\ \A i : i \in B <=> i \in 1..n /\ p(i) \in 7..8
        /\ \A i : i \in C <=> i \in 1..n /\ p(i) \in 4..6
        /\ \A i : i \in D <=> i \in 1..n /\ p(i) <= 3
    BY <1>2, <1>3
  <1> HIDE DEF A, B, C, D
  <1>5. A \cap B = {} /\ (A \cup B) \cap C = {} /\ (A \cup B \cup C) \cap D = {}
    BY <1>3, <1>4
  <1>6. A \cup B \cup C \cup D = 1..n
    BY <1>3, <1>4
  <1>7. IsFiniteSet(1..n) /\ Cardinality(1..n) = n
    BY FS_Interval
  <1>8. IsFiniteSet(A) /\ IsFiniteSet(B) /\ IsFiniteSet(C) /\ IsFiniteSet(D)
    <2>1. A \subseteq 1..n /\ B \subseteq 1..n /\ C \subseteq 1..n /\ D \subseteq 1..n
      BY <1>4
    <2> QED BY <1>7, <2>1, FS_Subset
  <1>9. n = Cardinality(A) + Cardinality(B) + Cardinality(C) + Cardinality(D)
    BY <1>5, <1>6, <1>7, <1>8, FourParts
  <1>10. /\ Cardinality(A) \in Nat /\ Cardinality(B) \in Nat
         /\ Cardinality(C) \in Nat /\ Cardinality(D) \in Nat
         /\ Cardinality(A) = 0 <=> A = {}
         /\ Cardinality(B) = 0 <=> B = {}
         /\ Cardinality(C) = 0 <=> C = {}
    BY <1>8, FS_CardinalityType, FS_EmptySet
  <1>11. s.mustFix > 0 <=> \E i \in 1..n : p(i) >= 9
    <2>1. s.mustFix > 0 <=> A # {}
      BY <1>1, <1>10
    <2> QED BY <1>4, <2>1
  <1>12. s.mustFix + s.shouldFix + s.worthFixing > 0 <=> \E i \in 1..n : p(i) >= 4
    <2>1. s.mustFix + s.shouldFix + s.worthFixing > 0 <=> A # {} \/ B # {} \/ C # {}
      BY <1>1, <1>10
    <2>2. \A i \in 1..n : p(i) >= 4 <=> i \in A \cup B \cup C
      BY <1>3, <1>4
    <2>3. A \cup B \cup C \subseteq 1..n
      BY <1>4
    <2> QED BY <2>1, <2>2, <2>3
  <1> QED BY <1>1, <1>9, <1>10, <1>11, <1>12 DEF s, p

\* The severity under which a stored review is shown and the advisory on its
\* assessment are of one scale (collect.severityOf, calibration.go).
THEOREM AssessmentAlwaysMatches == ValidateSpec => []AssessmentMatchesBands
  <1>1. ReportInv => AssessmentMatchesBands
    <2> SUFFICES ASSUME ReportInv, valid, at = "done"
                 PROVE  AssessmentMatchesBands
      BY DEF AssessmentMatchesBands
    <2> DEFINE root == source.root.object
               n == Len(Items(root, "comments"))
               p(i) == Doc.comments[i].priority.value
               serious == severity.mustFix + severity.shouldFix + severity.worthFixing
    <2>1. IsDocument(root) /\ Failures(root) = {}
      BY NothingIsAmiss
    <2>2. severity = SeverityOf(Doc)
      BY DEF ReportInv
    <2>3. /\ n \in Nat /\ DOMAIN Items(root, "comments") = 1..n
          /\ DOMAIN Doc.comments = 1..n /\ Len(Doc.comments) = n
          /\ Doc.comments = <<>> <=> n = 0
      BY <2>1, CommentsAreIndexed DEF Doc
    <2>4. \A i \in 1..n : Doc.comments[i].priority.ok /\ p(i) \in 1..10
      <3> TAKE i \in 1..n
      <3>1. i \in DOMAIN Items(root, "comments")
        BY <2>3
      <3>2. Doc.comments[i] = ParseComment(Items(root, "comments")[i])
        BY <3>1, CommentParsed DEF Doc
      <3> HIDE DEF root
      <3> QED BY <2>1, <3>1, <3>2, CommentAdmitted, Zenon
    <2> HIDE DEF root, n
    <2>5. Usable(Doc) = 1..n
      BY <2>3, <2>4 DEF Usable
    <2>6. /\ severity.mustFix \in Nat /\ severity.shouldFix \in Nat
          /\ severity.worthFixing \in Nat /\ severity.optional \in Nat
          /\ serious + severity.optional = n
          /\ severity.mustFix > 0 <=> \E i \in 1..n : p(i) >= 9
          /\ serious > 0 <=> \E i \in 1..n : p(i) >= 4
      BY <2>2, <2>3, <2>4, <2>5, BandsPart
    <2>7. severity.max = {p(Worst(Doc)) : u \in 1..n}
      BY <2>2, <2>5 DEF SeverityOf
    <2>8. n > 0 => /\ Worst(Doc) \in 1..n
                   /\ \A k \in 1..n : p(k) <= p(Worst(Doc))
      <3> SUFFICES ASSUME n > 0
                   PROVE  /\ Worst(Doc) \in 1..n
                          /\ \A k \in 1..n : p(k) <= p(Worst(Doc))
        OBVIOUS
      <3>1. Usable(Doc) # {}
        <4>1. 1 \in 1..n
          BY <2>3
        <4> QED BY <2>5, <4>1
      <3>2. \A i \in Usable(Doc) : p(i) \in Int
        BY <2>4, <2>5
      <3> QED BY <2>3, <2>5, <3>1, <3>2, WorstIsWorst
    <2> HIDE DEF p
    <2>9. severity.max = {} <=> n = 0
      <3>1. 1..n = {} <=> n = 0
        BY <2>3
      <3> QED BY <2>7, <3>1
    <2>10. severity.mustFix > 0 <=> \E m \in severity.max : m >= 9
      <3>1. (\E i \in 1..n : p(i) >= 9) => n > 0 /\ p(Worst(Doc)) >= 9
        <4> SUFFICES ASSUME NEW i \in 1..n, p(i) >= 9
                     PROVE  n > 0 /\ p(Worst(Doc)) >= 9
          OBVIOUS
        <4>1. n > 0
          BY <2>3
        <4>2. p(i) <= p(Worst(Doc)) /\ p(i) \in Int /\ p(Worst(Doc)) \in Int
          BY <2>4, <2>8, <4>1 DEF p
        <4> QED BY <4>1, <4>2
      <3>2. (\E m \in severity.max : m >= 9) => n > 0 /\ p(Worst(Doc)) >= 9
        BY <2>3, <2>7
      <3>3. n > 0 /\ p(Worst(Doc)) >= 9 =>
               (\E i \in 1..n : p(i) >= 9) /\ \E m \in severity.max : m >= 9
        BY <2>7, <2>8
      <3> QED BY <2>6, <3>1, <3>2, <3>3 DEF p
    <2>11. serious > 0 <=> Serious(Doc)
      <3>1. Serious(Doc) <=> n > 0 /\ p(Worst(Doc)) >= 4
        <4>1. Usable(Doc) # {} <=> n > 0
          BY <2>3, <2>5
        <4> QED BY <4>1 DEF Serious, AssessmentOptionalBandFloor, p
      <3>2. (\E i \in 1..n : p(i) >= 4) => n > 0 /\ p(Worst(Doc)) >= 4
        <4> SUFFICES ASSUME NEW i \in 1..n, p(i) >= 4
                     PROVE  n > 0 /\ p(Worst(Doc)) >= 4
          OBVIOUS
        <4>1. n > 0
          BY <2>3
        <4>2. p(i) <= p(Worst(Doc)) /\ p(i) \in Int /\ p(Worst(Doc)) \in Int
          BY <2>4, <2>8, <4>1 DEF p
        <4> QED BY <4>1, <4>2
      <3>3. n > 0 /\ p(Worst(Doc)) >= 4 => \E i \in 1..n : p(i) >= 4
        BY <2>8
      <3> QED BY <2>6, <3>1, <3>2, <3>3 DEF p
    <2>12. ASSUME Graded(Doc), ~Told("assessment-priority-mismatch")
           PROVE  (Doc.assessment.value = "weak") <=> Serious(Doc)
      <3>1. AssessmentPriorityMismatch(Doc) \subseteq diagnostics
        BY Zenon DEF ReportInv, Examined, Found, Advised, Calibration
      <3>2. \A comment, path :
               Advice("assessment-priority-mismatch", comment, path).name
                  = "assessment-priority-mismatch"
        BY DEF Advice, Diagnostic
      <3>3. \A comment, path :
               Advice("assessment-priority-mismatch", comment, path) \notin diagnostics
        BY <2>12, <3>2 DEF Told
      <3>4. Unusable(Doc) = {}
        <4>1. Doc.commentsArray
          BY ReportedIsUsable, Zenon DEF ValidIsUsable
        <4> QED BY <2>3, <2>4, <4>1 DEF Unusable
      <3> DEFINE weak == Doc.assessment.value = "weak"
      <3>5. CASE weak = Serious(Doc)
        BY <3>5
      <3>6. CASE weak # Serious(Doc)
        <4>1. AssessmentPriorityMismatch(Doc) # {}
          BY <2>12, <3>4, <3>6 DEF AssessmentPriorityMismatch
        <4>2. \A d \in AssessmentPriorityMismatch(Doc) :
                 \E comment, path : d = Advice("assessment-priority-mismatch", comment, path)
          BY Zenon DEF AssessmentPriorityMismatch
        <4> QED BY <3>1, <3>3, <4>1, <4>2
      <3> QED BY <3>5, <3>6
    <2> QED BY <2>3, <2>6, <2>9, <2>10, <2>11, <2>12, Zenon DEF AssessmentMatchesBands
  <1> QED BY <1>1, ReportStarts, ReportStays, PTL DEF ValidateSpec

-----------------------------------------------------------------------------
(* What silence means                                                      *)

\* Every id and every priority of a parsed document, as it was written.
LEMMA CommentRead ==
    ASSUME NEW root, IsDocument(root), NEW i \in DOMAIN Items(root, "comments")
    PROVE  LET raw == Items(root, "comments")[i]
               c == Parse(root).comments[i] IN
           /\ c.object <=> raw.type = "object"
           /\ c.id.ok => c.id.value \in Texts
           /\ c.priority.ok =>
                 /\ "priority" \in DOMAIN raw.object
                 /\ raw.object["priority"].type = "number"
                 /\ Integral(raw.object["priority"])
                 /\ raw.object["priority"].twice \in Int
                 /\ c.priority.value = IntegerOf(raw.object["priority"])
  <1> DEFINE raw == Items(root, "comments")[i]
             c == Parse(root).comments[i]
  <1>1. c = ParseComment(raw)
    BY CommentParsed
  <1>2. raw \in Elements(root, "comments")
    BY DEF Elements
  <1> HIDE DEF raw, c
  <1>3. \A key \in DOMAIN raw.object :
           raw.object[key].text \in Texts /\ raw.object[key].twice \in Int
    BY <1>2, MembersAreWellFormed DEF WellFormed
  <1>4. /\ c.object <=> raw.type = "object"
        /\ c.id = StringField(raw.object, "id")
        /\ c.priority = IntField(raw.object, "priority")
    BY <1>1 DEF ParseComment
  <1>5. c.id.ok => c.id.value \in Texts
    BY <1>3, <1>4, StringRead
  <1>6. c.priority.ok =>
           /\ "priority" \in DOMAIN raw.object
           /\ raw.object["priority"].type = "number"
           /\ Integral(raw.object["priority"])
           /\ raw.object["priority"].twice \in Int
           /\ c.priority.value = IntegerOf(raw.object["priority"])
    BY <1>3, <1>4, IntRead
  <1> QED BY <1>4, <1>5, <1>6 DEF raw, c

\* Short of the bound two spellings of one integer are read alike, and on
\* either side of it an integer keeps its side of the optional band.
LEMMA IntegerReadAs ==
    ASSUME NEW raw, raw.twice \in Int, Integral(raw)
    PROVE  /\ ~(Abs(raw.twice) > 2 * ExactFloatInt) => 2 * IntegerOf(raw) = raw.twice
           /\ IntegerOf(raw) >= AssessmentOptionalBandFloor <=> raw.twice > 6
  <1> DEFINE n == raw.twice \div 2
             m == Float64(n)
  <1>1. raw.twice % 2 = 0
    BY DEF Integral
  <1>2. n \in Int /\ 2 * n = raw.twice
    BY <1>1
  <1>3. IntegerOf(raw) \in {n, m}
    BY Zenon DEF IntegerOf
  <1> HIDE DEF n
  <1>4. m \in {n, n - 1, n + 1} /\ (Abs(n) <= ExactFloatInt => m = n)
    BY Zenon DEF Float64
  <1> HIDE DEF m
  <1>5. ExactFloatInt \in Nat /\ ExactFloatInt >= 10
    BY DocumentAssumption, Zenon
  <1>6. Abs(n) <= ExactFloatInt <=> (n <= ExactFloatInt /\ -n <= ExactFloatInt)
    BY <1>2, <1>5 DEF Abs
  <1>7. Abs(raw.twice) > 2 * ExactFloatInt <=> ~(Abs(n) <= ExactFloatInt)
    BY <1>2, <1>5 DEF Abs
  <1>8. IntegerOf(raw) = n \/ IntegerOf(raw) = n - 1 \/ IntegerOf(raw) = n + 1
    BY <1>3, <1>4
  <1>9. Abs(n) <= ExactFloatInt => IntegerOf(raw) = n
    BY <1>3, <1>4
  <1>10. IntegerOf(raw) >= 4 <=> raw.twice > 6
    BY <1>2, <1>5, <1>6, <1>8, <1>9
  <1> QED BY <1>2, <1>7, <1>9, <1>10 DEF AssessmentOptionalBandFloor

\* Without a gap the suffixes of a slug are all the numbers up to each of them.
LEMMA NoGapIsAll ==
    ASSUME NEW S \in SUBSET Nat, 0 \notin S, Gaps(S) = {}, NEW s \in S
    PROVE  1..s \subseteq S
  <1> DEFINE T == {t \in S : t <= s}
  <1>1. Cardinality(T) = s
    BY DEF Gaps
  <1>2. T \subseteq 1..s
    <2>1. \A t \in T : t \in Nat /\ t # 0 /\ t <= s
      OBVIOUS
    <2>2. s \in Nat
      OBVIOUS
    <2> HIDE DEF T
    <2> QED BY <2>1, <2>2
  <1>3. IsFiniteSet(1..s) /\ Cardinality(1..s) = s
    BY FS_Interval
  <1>4. T = 1..s
    <2> HIDE DEF T
    <2> QED BY <1>1, <1>2, <1>3, FS_Subset
  <1> QED BY <1>4

LEMMA GroupsAreWhole ==
    ASSUME NEW doc, IdGrouping(doc) = {},
           \A i \in DOMAIN doc.comments : doc.comments[i].id.ok => doc.comments[i].id.value \in Texts,
           NEW i \in Numbered(doc), NEW n \in 1..(IdAt(doc, i).suffix)
    PROVE  \E k \in Numbered(doc) : IdAt(doc, k) = [IdAt(doc, i) EXCEPT !.suffix = n]
  <1> DEFINE slug == IdAt(doc, i).slug
             S == Suffixes(doc, slug)
  <1>1. \A k \in Numbered(doc) :
           IdAt(doc, k) \in [slug : STRING, suffix : Nat] /\ IdAt(doc, k).suffix > 0
    <2> TAKE k \in Numbered(doc)
    <2>1. k \in DOMAIN doc.comments /\ doc.comments[k].id.ok /\ IdAt(doc, k).suffix > 0
      BY DEF Numbered, IdAt
    <2>2. doc.comments[k].id.value \in Texts
      BY <2>1
    <2> QED BY <2>1, <2>2, AdvisoriesAssumption DEF IdAt
  <1>2. slug \in {IdAt(doc, k).slug : k \in Numbered(doc)}
    OBVIOUS
  <1>3. Gaps(S) = {}
    BY <1>2, Zenon DEF IdGrouping
  <1>4. S \in SUBSET Nat /\ 0 \notin S
    BY <1>1 DEF Suffixes
  <1>5. IdAt(doc, i).suffix \in S
    BY DEF Suffixes
  <1> HIDE DEF S
  <1>6. n \in S
    BY <1>3, <1>4, <1>5, NoGapIsAll
  <1>7. PICK k \in Numbered(doc) : IdAt(doc, k).slug = slug /\ IdAt(doc, k).suffix = n
    BY <1>6 DEF S, Suffixes
  <1>8. IdAt(doc, k) = [IdAt(doc, i) EXCEPT !.suffix = n]
    BY <1>1, <1>7
  <1> QED BY <1>8

\* Whether an advisory about all the comments was given or could be.
LEMMA Asked ==
    ASSUME ReportInv, at \in {"conclude", "stored"}
    PROVE  /\ ~Unasked("priority-flat") => Unusable(Doc) = {}
           /\ ~Unasked("comment-flood") => FloodUnknown(Doc) = {}
           /\ ~Unasked("assessment-priority-mismatch") /\ Graded(Doc) => Unusable(Doc) = {}
           /\ ~Told("priority-flat") => PriorityFlat(Doc) = {}
           /\ ~Told("comment-flood") => CommentFlood(Doc) = {}
           /\ ~Told("assessment-priority-mismatch") => AssessmentPriorityMismatch(Doc) = {}
           /\ ~Told("id-grouping") => IdGrouping(Doc) = {}
  <1>1. diagnostics = Found /\ skipped = Unchecked
    BY DEF ReportInv, Examined
  <1>2. Unadvised(Doc) \subseteq skipped
    BY <1>1 DEF Unchecked
  <1>3. \A reason, name : Skip(reason, name).name = name
    BY DEF Skip
  <1>4. \A reason, name : Skip(reason, name) \in Unadvised(Doc) => Unasked(name)
    BY <1>2, <1>3 DEF Unasked
  <1>5. /\ \A reason \in Unusable(Doc) : Skip(reason, "priority-flat") \in Unadvised(Doc)
        /\ \A reason \in FloodUnknown(Doc) : Skip(reason, "comment-flood") \in Unadvised(Doc)
        /\ Graded(Doc) => \A reason \in Unusable(Doc) :
              Skip(reason, "assessment-priority-mismatch") \in Unadvised(Doc)
    BY Zenon DEF Unadvised
  <1>6. /\ PriorityFlat(Doc) \subseteq diagnostics /\ CommentFlood(Doc) \subseteq diagnostics
        /\ AssessmentPriorityMismatch(Doc) \subseteq diagnostics
        /\ IdGrouping(Doc) \subseteq diagnostics
    BY <1>1, Zenon DEF Found, Advised, Consistency, Calibration
  <1>7. \A name, comment, path : Advice(name, comment, path).name = name
    BY DEF Advice, Diagnostic
  <1>8. /\ \A d \in PriorityFlat(Doc) : d.name = "priority-flat"
        /\ \A d \in CommentFlood(Doc) : d.name = "comment-flood"
    <2>1. \A d \in PriorityFlat(Doc) : d = Advice("priority-flat", "", Nowhere)
      BY DEF PriorityFlat
    <2>2. \A d \in CommentFlood(Doc) : d = Advice("comment-flood", "", AtRoot("comments"))
      BY DEF CommentFlood
    <2> QED BY <1>7, <2>1, <2>2, Zenon
  <1>9. \A d \in AssessmentPriorityMismatch(Doc) : d.name = "assessment-priority-mismatch"
    <2> TAKE d \in AssessmentPriorityMismatch(Doc)
    <2>1. \/ d = Advice("assessment-priority-mismatch", "", AtRoot("assessment"))
          \/ d = Advice("assessment-priority-mismatch", Id(Doc.comments[Worst(Doc)]),
                        InComment(Worst(Doc), "priority"))
      BY DEF AssessmentPriorityMismatch
    <2> QED BY <1>7, <2>1, Zenon
  <1>10. \A d \in IdGrouping(Doc) : d.name = "id-grouping"
    BY <1>7, Zenon DEF IdGrouping
  <1>11. /\ ~Unasked("priority-flat") => Unusable(Doc) = {}
         /\ ~Unasked("comment-flood") => FloodUnknown(Doc) = {}
         /\ ~Unasked("assessment-priority-mismatch") /\ Graded(Doc) => Unusable(Doc) = {}
    BY <1>4, <1>5
  <1>12. ~Told("priority-flat") => PriorityFlat(Doc) = {}
    BY <1>6, <1>8 DEF Told
  <1>13. ~Told("comment-flood") => CommentFlood(Doc) = {}
    BY <1>6, <1>8 DEF Told
  <1>14. ~Told("assessment-priority-mismatch") => AssessmentPriorityMismatch(Doc) = {}
    BY <1>6, <1>9 DEF Told
  <1>15. ~Told("id-grouping") => IdGrouping(Doc) = {}
    BY <1>6, <1>10 DEF Told
  <1> QED BY <1>11, <1>12, <1>13, <1>14, <1>15

LEMMA UsableThroughout ==
    ASSUME IsDocument(source.root.object), Unusable(Doc) = {}
    PROVE  /\ IntegersOnly /\ Usable(Doc) = DOMAIN Doc.comments
           /\ DOMAIN Commented = DOMAIN Doc.comments
           /\ \A i \in DOMAIN Commented :
                 LET raw == Raw(i)["priority"] IN
                 /\ raw.twice \in Int /\ Integral(raw)
                 /\ Doc.comments[i].priority.value = IntegerOf(raw)
  <1> DEFINE root == source.root.object
  <1>1. Doc.commentsArray /\ \A i \in DOMAIN Doc.comments : Doc.comments[i].priority.ok
    BY DEF Unusable
  <1>2. Listed
    BY <1>1 DEF Doc, Parse, Listed
  <1>3. DOMAIN Commented = DOMAIN Doc.comments
    BY DEF Commented, Doc, Parse
  <1>4. \A i \in DOMAIN Commented :
           /\ "priority" \in DOMAIN Raw(i)
           /\ Raw(i)["priority"].type = "number" /\ Integral(Raw(i)["priority"])
           /\ Raw(i)["priority"].twice \in Int
           /\ Doc.comments[i].priority.value = IntegerOf(Raw(i)["priority"])
    <2> TAKE i \in DOMAIN Commented
    <2>1. i \in DOMAIN Items(root, "comments") /\ Doc.comments[i].priority.ok
      BY <1>1, <1>3 DEF Commented
    <2> HIDE DEF root
    <2>2. Raw(i) = Items(root, "comments")[i].object /\ Doc = Parse(root)
      BY Zenon DEF Raw, Commented, Doc, root
    <2> QED BY <2>1, <2>2, CommentRead DEF root
  <1> QED BY <1>1, <1>2, <1>3, <1>4 DEF IntegersOnly, Usable

\* Where an advisory about all the comments is neither raised nor reported as
\* skipped, every comment bears it out (advisory.Run and its checks).
THEOREM SilenceAlwaysMeansSound == ValidateSpec => []SilenceMeansSound
  <1>1. ReportInv => SilenceMeansSound
    <2> SUFFICES ASSUME ReportInv, at \in {"conclude", "stored"}
                 PROVE  SilenceMeansSound
      BY DEF SilenceMeansSound
    <2> DEFINE root == source.root.object
               n == Len(Commented)
               value(i) == Doc.comments[i].priority.value
               twice(i) == Raw(i)["priority"].twice
    <2>1. IsDocument(root)
      <3>1. Parses(source)
        BY DEF ReportInv, Examined
      <3> QED BY <3>1, ValidateAssumption DEF ReportInv
    <2>2. /\ n \in Nat /\ DOMAIN Commented = 1..n /\ DOMAIN Doc.comments = 1..n
          /\ Len(Doc.comments) = n
      BY <2>1, CommentsAreIndexed DEF Commented, Doc
    <2> HIDE DEF n
    <2>3. ASSUME Answered("priority-flat")
          PROVE  /\ IntegersOnly
                 /\ \/ n < FlatFloor
                    \/ \E i, k \in DOMAIN Commented : twice(i) # twice(k)
                    \/ \E i \in DOMAIN Commented : Abs(twice(i)) > 2 * ExactFloatInt
      <3>1. Unusable(Doc) = {} /\ PriorityFlat(Doc) = {}
        BY <2>3, Asked DEF Answered
      <3>2. IntegersOnly
        BY <2>1, <3>1, UsableThroughout
      <3> SUFFICES ASSUME n >= FlatFloor
                   PROVE  \/ \E i, k \in DOMAIN Commented : twice(i) # twice(k)
                          \/ \E i \in DOMAIN Commented : Abs(twice(i)) > 2 * ExactFloatInt
        <4>1. FlatFloor \in Int /\ n \in Int
          BY <2>2, AdvisoriesAssumption
        <4> QED BY <3>2, <4>1
      <3>3. PICK i \in 1..n : value(i) # value(1)
        BY <2>2, <3>1, Zenon DEF PriorityFlat
      <3>4. i \in DOMAIN Commented /\ 1 \in DOMAIN Commented
        BY <2>2
      <3> SUFFICES ASSUME twice(i) = twice(1), ~(Abs(twice(i)) > 2 * ExactFloatInt)
                   PROVE  FALSE
        BY <3>4
      <3>5. /\ 2 * value(i) = twice(i) /\ value(i) \in Int
            /\ 2 * value(1) = twice(1) /\ value(1) \in Int
        <4>1. \A k \in {i, 1} :
                 /\ twice(k) \in Int /\ Integral(Raw(k)["priority"])
                 /\ value(k) = IntegerOf(Raw(k)["priority"])
          BY <2>1, <3>1, <3>4, UsableThroughout
        <4>2. \A k \in {i, 1} : ~(Abs(twice(k)) > 2 * ExactFloatInt)
          OBVIOUS
        <4> QED BY <4>1, <4>2, IntegerReadAs, IntegersAreRead
      <3> QED BY <3>3, <3>5
    <2>4. ASSUME Answered("comment-flood")
          PROVE  /\ Listed /\ n <= FloodLimit
                 /\ \A i \in DOMAIN Commented : Commented[i].type = "object"
      <3>1. FloodUnknown(Doc) = {} /\ CommentFlood(Doc) = {}
        BY <2>4, Asked DEF Answered
      <3>2. Doc.commentsWellTyped
        BY <3>1 DEF FloodUnknown
      <3>3. Listed /\ \A i \in DOMAIN Commented : Commented[i].type = "object"
        BY <3>2 DEF Doc, Parse, Listed, Commented
      <3>4. ~(Len(Doc.comments) > FloodLimit)
        BY <3>1, <3>2, Zenon DEF CommentFlood
      <3>5. FloodLimit \in Nat
        BY AdvisoriesAssumption, Zenon
      <3> QED BY <2>2, <3>3, <3>4, <3>5
    <2>5. ASSUME Answered("assessment-priority-mismatch"), Graded(Doc)
          PROVE  /\ IntegersOnly
                 /\ (Doc.assessment.value = "weak")
                       <=> \E i \in DOMAIN Commented : twice(i) > 6
      <3>1. Unusable(Doc) = {} /\ AssessmentPriorityMismatch(Doc) = {}
        BY <2>5, Asked DEF Answered
      <3>2. IntegersOnly /\ Usable(Doc) = 1..n
        BY <2>1, <2>2, <3>1, UsableThroughout
      <3>3. \A i \in 1..n : /\ value(i) \in Int
                            /\ value(i) >= AssessmentOptionalBandFloor <=> twice(i) > 6
        <4> TAKE i \in 1..n
        <4>1. /\ twice(i) \in Int /\ Integral(Raw(i)["priority"])
              /\ value(i) = IntegerOf(Raw(i)["priority"])
          BY <2>1, <2>2, <3>1, UsableThroughout
        <4> QED BY <4>1, IntegerReadAs, IntegersAreRead
      <3>4. (Doc.assessment.value = "weak") <=> Serious(Doc)
        BY <2>5, <3>1 DEF AssessmentPriorityMismatch
      <3> HIDE DEF value, twice
      <3>5. Serious(Doc) <=> \E i \in 1..n : value(i) >= AssessmentOptionalBandFloor
        <4>1. CASE n = 0
          <5>1. 1..n = {}
            BY <2>2, <4>1
          <5> QED BY <3>2, <5>1 DEF Serious
        <4>2. CASE n # 0
          <5>1. Usable(Doc) # {}
            <6>1. 1 \in 1..n
              BY <2>2, <4>2
            <6> QED BY <3>2, <6>1
          <5>2. Worst(Doc) \in 1..n /\ \A k \in 1..n : value(k) <= value(Worst(Doc))
            BY <2>2, <3>2, <3>3, <5>1, WorstIsWorst DEF value
          <5>3. Serious(Doc) <=> value(Worst(Doc)) >= AssessmentOptionalBandFloor
            BY <5>1, Zenon DEF Serious, value
          <5> QED BY <3>3, <5>2, <5>3 DEF AssessmentOptionalBandFloor
        <4> QED BY <4>1, <4>2
      <3> QED BY <2>2, <3>2, <3>3, <3>4, <3>5 DEF value, twice
    <2>6. ASSUME Answered("id-grouping")
          PROVE  \A i \in Numbered(Doc) : \A m \in 1..(IdAt(Doc, i).suffix) :
                    \E k \in Numbered(Doc) : IdAt(Doc, k) = [IdAt(Doc, i) EXCEPT !.suffix = m]
      <3>1. IdGrouping(Doc) = {}
        BY <2>6, Asked DEF Answered
      <3>2. \A i \in DOMAIN Doc.comments :
               Doc.comments[i].id.ok => Doc.comments[i].id.value \in Texts
        <4>1. Doc = Parse(root) /\ DOMAIN Doc.comments = DOMAIN Items(root, "comments")
          BY <2>2 DEF Doc, Commented
        <4> HIDE DEF root
        <4> QED BY <2>1, <4>1, CommentRead
      <3> QED BY <3>1, <3>2, GroupsAreWhole
    <2> QED BY <2>3, <2>4, <2>5, <2>6 DEF SilenceMeansSound, n
  <1> QED BY <1>1, ReportStarts, ReportStays, PTL DEF ValidateSpec

=============================================================================
