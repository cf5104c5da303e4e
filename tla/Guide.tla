-------------------------------- MODULE Guide -------------------------------
(***************************************************************************)
(* What describe explains: an entry for every field of the schema, for     *)
(* every check and for every topic file, as main.go wires the registry.    *)
(***************************************************************************)
EXTENDS Schema, Registry

\* Checks of each tier, by name.
StructuralChecks ==
    {"document-unparseable", "schema", "id-unique", "anchor-range-ordered",
     "anchor-path-safe", "ref-format", "profile-format"}
VerificationChecks ==
    {"verification-required", "ref-unknown", "anchor-file-missing",
     "anchor-line-out-of-range", "anchor-worktree-diverged"}
AdvisoryChecks ==
    {"id-grouping", "body-thin", "vacuous-body", "suggestion-absent",
     "suggestion-no-cons", "suggestion-no-pros", "broad-scope-alone",
     "broad-scope-no-cons", "summary-thin", "priority-category-convention",
     "priority-flat", "assessment-priority-mismatch", "duplicate-anchor",
     "duplicate-body", "comment-flood"}

\* CheckNames: the names of every tier.
Tiers == StructuralChecks \cup VerificationChecks \cup AdvisoryChecks

\* SchemaProvider.Entries: one per field, at every depth.
FieldEntries == {[space |-> "field", name |-> field, aliases |-> {}] : field \in Fields}

\* ChecksProvider.Entries; no check has an alias.
CheckEntries == {[space |-> "check", name |-> <<check>>, aliases |-> {}] : check \in Tiers}

\* parseTopic: a topic is named after its file, its header lists the aliases.
Topic(name, aliases) ==
    [space |-> "topic", name |-> <<name>>, aliases |-> {<<alias>> : alias \in aliases}]

\* TopicsProvider.Entries: the files of entry/topics.
TopicEntries ==
    {Topic("collect-reviews", {"collecting", "combined-reviews"}),
     Topic("effort-vs-scope", {"tradeoffs", "sizing"}),
     Topic("ids", {"comment-ids", "slugs"}),
     Topic("store", {"storing"}),
     Topic("tiers", {"exit-codes", "severity", "strict"}),
     Topic("verification", {"anchor-claims", "checking"})}

Guide == FieldEntries \cup CheckEntries \cup TopicEntries

=============================================================================
