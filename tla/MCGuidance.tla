----------------------------- MODULE MCGuidance -----------------------------
(***************************************************************************)
(* Instances of Guidance for TLC.                                          *)
(***************************************************************************)
EXTENDS Guidance

\* The file system does not tell README.md from readme.md.
MCNames == {"readme.md", "README.md", "deep.md", "notes.txt"}
MCStem == "readme.md" :> "readme" @@ "README.md" :> "README" @@ "deep.md" :> "deep"
          @@ "notes.txt" :> NoStem
MCPlain == {"readme", "deep", "other"}
MCFolded == [e \in MCNames |-> IF e = "README.md" THEN "readme.md" ELSE e]

Fence == Line("fence", "", 0)
Blank == Line("blank", "", 0)
Prose == Line("prose", "", 0)
Description(runes) == Line("field", "description", runes)
Other == Line("field", "other", 1)
Lines == {Fence, Blank, Prose, Description(0), Description(1), Description(3), Other}

Good == File("file", <<Fence, Description(1), Fence, Prose>>)
Better == File("file", <<Fence, Description(2), Fence, Prose, Fence, Prose>>)
Bad == File("file", <<Fence, Prose>>)
Directory == File("directory", <<>>)
Unreadable == File("unreadable", <<>>)
Dangling == File("dangling", <<>>)
MCContents == {NoFile, Good, Better, Bad, Directory, Unreadable, Dangling}

\* Every file of few lines, and every one of that head.
Texts == UNION {[1..n -> Lines] : n \in 1..2}
         \cup {<<Fence>> \o lines : lines \in [1..3 -> Lines]}
         \cup {<<Fence, Description(1)>> \o lines : lines \in [1..3 -> Lines]}

Holding(deep, readme, README) ==
    "deep.md" :> deep @@ "readme.md" :> readme @@ "README.md" :> README @@ "notes.txt" :> Good

Folders ==
    {Holding(deep, readme, NoFile) : deep \in MCContents, readme \in {NoFile, Good, Bad}}
    \cup {Holding(Good, NoFile, README) : README \in {Good, Bad}}

Asking(list, wanted, state, there, resolved) ==
    [list |-> list, name |-> wanted, folder |-> state, files |-> there, resolved |-> resolved]

MCRequests ==
    {Asking(list, wanted, "ok", there, TRUE) :
        list \in BOOLEAN, wanted \in {"deep", "readme"}, there \in Folders}
    \cup {Asking(list, wanted, state, Holding(Good, Good, NoFile), resolved) :
             list \in BOOLEAN, wanted \in {"deep", "README", "other"},
             state \in {"ok", "missing", "unreadable"}, resolved \in BOOLEAN}
    \cup {Asking(FALSE, "deep", "ok", Holding(File("file", text), NoFile, NoFile), TRUE) :
             text \in Texts}

-----------------------------------------------------------------------------

AnEntry(space, path, aliases) == [space |-> space, name |-> path, aliases |-> aliases]

\* Fields that end alike, in each other or in what is called otherwise.
FieldNames == {<<"summary">>, <<"comments">>, <<"comments", "summary">>, <<"comments", "id">>}
MCEntries ==
    {AnEntry("field", path, {}) : path \in FieldNames}
    \cup {AnEntry("check", <<path>>, {}) : path \in {"schema", "id"}}
    \cup {AnEntry("topic", <<"ids">>, aliases) :
             aliases \in {{}, {<<"id">>}, {<<"ids">>}, {<<"schema">>, <<"x", "summary">>}}}
    \cup {AnEntry("topic", <<"id">>, {<<"ids">>}), AnEntry("field", <<"id">>, {})}

\* Up to 3 of them, in the order of their providers.
Rank(e) == CASE e.space = "field" -> 1 [] e.space = "check" -> 2 [] e.space = "topic" -> 3
MCCatalogues ==
    {entries \in UNION {[1..n -> MCEntries] : n \in 1..3} :
        \A i, k \in DOMAIN entries :
            i < k => Rank(entries[i]) <= Rank(entries[k]) /\ entries[i] # entries[k]}

Typeable ==
    {Bare(path) : path \in {<<"summary">>, <<"id">>, <<"ids">>, <<"schema">>, <<"comments", "summary">>}}
    \cup {Typed("field", <<"id">>), Typed("topic", <<"ids">>), Typed("topic", <<"id">>),
          Typed("other", <<"id">>), Empty}
MCLookups ==
    {NoLookup, [NoLookup EXCEPT !.list = TRUE], [NoLookup EXCEPT !.list = TRUE, !.given = TRUE]}
    \cup {[list |-> FALSE, given |-> TRUE, lens |-> names] :
             names \in UNION {[1..n -> Typeable] : n \in 0..2}}

=============================================================================
