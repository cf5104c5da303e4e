------------------------------- MODULE MCSetup ------------------------------
(***************************************************************************)
(* Instances of Setup for TLC.                                             *)
(***************************************************************************)
EXTENDS Setup, TLC

MCAlnum == {"l", "o", "c", "a", "n", "r", "e", "p", "g", "i", "t"}
MCLowerOf == "A" :> "a"

MCDirs == {<<"/", "x">>, <<"y">>}
MCHomeDirs == {<<"/", "home">>}
MCPathsSaid == {<<>>, <<"/", "p">>, <<"p">>, <<"~">>, <<"~", "p">>, <<"~user", "p">>}

here == <<"/", "repo", "sub">>
top == <<"/", "repo">>
own == <<<<"a">>, <<"o">>>>
climbing == <<<<".", ".">>, <<"a">>>>
MCReposSaid ==
    {NoRepos, top :> own, here :> own, (top :> own) @@ (here :> noRepo),
     (top :> own) @@ (here :> climbing), top :> <<<<>>>>}

\* The words a remote and a directory are called by: of both cases, with unsafe
\* characters and marks at either end or in a run, ending in .git, and one that
\* is cut at a mark.
Long == <<"a", "a", "a", "a", "a", "a", "-", "a">>
Ordinary == {<<"a">>, <<"A", "o">>, <<"a", "+">> \o DotGit, <<"+", "a", "+", "+", "o">>}
Awkward == {<<>>, <<"+">>, <<".", ".">>, DotGit, Long, noRepo[1], Local}
AllWords == Ordinary \cup Awkward
Hosts == {<<>>, <<"A", "o">>, noRepo[1], Local, <<"+">>}

Paths == {<<a>> : a \in AllWords} \cup {<<a, b>> : a, b \in AllWords}
         \cup {<<a, b, c>> : a, c \in {<<>>, <<"o">>} \cup Ordinary, b \in {<<"a">>, <<"+">>}}
         \cup {<<a, b, c, <<>>>> : a, c \in {<<>>, <<"o">>}, b \in Ordinary}

MCOrigins ==
    [form : {"url", "scp"}, host : Hosts, path : Paths] \cup {NoRemote}

Standing(base, origin) == [dir |-> here, root |-> top, base |-> base, origin |-> origin]
SomeRemote == [form |-> "url", host |-> <<"a">>, path |-> <<<<>>, <<"A">>, <<"o">> \o DotGit>>]
Bases == {<<"/">>, <<"a">>, <<"A">>, Long, <<"+">>}

MCPlaces ==
    {Standing(<<"a">>, origin) : origin \in MCOrigins}
    \cup {Standing(base, origin) : base \in Bases, origin \in {NoRemote, SomeRemote}}

Sparse ==
    [found |-> "object", strict |-> FALSE, unknown |-> FALSE, version |-> "1",
     store |-> "object", storeUnknown |-> FALSE, enabled |-> "absent",
     path |-> "absent", pathSaid |-> <<>>, repos |-> "absent", reposSaid |-> NoRepos]
Missing == [Sparse EXCEPT !.found = "missing"]

Enabling == {[Sparse EXCEPT !.enabled = v] : v \in {"absent", "null", "other", "true", "false"}}
Pathing == {[Sparse EXCEPT !.path = v] : v \in {"null", "other"}}
           \cup {[Sparse EXCEPT !.path = "string", !.pathSaid = p] : p \in MCPathsSaid}
Calling == {[Sparse EXCEPT !.repos = v] : v \in {"null", "other"}}
          \cup {[Sparse EXCEPT !.repos = "object", !.reposSaid = m] : m \in MCReposSaid}
Crooked ==
    {[Sparse EXCEPT !.found = v] : v \in {"missing", "unreadable", "malformed"}}
    \cup {[Sparse EXCEPT !.version = v] : v \in {"absent", "null", "other"}}
    \cup {[Sparse EXCEPT !.store = v] : v \in {"absent", "null", "other"}}
    \cup {[Sparse EXCEPT !.strict = TRUE], [Sparse EXCEPT !.unknown = TRUE],
          [Sparse EXCEPT !.storeUnknown = TRUE]}

\* A file departs from the sparse one in at most two keys of the store.
MCFiles ==
    Crooked
    \cup {[e EXCEPT !.path = p.path, !.pathSaid = p.pathSaid] : e \in Enabling, p \in Pathing}
    \cup {[e EXCEPT !.repos = n.repos, !.reposSaid = n.reposSaid] : e \in Enabling, n \in Calling}

PlainHome == [home |-> Unset, config |-> Unset, data |-> Unset, user |-> <<"/", "home">>]

\* Every environment with every file, and every origin with one of each.
MCStarts ==
    [env : Environments, file : MCFiles, place : {Standing(<<"a">>, SomeRemote)}]
    \cup [env : {PlainHome}, file : {Missing, [Sparse EXCEPT !.repos = "object",
                                                  !.reposSaid = here :> own]}, place : MCPlaces]

=============================================================================
