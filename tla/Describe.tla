------------------------------ MODULE Describe ------------------------------
(***************************************************************************)
(* describe (internal/cli/describe.go) over a registry assembled from      *)
(* providers (internal/entry/entry.go): what it opens, and the names it    *)
(* offers, each of which a caller can give back to it.                     *)
(***************************************************************************)
EXTENDS Registry, SequencesExt

CONSTANTS
    Catalogues, \* the entries that the providers contribute, in order
    Lookups     \* what describe may be asked

Empty == Typed("", <<>>)

ASSUME DescribeAssumption ==
    /\ Catalogues \subseteq Seq(Entry)
    /\ \A l \in Lookups :
          /\ l.list \in BOOLEAN /\ l.given \in BOOLEAN
          /\ l.lens \in Seq([space : STRING, path : Seq(STRING)])
          /\ ~l.given => l.lens = <<>>

VARIABLES
    stage,    \* where the run stands
    unread,   \* the entries still to be added
    registry, \* those added
    lookup,   \* what describe was asked
    lenses,   \* the names still to be resolved
    opened,   \* the entries opened, in the order given
    offered,  \* the names printed, each with the entry it is for
    shown,    \* the entries printed
    status    \* the exit code

describeVars ==
    <<stage, unread, registry, lookup, lenses, opened, offered, shown, status>>

NoLookup == [list |-> FALSE, given |-> FALSE, lens |-> <<>>]

DescribeInit ==
    /\ stage = "idle" /\ unread = <<>> /\ registry = {}
    /\ lookup = NoLookup /\ lenses = <<>> /\ opened = <<>>
    /\ offered = {} /\ shown = <<>> /\ status = -1

Invoke ==
    /\ stage = "idle"
    /\ unread' \in Catalogues /\ lookup' \in Lookups
    /\ stage' = "wire"
    /\ UNCHANGED <<registry, lenses, opened, offered, shown, status>>

Quit(result) ==
    /\ stage' = "done" /\ status' = result
    /\ UNCHANGED <<unread, registry, lookup, lenses, opened>>

\* NewRegistry: one name taken twice, and nothing runs.
Add ==
    /\ stage = "wire" /\ unread # <<>>
    /\ IF Taken(registry, Head(unread)) \/ Repeated(Head(unread))
       THEN Quit(2) /\ UNCHANGED <<offered, shown>>
       ELSE /\ registry' = registry \cup {Head(unread)}
            /\ unread' = Tail(unread)
            /\ UNCHANGED <<stage, lookup, lenses, opened, offered, shown, status>>

\* Index, and the candidates of a name that may mean several entries.
Offers(entries) == {[lens |-> Shortest(registry, e), entry |-> e] : e \in entries}

\* --list, and describe without a flag: the index.
Index ==
    /\ stage = "wire" /\ unread = <<>>
    /\ ~lookup.given
    /\ offered' = Offers(registry)
    /\ Quit(0) /\ UNCHANGED shown

\* splitNames: a list with an empty name in it, or nothing, opens nothing.
BadFlags ==
    /\ stage = "wire" /\ unread = <<>>
    /\ lookup.given
    /\ lookup.list \/ lookup.lens = <<>> \/ Empty \in Range(lookup.lens)
    /\ Quit(2) /\ UNCHANGED <<offered, shown>>

SplitNames ==
    /\ stage = "wire" /\ unread = <<>>
    /\ lookup.given /\ ~lookup.list
    /\ lookup.lens # <<>> /\ Empty \notin Range(lookup.lens)
    /\ lenses' = lookup.lens /\ stage' = "resolve"
    /\ UNCHANGED <<unread, registry, lookup, opened, offered, shown, status>>

\* One name of resolveLenses.
OpenOne ==
    /\ stage = "resolve" /\ lenses # <<>>
    /\ \E e \in registry :
          /\ Opens(registry, Head(lenses), e)
          /\ opened' = IF e \in Range(opened) THEN opened ELSE Append(opened, e)
    /\ lenses' = Tail(lenses)
    /\ UNCHANGED <<stage, unread, registry, lookup, offered, shown, status>>

Unknown ==
    /\ stage = "resolve" /\ lenses # <<>>
    /\ Resolve(registry, Head(lenses)) = {}
    /\ Quit(2) /\ UNCHANGED <<offered, shown>>

Ambiguous ==
    /\ stage = "resolve" /\ lenses # <<>>
    /\ Cardinality(Resolve(registry, Head(lenses))) > 1
    /\ offered' = Offers(Resolve(registry, Head(lenses)))
    /\ Quit(2) /\ UNCHANGED shown

Show ==
    /\ stage = "resolve" /\ lenses = <<>>
    /\ shown' = opened
    /\ Quit(0) /\ UNCHANGED offered

DescribeNext ==
    Invoke \/ Add \/ Index \/ BadFlags \/ SplitNames \/ OpenOne \/ Unknown \/ Ambiguous \/ Show

DescribeSpec == DescribeInit /\ [][DescribeNext]_describeVars

-----------------------------------------------------------------------------

\* Every name describe prints, in its index or as a candidate, can be typed
\* back verbatim: it opens the entry it was printed for, and no other
\* (entry.go: "every line the caller is offered is a line it can run").
OfferedNamesOpen == \A offer \in offered : Opens(registry, offer.lens, offer.entry)

\* The entry answers to the name as typed.
Answers(e, typed) ==
    IF typed.space = ""
    THEN \E path \in NamesOf(e) : \/ path = typed.path
                                  \/ Len(typed.path) = 1 /\ typed.path[1] = path[Len(path)]
    ELSE e.space = typed.space /\ typed.path \in NamesOf(e)

\* describe never guesses: what it shows are the entries asked for, each name
\* answered to by one entry of the registry and no other, and none shown twice;
\* a list with one bad name in it shows nothing.
NothingIsGuessed ==
    stage = "done" =>
        /\ status # 0 => shown = <<>>
        /\ shown # <<>> =>
              /\ \A i \in DOMAIN lookup.lens :
                    \E e \in Range(shown) :
                       {f \in registry : Answers(f, lookup.lens[i])} = {e}
              /\ \A e \in Range(shown) : \E i \in DOMAIN lookup.lens :
                    Answers(e, lookup.lens[i])
              /\ \A i, k \in DOMAIN shown : shown[i] = shown[k] => i = k

=============================================================================
