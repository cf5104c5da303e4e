--------------------------- MODULE Guidance_proofs --------------------------
(***************************************************************************)
(* What prime and describe promise, for every directory, every edit and    *)
(* every registry.                                                         *)
(***************************************************************************)
EXTENDS Guidance, SequenceTheorems, FiniteSetTheorems, TLAPS

-----------------------------------------------------------------------------
(* describe: the names it offers.                                          *)

\* What NewRegistry has accepted: no two entries of a namespace share a name.
Distinct(R) ==
    \A e, f \in R : e.space = f.space /\ NamesOf(e) \cap NamesOf(f) # {} => e = f

\* The shortest name of an entry opens it, whatever else is registered: it is
\* the last segment only where nothing else answers to that, the whole name
\* only where nothing else does, and the qualified name otherwise.
LEMMA ShortestOpens ==
    ASSUME NEW R, R \subseteq Entry, Distinct(R), NEW e \in R
    PROVE  Opens(R, Shortest(R, e), e)
<1>1. e.space # ""
  BY DEF Entry, Spaces
<1>2. {f \in R : f.space = e.space /\ e.name \in NamesOf(f)} = {e}
  BY DEF Distinct, NamesOf
<1>3. Resolve(R, Typed(e.space, e.name)) = {e}
  BY <1>1, <1>2 DEF Resolve, Typed
<1>4. \A path : Resolve(R, Bare(path)) = Matching(R, path)
  BY DEF Resolve, Bare, Typed
<1>. QED
  BY <1>3, <1>4 DEF Opens, Shortest

\* What a run of describe keeps: the registry is what NewRegistry accepted,
\* and nothing is offered before it is complete.
Registered ==
    /\ unread \in Seq(Entry)
    /\ registry \subseteq Entry
    /\ Distinct(registry)
    /\ offered # {} => stage = "done"
    /\ OfferedNamesOpen

LEMMA OffersOpen ==
    ASSUME Registered, NEW S, S \subseteq registry, offered' = Offers(S), registry' = registry
    PROVE  OfferedNamesOpen'
<1>1. \A e \in S : Opens(registry, Shortest(registry, e), e)
  BY ShortestOpens DEF Registered
<1>2. SUFFICES ASSUME NEW offer \in offered'
               PROVE  Opens(registry, offer.lens, offer.entry)
  BY DEF OfferedNamesOpen
<1>3. PICK e \in S : offer = [lens |-> Shortest(registry, e), entry |-> e]
  BY DEF Offers
<1>. QED
  BY <1>1, <1>3

LEMMA DescribeStarts == GuidanceInit => Registered
<1>1. DescribeInit => Registered
  BY DEF DescribeInit, Registered, Distinct, OfferedNamesOpen
<1>. QED
  BY <1>1 DEF GuidanceInit

\* Adding an entry that takes no name keeps the names apart.
LEMMA AddKeepsDistinct ==
    ASSUME NEW R, Distinct(R), NEW e, ~Taken(R, e)
    PROVE  Distinct(R \cup {e})
<1>1. \A f \in R : f.space = e.space => NamesOf(f) \cap NamesOf(e) = {}
  BY DEF Taken
<1>2. SUFFICES ASSUME NEW f \in R \cup {e}, NEW g \in R \cup {e},
                      f.space = g.space, NamesOf(f) \cap NamesOf(g) # {}
               PROVE  f = g
  BY DEF Distinct
<1>3. CASE f \in R /\ g \in R
  BY <1>2, <1>3 DEF Distinct
<1>4. CASE f \in R /\ g = e
  BY <1>1, <1>2, <1>4
<1>5. CASE f = e /\ g \in R
  <2>1. NamesOf(g) \cap NamesOf(f) = {}
    BY <1>1, <1>2, <1>5
  <2>. QED
    BY <1>2, <2>1
<1>. QED
  BY <1>3, <1>4, <1>5

LEMMA DescribeKeeps == Registered /\ [GuidanceNext]_guidanceVars => Registered'
<1>. SUFFICES ASSUME Registered, [GuidanceNext]_guidanceVars PROVE Registered'
  OBVIOUS
<1>. USE DEF Registered
<1>1. CASE UNCHANGED describeVars
  BY <1>1 DEF describeVars, OfferedNamesOpen, Distinct
<1>2. CASE Invoke
  <2>1. unread' \in Seq(Entry)
    BY <1>2, DescribeAssumption DEF Invoke
  <2>. QED
    BY <1>2, <2>1 DEF Invoke, OfferedNamesOpen, Distinct
<1>3. CASE Add
  <2>1. offered = {}
    BY <1>3 DEF Add
  <2>2. CASE Taken(registry, Head(unread)) \/ Repeated(Head(unread))
    BY <1>3, <2>1, <2>2 DEF Add, Quit, OfferedNamesOpen, Distinct
  <2>3. CASE ~(Taken(registry, Head(unread)) \/ Repeated(Head(unread)))
    <3>1. /\ registry' = registry \cup {Head(unread)} /\ unread' = Tail(unread)
          /\ offered' = {}
      BY <1>3, <2>1, <2>3 DEF Add
    <3>2. Head(unread) \in Entry /\ Tail(unread) \in Seq(Entry)
      BY <1>3 DEF Add
    <3>3. Distinct(registry \cup {Head(unread)})
      BY <2>3, AddKeepsDistinct
    <3>4. Distinct(registry')
      BY <3>1, <3>3
    <3>. QED
      BY <3>1, <3>2, <3>4 DEF OfferedNamesOpen
  <2>. QED
    BY <2>2, <2>3
<1>4. CASE Index
  <2>1. OfferedNamesOpen'
    BY <1>4, OffersOpen DEF Index, Quit
  <2>. QED
    BY <1>4, <2>1 DEF Index, Quit, Distinct
<1>5. CASE BadFlags
  BY <1>5 DEF BadFlags, Quit, OfferedNamesOpen, Distinct
<1>6. CASE SplitNames
  BY <1>6 DEF SplitNames, OfferedNamesOpen, Distinct
<1>7. CASE OpenOne
  BY <1>7 DEF OpenOne, OfferedNamesOpen, Distinct
<1>8. CASE Unknown
  BY <1>8 DEF Unknown, Quit, OfferedNamesOpen, Distinct
<1>9. CASE Ambiguous
  <2>1. Resolve(registry, Head(lenses)) \subseteq registry
    BY DEF Resolve, Matching
  <2>2. OfferedNamesOpen'
    BY <1>9, <2>1, OffersOpen DEF Ambiguous, Quit
  <2>. QED
    BY <1>9, <2>2 DEF Ambiguous, Quit, Distinct
<1>10. CASE Show
  BY <1>10 DEF Show, Quit, OfferedNamesOpen, Distinct
<1>. QED
  BY <1>1, <1>2, <1>3, <1>4, <1>5, <1>6, <1>7, <1>8, <1>9, <1>10
  DEF GuidanceNext, guidanceVars, Prime, DescribeCommand, DescribeNext

\* Every name describe prints opens the entry it was printed for, for every
\* catalogue of entries, however their names collide.
THEOREM OfferedNamesAlwaysOpen == GuidanceSpec => []OfferedNamesOpen
<1>1. Registered => OfferedNamesOpen
  BY DEF Registered
<1>. QED
  BY <1>1, DescribeStarts, DescribeKeeps, PTL DEF GuidanceSpec

-----------------------------------------------------------------------------
(* describe: what it opens.                                                *)

\* How many of the names asked for have been resolved.
Resolved == Len(lookup.lens) - Len(lenses)

\* Entries opened so far: one for each name resolved, which opens no other, each
\* asked for, and none twice.
OpenedSoFar ==
    /\ opened \in Seq(registry)
    /\ \A i \in 1..Resolved : \E e \in Range(opened) : Opens(registry, lookup.lens[i], e)
    /\ \A e \in Range(opened) : \E i \in 1..Resolved : Opens(registry, lookup.lens[i], e)
    /\ \A i, k \in DOMAIN opened : opened[i] = opened[k] => i = k

\* What a run of describe has opened, and that it shows it at the end or not at all.
OpenedInv ==
    /\ stage \in {"idle", "wire", "resolve", "done"}
    /\ lookup = NoLookup \/ lookup \in Lookups
    /\ stage \in {"idle", "wire"} => opened = <<>>
    /\ stage = "wire" => lookup \in Lookups
    /\ stage \in {"idle", "wire", "resolve"} => shown = <<>>
    /\ stage = "resolve" =>
          /\ lookup \in Lookups
          /\ lenses \in Seq([space : STRING, path : Seq(STRING)])
          /\ Len(lenses) <= Len(lookup.lens)
          /\ \A j \in 1..Len(lenses) : lenses[j] = lookup.lens[j + Resolved]
          /\ OpenedSoFar
    /\ stage = "done" /\ shown # <<>> =>
          /\ status = 0 /\ lookup \in Lookups
          /\ shown = opened /\ Resolved = Len(lookup.lens) /\ OpenedSoFar

\* The entries that a name may mean are those that answer to it.
LEMMA ResolveAnswers ==
    ASSUME NEW R, R \subseteq Entry, NEW typed \in [space : STRING, path : Seq(STRING)]
    PROVE  Resolve(R, typed) = {e \in R : Answers(e, typed)}
<1>1. CASE typed.space # ""
  BY <1>1 DEF Resolve, Answers
<1>2. CASE typed.space = ""
  <2>1. ASSUME NEW path \in NonEmpty
        PROVE  typed.path = FinalSegment(path)
                  <=> Len(typed.path) = 1 /\ typed.path[1] = path[Len(path)]
    <3>1. typed.path \in Seq(STRING)
      OBVIOUS
    <3>2. Len(FinalSegment(path)) = 1 /\ FinalSegment(path)[1] = path[Len(path)]
      BY DEF FinalSegment
    <3>3. path \in Seq(STRING) /\ Len(path) \in 1..Len(path)
      BY DEF NonEmpty
    <3>4. path[Len(path)] \in STRING
      BY <3>3
    <3>5. FinalSegment(path) \in Seq(STRING)
      BY <3>4 DEF FinalSegment
    <3>6. ASSUME Len(typed.path) = 1, typed.path[1] = path[Len(path)]
          PROVE  typed.path = FinalSegment(path)
      BY <3>1, <3>2, <3>5, <3>6, SeqEqual
    <3>. QED
      BY <3>2, <3>6
  <2>2. \A e \in R : NamesOf(e) \subseteq NonEmpty
    BY DEF NamesOf, Entry
  <2>3. \A e \in R : e \in Matching(R, typed.path) <=> Answers(e, typed)
    BY <1>2, <2>1, <2>2 DEF Matching, Answers
  <2>. QED
    BY <1>2, <2>3 DEF Resolve, Matching
<1>. QED
  BY <1>1, <1>2

\* One more name is resolved, to an entry opened already or to a new one.
LEMMA OpenOneKeeps ==
    ASSUME OpenedInv, OpenOne
    PROVE  OpenedInv'
<1>0. /\ stage = "resolve" /\ lenses # <<>> /\ lenses' = Tail(lenses)
      /\ UNCHANGED <<stage, registry, lookup, shown>>
  BY DEF OpenOne
<1>1. PICK e \in registry :
          /\ Opens(registry, Head(lenses), e)
          /\ opened' = IF e \in Range(opened) THEN opened ELSE Append(opened, e)
  BY DEF OpenOne
<1>2. /\ lookup \in Lookups /\ lookup.lens \in Seq([space : STRING, path : Seq(STRING)])
      /\ lenses \in Seq([space : STRING, path : Seq(STRING)])
      /\ Len(lenses) <= Len(lookup.lens) /\ OpenedSoFar
      /\ \A j \in 1..Len(lenses) : lenses[j] = lookup.lens[j + Resolved]
  BY <1>0, DescribeAssumption DEF OpenedInv
<1>3. /\ Len(lenses) \in Nat \ {0} /\ Len(lookup.lens) \in Nat /\ Len(lenses') = Len(lenses) - 1
      /\ lenses' \in Seq([space : STRING, path : Seq(STRING)])
      /\ \A j \in 1..Len(lenses') : lenses'[j] = lenses[j + 1]
      /\ Head(lenses) = lenses[1]
  BY <1>0, <1>2
<1>4. Resolved \in Nat /\ Resolved' = Resolved + 1
  BY <1>0, <1>2, <1>3 DEF Resolved
<1>5. Head(lenses) = lookup.lens[Resolved']
  BY <1>2, <1>3, <1>4
<1>6. \A j \in 1..Len(lenses') : lenses'[j] = lookup.lens[j + Resolved']
  BY <1>2, <1>3, <1>4
<1>7. opened \in Seq(registry) /\ opened' \in Seq(registry)
  BY <1>1, <1>2 DEF OpenedSoFar
<1>8. Range(opened') = Range(opened) \cup {e}
  <2>1. CASE e \in Range(opened)
    BY <1>1, <2>1
  <2>2. CASE e \notin Range(opened)
    <3>1. opened' = Append(opened, e)
      BY <1>1, <2>2
    <3>2. /\ Len(opened') = Len(opened) + 1 /\ Len(opened) \in Nat
          /\ DOMAIN opened = 1..Len(opened) /\ DOMAIN opened' = 1..(Len(opened) + 1)
          /\ \A i \in 1..Len(opened) : opened'[i] = opened[i]
          /\ opened'[Len(opened) + 1] = e
      BY <1>7, <3>1
    <3>3. Range(opened') \subseteq Range(opened) \cup {e}
      BY <3>2 DEF Range
    <3>4. Range(opened) \subseteq Range(opened') /\ e \in Range(opened')
      BY <3>2 DEF Range
    <3>. QED
      BY <3>3, <3>4
  <2>. QED
    BY <2>1, <2>2
<1>9. \A i, k \in DOMAIN opened' : opened'[i] = opened'[k] => i = k
  <2>1. CASE e \in Range(opened)
    BY <1>1, <1>2, <2>1 DEF OpenedSoFar
  <2>2. CASE e \notin Range(opened)
    <3>1. opened' = Append(opened, e) /\ \A i \in DOMAIN opened : opened[i] # e
      BY <1>1, <2>2 DEF Range
    <3>. QED
      BY <1>2, <1>7, <3>1 DEF OpenedSoFar
  <2>. QED
    BY <2>1, <2>2
<1>10. \A i \in 1..Resolved' : \E f \in Range(opened') : Opens(registry, lookup.lens[i], f)
  <2>1. SUFFICES ASSUME NEW i \in 1..Resolved'
                 PROVE  \E f \in Range(opened') : Opens(registry, lookup.lens[i], f)
    OBVIOUS
  <2>2. CASE i \in 1..Resolved
    BY <1>2, <1>8, <2>2 DEF OpenedSoFar
  <2>3. CASE i = Resolved'
    BY <1>1, <1>5, <1>8, <2>3
  <2>. QED
    BY <1>4, <2>1, <2>2, <2>3
<1>11. \A f \in Range(opened') : \E i \in 1..Resolved' : Opens(registry, lookup.lens[i], f)
  <2>1. Resolved' \in 1..Resolved' /\ \A i \in 1..Resolved : i \in 1..Resolved'
    BY <1>4
  <2>. QED
    BY <1>1, <1>2, <1>5, <1>8, <2>1 DEF OpenedSoFar
<1>12. OpenedSoFar'
  BY <1>0, <1>7, <1>9, <1>10, <1>11 DEF OpenedSoFar
<1>13. Len(lenses') <= Len(lookup.lens)
  BY <1>2, <1>3
<1>14. \A j \in 1..Len(lenses)' : lenses'[j] = lookup'.lens[j + Resolved']
  BY <1>0, <1>6
<1>. QED
  BY <1>0, <1>2, <1>3, <1>12, <1>13, <1>14 DEF OpenedInv

LEMMA OpenedKeeps == OpenedInv /\ [GuidanceNext]_guidanceVars => OpenedInv'
<1>. SUFFICES ASSUME OpenedInv, [GuidanceNext]_guidanceVars PROVE OpenedInv'
  OBVIOUS
<1>1. CASE UNCHANGED describeVars
  BY <1>1 DEF describeVars, OpenedInv, OpenedSoFar, Resolved
<1>2. CASE Invoke
  BY <1>2 DEF Invoke, OpenedInv
<1>a. CASE Add
  BY <1>a DEF Add, Quit, OpenedInv
<1>3. CASE Index \/ BadFlags
  BY <1>3 DEF Index, BadFlags, Quit, OpenedInv
<1>4. CASE SplitNames
  <2>1. /\ stage = "wire" /\ stage' = "resolve" /\ lenses' = lookup.lens
        /\ UNCHANGED <<lookup, opened, shown, registry>>
    BY <1>4 DEF SplitNames
  <2>2. opened = <<>> /\ lookup \in Lookups /\ shown = <<>>
    BY <2>1 DEF OpenedInv
  <2>3. lookup.lens \in Seq([space : STRING, path : Seq(STRING)])
    BY <2>2, DescribeAssumption
  <2>4. Resolved' = 0 /\ Len(lookup.lens) \in Nat
    BY <2>1, <2>3 DEF Resolved
  <2>5. OpenedSoFar'
    <3>1. opened' = <<>> /\ Range(opened') = {} /\ opened' \in Seq(registry')
      BY <2>1, <2>2 DEF Range
    <3>2. 1..Resolved' = {}
      BY <2>4
    <3>. QED
      BY <3>1, <3>2 DEF OpenedSoFar
  <2>. QED
    BY <2>1, <2>2, <2>3, <2>4, <2>5 DEF OpenedInv
<1>5. CASE OpenOne
  BY <1>5, OpenOneKeeps
<1>6. CASE Unknown \/ Ambiguous
  BY <1>6 DEF Unknown, Ambiguous, Quit, OpenedInv
<1>7. CASE Show
  <2>1. /\ stage = "resolve" /\ lenses = <<>> /\ shown' = opened
        /\ stage' = "done" /\ status' = 0
        /\ UNCHANGED <<lookup, opened, lenses, registry>>
    BY <1>7 DEF Show, Quit
  <2>2. OpenedSoFar /\ lookup \in Lookups
    BY <2>1 DEF OpenedInv
  <2>3. OpenedSoFar' /\ Resolved' = Resolved
    BY <2>1, <2>2 DEF OpenedSoFar, Resolved
  <2>4. Resolved = Len(lookup.lens)
    <3>1. lookup.lens \in Seq([space : STRING, path : Seq(STRING)])
      BY <2>2, DescribeAssumption
    <3>. QED
      BY <2>1, <3>1 DEF Resolved
  <2>. QED
    BY <2>1, <2>2, <2>3, <2>4 DEF OpenedInv
<1>. QED
  BY <1>1, <1>2, <1>a, <1>3, <1>4, <1>5, <1>6, <1>7
  DEF GuidanceNext, guidanceVars, Prime, DescribeCommand, DescribeNext

\* describe shows an entry for each name asked for, answered to by no other, and
\* none twice, or nothing at all, whatever is registered and however it is asked.
THEOREM DescribeNeverGuesses == GuidanceSpec => []NothingIsGuessed
<1>1. GuidanceInit => OpenedInv
  <2>1. DescribeInit => OpenedInv
    BY DEF DescribeInit, OpenedInv
  <2>. QED
    BY <2>1 DEF GuidanceInit
<1>2. ASSUME Registered, OpenedInv PROVE NothingIsGuessed
  <2>1. SUFFICES ASSUME stage = "done", shown # <<>>
                 PROVE  /\ \A i \in DOMAIN lookup.lens : \E e \in Range(shown) :
                              {f \in registry : Answers(f, lookup.lens[i])} = {e}
                        /\ \A e \in Range(shown) : \E i \in DOMAIN lookup.lens :
                              Answers(e, lookup.lens[i])
                        /\ \A i, k \in DOMAIN shown : shown[i] = shown[k] => i = k
    BY <1>2 DEF NothingIsGuessed, OpenedInv
  <2>2. /\ shown = opened /\ Resolved = Len(lookup.lens) /\ OpenedSoFar
        /\ lookup.lens \in Seq([space : STRING, path : Seq(STRING)])
    BY <1>2, <2>1, DescribeAssumption DEF OpenedInv
  <2>3. DOMAIN lookup.lens = 1..Resolved
    BY <2>2
  <2>4. \A i \in DOMAIN lookup.lens :
           Resolve(registry, lookup.lens[i]) = {f \in registry : Answers(f, lookup.lens[i])}
    <3>1. SUFFICES ASSUME NEW i \in DOMAIN lookup.lens
                   PROVE  Resolve(registry, lookup.lens[i])
                             = {f \in registry : Answers(f, lookup.lens[i])}
      OBVIOUS
    <3>2. lookup.lens[i] \in [space : STRING, path : Seq(STRING)]
      BY <2>2, <2>3, ElementOfSeq
    <3>3. registry \subseteq Entry
      BY <1>2 DEF Registered
    <3>. QED
      BY <3>2, <3>3, ResolveAnswers
  <2>5. \A i \in DOMAIN lookup.lens : \E e \in Range(shown) :
           {f \in registry : Answers(f, lookup.lens[i])} = {e}
    <3>1. SUFFICES ASSUME NEW i \in DOMAIN lookup.lens
                   PROVE  \E e \in Range(shown) :
                             {f \in registry : Answers(f, lookup.lens[i])} = {e}
      OBVIOUS
    <3>2. i \in 1..Resolved
      BY <2>3
    <3>3. PICK e \in Range(shown) : Resolve(registry, lookup.lens[i]) = {e}
      BY <2>2, <3>2 DEF OpenedSoFar, Opens
    <3>. QED
      BY <2>4, <3>3
  <2>6. ASSUME NEW e \in Range(shown) PROVE \E i \in DOMAIN lookup.lens : Answers(e, lookup.lens[i])
    <3>1. PICK i \in 1..Resolved : Resolve(registry, lookup.lens[i]) = {e}
      BY <2>2 DEF OpenedSoFar, Opens
    <3>2. i \in DOMAIN lookup.lens
      BY <2>3
    <3>3. e \in {f \in registry : Answers(f, lookup.lens[i])}
      BY <2>4, <3>1, <3>2
    <3>. QED
      BY <3>2, <3>3
  <2>. QED
    BY <2>2, <2>5, <2>6 DEF OpenedSoFar
<1>. QED
  BY <1>1, <1>2, DescribeStarts, DescribeKeeps, OpenedKeeps, PTL DEF GuidanceSpec

-----------------------------------------------------------------------------
(* prime: what its exit code and its output say.                           *)

\* A file of that name, no directory, has been there.
HasBeen(n) ==
    \E e \in Names : /\ Stem[e] = n
                     /\ \E file \in was[e] : file.kind \notin {"absent", "directory"}

\* What a run of prime keeps: the history holds what is there now, and a file
\* is opened only once it has been seen under its own name.
Tracked ==
    /\ DOMAIN files = Names /\ DOMAIN was = Names
    /\ at = "idle" => listed = {}
    /\ at # "idle" => folder \in folderWas /\ \A e \in Names : files[e] \in was[e]
    /\ at \in {"load", "open"} /\ ~asked.list => name = asked.name
    /\ at \in {"list", "each"} => asked.list
    /\ at = "open" => HasBeen(name)
    /\ at # "done" => output = <<>>
    /\ PrimeTellsTruth
    /\ OnlyTheNamed

LEMMA PrimeStarts == GuidanceInit => Tracked
<1>. SUFFICES ASSUME ProfilesInit PROVE Tracked
  BY DEF GuidanceInit
<1>1. at = "idle" /\ listed = {} /\ output = <<>>
  BY DEF ProfilesInit
<1>2. DOMAIN files = Names /\ DOMAIN was = Names
  BY DEF ProfilesInit, NoRequest
<1>3. PrimeTellsTruth /\ OnlyTheNamed
  BY <1>1 DEF PrimeTellsTruth, OnlyTheNamed
<1>. QED
  BY <1>1, <1>2, <1>3 DEF Tracked

\* What a person edits is added to the history, of a run that has not ended.
LEMMA EditKeeps ==
    ASSUME Tracked, Edit
    PROVE  Tracked'
<1>1. /\ at \notin {"idle", "done"}
      /\ UNCHANGED <<at, asked, pending, name, listed, broken, output, code>>
  BY DEF Edit
<1>2. /\ DOMAIN files' = Names /\ DOMAIN was' = Names
      /\ folder' \in folderWas'
      /\ \A e \in Names : files'[e] \in was'[e] /\ was[e] \subseteq was'[e]
  <2>1. CASE \E e \in Names, file \in Contents :
                /\ files' = [files EXCEPT ![e] = file]
                /\ was' = [was EXCEPT ![e] = @ \cup {file}]
                /\ UNCHANGED <<folder, folderWas>>
    BY <1>1, <2>1 DEF Tracked
  <2>2. CASE \E state \in {"ok", "missing", "unreadable"} \ {folder} :
                /\ folder' = state
                /\ folderWas' = folderWas \cup {state}
                /\ UNCHANGED <<files, was>>
    BY <1>1, <2>2 DEF Tracked
  <2>. QED
    BY <2>1, <2>2 DEF Edit
<1>3. OnlyTheNamed'
  BY <1>1, <1>2 DEF OnlyTheNamed, Tracked
<1>4. PrimeTellsTruth'
  BY <1>1 DEF PrimeTellsTruth
<1>5. at = "open" => HasBeen(name)'
  BY <1>1, <1>2 DEF HasBeen, Tracked
<1>. QED
  BY <1>1, <1>2, <1>3, <1>4, <1>5 DEF Tracked

\* What opening a path of a file yields: one of the files seen under it, none
\* if there was none, or an error in a directory that cannot be searched.
LEMMA OpeningIsSeen ==
    ASSUME Tracked, at # "idle", NEW e \in Names, NEW file \in Opening(e)
    PROVE  \/ file \in Seen(e) /\ file.kind \notin {"absent", "dangling"}
           \/ file = NoFile /\ ("missing" \in folderWas \/ files[e].kind = "absent" \/ Dangles(e))
           \/ file.kind = "unreadable" /\ "unreadable" \in folderWas
<1>1. folder \in folderWas /\ \A f \in Names : files[f] \in was[f]
  BY DEF Tracked
<1>2. CASE file = Found(e)
  <2>. DEFINE there == {f \in Present : Folded[f] = Folded[e]}
  <2>1. CASE folder = "missing" \/ there = {}
    BY <1>1, <1>2, <2>1 DEF Found, Present
  <2>2. CASE ~(folder = "missing" \/ there = {})
    <3>1. PICK f \in there : file = Followed(files[f])
      BY <1>2, <2>2 DEF Found
    <3>2. f \in Names /\ files[f].kind # "absent" /\ Folded[f] = Folded[e]
      BY <3>1 DEF Present
    <3>3. files[f] \in Seen(e)
      BY <1>1, <3>2 DEF Seen
    <3>4. CASE files[f].kind = "dangling"
      BY <3>1, <3>3, <3>4 DEF Followed, Dangles
    <3>5. CASE files[f].kind # "dangling"
      BY <3>1, <3>2, <3>3, <3>5 DEF Followed
    <3>. QED
      BY <3>4, <3>5
  <2>. QED
    BY <2>1, <2>2
<1>3. CASE folder = "unreadable" /\ file = File("unreadable", <<>>)
  BY <1>1, <1>3 DEF File
<1>. QED
  BY <1>2, <1>3 DEF Opening

LEMMA AskKeeps ==
    ASSUME Tracked, Ask
    PROVE  Tracked'
<1>1. PICK r \in Requests :
          /\ asked' = r /\ folder' = r.folder /\ folderWas' = {r.folder}
          /\ files' = r.files /\ was' = [e \in Names |-> {r.files[e]}]
          /\ name' = r.name
          /\ at' = IF r.list THEN "list" ELSE "load"
  BY DEF Ask
<1>2. at = "idle" /\ UNCHANGED <<pending, listed, broken, output, code, edits>>
  BY DEF Ask
<1>3. DOMAIN r.files = Names /\ r.list \in BOOLEAN
  BY ProfilesAssumption
<1>4. output' = <<>> /\ listed' = {} /\ at' \in {"list", "load"}
  BY <1>1, <1>2 DEF Tracked
<1>5. PrimeTellsTruth' /\ OnlyTheNamed'
  BY <1>4 DEF PrimeTellsTruth, OnlyTheNamed
<1>. QED
  BY <1>1, <1>2, <1>3, <1>4, <1>5 DEF Tracked

\* Where nothing of the directory or of the files found changes, what was
\* printed and listed stays justified.
LEMMA ListedStays ==
    ASSUME OnlyTheNamed, UNCHANGED <<listed, was>>, output' = output \/ output' = <<>> \/ output' = <<"list">>
    PROVE  OnlyTheNamed'
BY DEF OnlyTheNamed

LEMMA ListKeeps ==
    ASSUME Tracked, List \/ Each
    PROVE  Tracked'
<1>1. asked.list /\ at \in {"list", "each"} /\ UNCHANGED <<asked, listed, disk>>
  BY DEF List, Each, Exit, Tracked
<1>2. \/ at' = "done" /\ output' \in {<<>>, <<"list">>}
      \/ at' \in {"each", "load"} /\ UNCHANGED output
  BY DEF List, Each, Exit
<1>3. OnlyTheNamed'
  BY <1>1, <1>2, ListedStays DEF disk, Tracked
<1>4. PrimeTellsTruth'
  BY <1>1 DEF PrimeTellsTruth
<1>. QED
  BY <1>1, <1>2, <1>3, <1>4 DEF Tracked, disk

\* What Load owes whoever asked: what it loaded was there, of that name; what
\* it failed at could not be read; what it did not find was not there.
Justified(outcome) ==
    /\ outcome.ok \in BOOLEAN /\ outcome.failed \in BOOLEAN
    /\ ~(outcome.ok /\ outcome.failed)
    /\ outcome.ok => HasBeen(name) /\ outcome.profile.name = name
    /\ ~asked.list /\ outcome.failed =>
          \/ ~asked.resolved \/ "unreadable" \in folderWas
          \/ \E e \in Names : Stem[e] = name /\ Malformed(e)
    /\ ~asked.list /\ ~outcome.failed /\ ~outcome.ok =>
          \/ name \notin Plain \/ "missing" \in folderWas
          \/ {e \in Names : Stem[e] = name} = {}
          \/ \E e \in Names : /\ Stem[e] = name
                              /\ \/ \E file \in was[e] : file.kind \in {"absent", "directory"}
                                 \/ Dangles(e)
    /\ ~asked.list /\ outcome.ok =>
          \E e \in Names : /\ Stem[e] = name
                           /\ \E file \in Seen(e) : WellFormed(file)
                                                   /\ outcome.profile = Profile(e, file)

\* An answer that ends prime --profile tells the truth; one that --list takes
\* note of names a file that has been there.
LEMMA AnswerKeeps ==
    ASSUME Tracked, at \in {"load", "open"}, UNCHANGED disk, NEW outcome,
           Answer(outcome), Justified(outcome)
    PROVE  Tracked'
<1>. USE DEF Justified
<1>1. CASE asked.list
  <2>1. /\ at' = "each" /\ UNCHANGED <<asked, name, output>>
        /\ listed' = IF outcome.ok THEN listed \cup {outcome.profile} ELSE listed
    BY <1>1 DEF Answer, Skipped
  <2>2. OnlyTheNamed'
    <3>1. SUFFICES ASSUME NEW profile \in listed'
                   PROVE  \E e \in Names : /\ Stem[e] = profile.name
                                           /\ \E file \in was[e] : file.kind # "absent"
      BY <2>1 DEF OnlyTheNamed, Tracked, disk
    <3>2. CASE profile \in listed
      BY <3>2 DEF OnlyTheNamed, Tracked
    <3>3. CASE profile \notin listed
      BY <2>1, <3>1, <3>3 DEF HasBeen
    <3>. QED
      BY <3>2, <3>3
  <2>3. PrimeTellsTruth'
    BY <2>1 DEF PrimeTellsTruth
  <2>. QED
    BY <1>1, <2>1, <2>2, <2>3 DEF Tracked, disk
<1>2. CASE ~asked.list
  <2>1. /\ at' = "done" /\ UNCHANGED <<asked, name, listed>>
        /\ code' = IF outcome.failed THEN 101 ELSE IF outcome.ok THEN 0 ELSE 2
        /\ output' = IF outcome.ok THEN <<"prime", outcome.profile>> ELSE <<>>
    BY <1>2 DEF Answer, Exit, ExitTool, ExitValid, ExitUsage
  <2>2. name = asked.name
    BY <1>2 DEF Tracked
  <2>3. OnlyTheNamed'
    <3>1. \A profile \in listed : \E e \in Names :
             Stem[e] = profile.name /\ \E file \in was[e] : file.kind # "absent"
      BY DEF OnlyTheNamed, Tracked
    <3>2. \A i \in DOMAIN output' : i = 2 => outcome.ok /\ output'[i] = outcome.profile
      BY <2>1
    <3>3. outcome.ok => \E e \in Names : /\ Stem[e] = outcome.profile.name
                                         /\ \E file \in was[e] : file.kind # "absent"
      BY DEF HasBeen
    <3>4. SUFFICES ASSUME NEW profile \in listed'
                                \cup {output'[i] : i \in {i \in DOMAIN output' : i = 2}}
                   PROVE  \E e \in Names : /\ Stem[e] = profile.name
                                           /\ \E file \in was[e] : file.kind # "absent"
      BY DEF OnlyTheNamed, disk
    <3>. QED
      BY <2>1, <3>1, <3>2, <3>3, <3>4
  <2>4. CASE outcome.failed
    <3>1. code' = 101 /\ output' = <<>>
      BY <2>1, <2>4
    <3>2. PrimeTellsTruth'
      BY <1>2, <2>1, <2>2, <2>4, <3>1
      DEF PrimeTellsTruth, ExitTool, ExitUsage, ExitValid, Malformed, Seen, disk
    <3>. QED
      BY <1>2, <2>1, <2>3, <3>2 DEF Tracked, disk
  <2>5. CASE outcome.ok
    <3>1. code' = 0 /\ output' = <<"prime", outcome.profile>>
      BY <2>1, <2>5
    <3>2. output' # <<>> /\ output'[2] = outcome.profile
      BY <3>1
    <3>3. PrimeTellsTruth'
      BY <1>2, <2>1, <2>2, <2>5, <3>1, <3>2
      DEF PrimeTellsTruth, ExitTool, ExitUsage, ExitValid, Seen, disk
    <3>. QED
      BY <1>2, <2>1, <2>3, <3>3 DEF Tracked, disk
  <2>6. CASE ~outcome.failed /\ ~outcome.ok
    <3>1. code' = 2 /\ output' = <<>>
      BY <2>1, <2>6
    <3>2. PrimeTellsTruth'
      BY <1>2, <2>1, <2>2, <2>6, <3>1
      DEF PrimeTellsTruth, ExitTool, ExitUsage, ExitValid, Dangles, Seen, disk
    <3>. QED
      BY <1>2, <2>1, <2>3, <3>2 DEF Tracked, disk
  <2>. QED
    BY <2>4, <2>5, <2>6
<1>. QED
  BY <1>1, <1>2

\* Load finds no file of the name only where there has been none.
LEMMA LoadKeeps ==
    ASSUME Tracked, Load
    PROVE  Tracked'
<1>1. at = "load" /\ folder \in folderWas /\ \A e \in Names : files[e] \in was[e]
  BY DEF Load, Tracked
<1>2. CASE ~asked.resolved
  <2>1. Answer(Failed) /\ UNCHANGED disk
    BY <1>2 DEF Load, Answer, Exit
  <2>2. Justified(Failed)
    BY <1>2 DEF Justified, Failed
  <2>. QED
    BY <1>1, <2>1, <2>2, AnswerKeeps
<1>3. CASE asked.resolved /\ (name \notin Plain \/ folder = "missing")
  <2>1. Answer(NotFound) /\ UNCHANGED disk
    BY <1>3 DEF Load, Answer, Exit
  <2>2. Justified(NotFound)
    BY <1>1, <1>3 DEF Justified, NotFound
  <2>. QED
    BY <1>1, <2>1, <2>2, AnswerKeeps
<1>4. CASE asked.resolved /\ name \in Plain /\ folder = "unreadable"
  <2>1. Answer(Failed) /\ UNCHANGED disk
    BY <1>4 DEF Load, Answer, Exit
  <2>2. Justified(Failed)
    BY <1>1, <1>4 DEF Justified, Failed
  <2>. QED
    BY <1>1, <2>1, <2>2, AnswerKeeps
<1>5. CASE /\ asked.resolved /\ name \in Plain /\ folder \notin {"missing", "unreadable"}
           /\ ~\E e \in Names : Matched(e)
  <2>1. Answer(NotFound) /\ UNCHANGED disk
    BY <1>5 DEF Load, Answer, Exit
  <2>2. \A e \in Names : Stem[e] = name => \E file \in was[e] : file.kind \in {"absent", "directory"}
    BY <1>1, <1>5 DEF Matched, Enumerated, Present
  <2>3. \/ {e \in Names : Stem[e] = name} = {}
        \/ \E e \in Names : /\ Stem[e] = name
                            /\ \E file \in was[e] : file.kind \in {"absent", "directory"}
    BY <2>2
  <2>4. Justified(NotFound)
    BY <2>3 DEF Justified, NotFound
  <2>. QED
    BY <1>1, <2>1, <2>4, AnswerKeeps
<1>6. CASE /\ asked.resolved /\ name \in Plain /\ folder \notin {"missing", "unreadable"}
           /\ \E e \in Names : Matched(e)
  <2>1. /\ at' = "open"
        /\ UNCHANGED <<asked, pending, name, listed, broken, output, code, disk>>
    BY <1>6 DEF Load
  <2>2. HasBeen(name)'
    BY <1>1, <1>6, <2>1 DEF HasBeen, Matched, Enumerated, Present, disk
  <2>3. OnlyTheNamed'
    BY <2>1, ListedStays DEF disk, Tracked
  <2>4. PrimeTellsTruth'
    BY <2>1 DEF PrimeTellsTruth
  <2>. QED
    BY <1>1, <2>1, <2>2, <2>3, <2>4 DEF Tracked, disk
<1>. QED
  BY <1>2, <1>3, <1>4, <1>5, <1>6

\* A file that went away since is unknown, one that cannot be read or parsed
\* is the tool's failure, and what is printed was there.
LEMMA OpenKeeps ==
    ASSUME Tracked, Open
    PROVE  Tracked'
<1>1. PICK e \in Names : /\ Stem[e] = name
                         /\ \E file \in Opening(e) : Answer(Read(e, file))
  BY DEF Open
<1>2. PICK file \in Opening(e) : Answer(Read(e, file))
  BY <1>1
<1>3. at = "open" /\ HasBeen(name) /\ UNCHANGED disk
  BY <1>2 DEF Open, Answer, Exit, Tracked
<1>4. files[e] \in was[e]
  BY <1>3 DEF Tracked
<1>5. \/ file \in Seen(e) /\ file.kind \notin {"absent", "dangling"}
      \/ file = NoFile /\ ("missing" \in folderWas \/ files[e].kind = "absent" \/ Dangles(e))
      \/ file.kind = "unreadable" /\ "unreadable" \in folderWas
  BY <1>3, OpeningIsSeen
<1>6. NoFile.kind = "absent"
  BY DEF NoFile, File
<1>7. CASE file.kind = "absent"
  <2>1. Read(e, file) = NotFound
    BY <1>7 DEF Read
  <2>2. \/ "missing" \in folderWas \/ Dangles(e)
        \/ \E f \in was[e] : f.kind \in {"absent", "directory"}
    BY <1>4, <1>5, <1>7
  <2>3. Justified(NotFound)
    BY <1>1, <2>2 DEF Justified, NotFound
  <2>. QED
    BY <1>2, <1>3, <2>1, <2>3, AnswerKeeps
<1>8. CASE file.kind # "absent" /\ WellFormed(file)
  <2>1. Read(e, file) = Loaded(e, file)
    BY <1>8 DEF Read
  <2>2. file \in Seen(e)
    BY <1>5, <1>6, <1>8 DEF WellFormed
  <2>3. /\ Loaded(e, file).ok = TRUE /\ Loaded(e, file).failed = FALSE
        /\ Loaded(e, file).profile = Profile(e, file) /\ Profile(e, file).name = name
    BY <1>1 DEF Loaded, Profile
  <2>4. Justified(Loaded(e, file))
    BY <1>1, <1>3, <1>8, <2>2, <2>3 DEF Justified
  <2>. QED
    BY <1>2, <1>3, <2>1, <2>4, AnswerKeeps
<1>9. CASE file.kind # "absent" /\ ~WellFormed(file)
  <2>1. Read(e, file) = Failed
    BY <1>9 DEF Read
  <2>2. "unreadable" \in folderWas \/ Malformed(e)
    BY <1>5, <1>6, <1>9 DEF Malformed
  <2>3. Justified(Failed)
    BY <1>1, <2>2 DEF Justified, Failed
  <2>. QED
    BY <1>2, <1>3, <2>1, <2>3, AnswerKeeps
<1>. QED
  BY <1>7, <1>8, <1>9

LEMMA PrimeKeeps == Tracked /\ [GuidanceNext]_guidanceVars => Tracked'
<1>. SUFFICES ASSUME Tracked, [GuidanceNext]_guidanceVars PROVE Tracked'
  OBVIOUS
<1>1. CASE UNCHANGED profileVars
  BY <1>1 DEF profileVars, disk, Tracked, HasBeen, PrimeTellsTruth, OnlyTheNamed, Malformed,
              Dangles, Seen
<1>2. CASE ProfilesNext
  BY <1>2, AskKeeps, ListKeeps, LoadKeeps, OpenKeeps, EditKeeps DEF ProfilesNext
<1>. QED
  BY <1>1, <1>2 DEF GuidanceNext, guidanceVars, Prime, DescribeCommand

\* The exit code of prime --profile tells whose mistake it is, and its output is
\* one version of the file named, for every directory, every file and every
\* number of edits.
THEOREM PrimeAlwaysTellsTruth == GuidanceSpec => []PrimeTellsTruth
<1>1. Tracked => PrimeTellsTruth
  BY DEF Tracked
<1>. QED
  BY <1>1, PrimeStarts, PrimeKeeps, PTL DEF GuidanceSpec

\* No profile is read under another name than its own, whatever the file system
\* makes of names.
THEOREM OnlyTheNamedIsRead == GuidanceSpec => []OnlyTheNamed
<1>1. Tracked => OnlyTheNamed
  BY DEF Tracked
<1>. QED
  BY <1>1, PrimeStarts, PrimeKeeps, PTL DEF GuidanceSpec

-----------------------------------------------------------------------------
(* prime --list: what becomes of each file.                                *)

\* SetToSeq lists every element of a finite set.
LEMMA SetToSeqLists ==
    ASSUME NEW S, IsFiniteSet(S)
    PROVE  /\ SetToSeq(S) \in Seq(S)
           /\ \A x \in S : \E i \in 1..Len(SetToSeq(S)) : SetToSeq(S)[i] = x
<1>. DEFINE n == Cardinality(S)
            s == SetToSeq(S)
<1>1. n \in Nat /\ ExistsBijection(1..n, S)
  BY FS_CardinalityType
<1>2. \E f \in [1..n -> S] : IsInjective(f)
  BY <1>1 DEF ExistsBijection, Bijection, Injection
<1>3. s \in [1..n -> S] /\ IsInjective(s)
  BY <1>2 DEF SetToSeq
<1>4. IsFiniteSet(1..n) /\ Cardinality(1..n) = n
  BY <1>1, FS_Interval
<1>5. s \in Injection(1..n, S)
  BY <1>3 DEF Injection
<1>. HIDE DEF s
<1>6. s \in Surjection(1..n, S)
  BY <1>4, <1>5, FS_Injection
<1>7. s \in Seq(S) /\ Len(s) = n
  BY <1>1, <1>3
<1>8. \A x \in S : \E i \in 1..n : s[i] = x
  BY <1>6 DEF Surjection
<1>. QED
  BY <1>7, <1>8 DEF s

\* A file was the one thing there while the run lasted, in a directory that
\* could be read.
Throughout(e, file) ==
    /\ Stem[e] \in Plain /\ folderWas = {"ok"}
    /\ was[e] = {file} /\ Seen(e) \ {NoFile} = {file}
    /\ file.kind \in {"file", "unreadable"}

\* --list has said of a file what it is.
Accounted(e, file) == IF WellFormed(file) THEN Profile(e, file) \in listed ELSE e \in broken

Waiting(e) == at # "done" /\ \E i \in 1..Len(pending) : pending[i] = e

\* What is listed was a profile at some time, what is named as broken was
\* malformed or out of reach at some time.
ListedWere ==
    \A profile \in listed : \E e \in Names :
        /\ Stem[e] = profile.name /\ Stem[e] \in Plain
        /\ \E file \in Seen(e) : WellFormed(file) /\ profile = Profile(e, file)
BrokenWere == \A e \in broken : Malformed(e) \/ "unreadable" \in folderWas

\* A file that was one thing throughout waits in the queue until it is
\* accounted for.
NoneIsLost ==
    \A e \in Names : \A file \in was[e] :
        Throughout(e, file) => Accounted(e, file) \/ Waiting(e)

\* What a run of prime --list keeps: from the enumeration on no file is lost,
\* and what is said of a file is so.
Listing ==
    /\ pending \in Seq(Names)
    /\ at = "idle" => ~asked.list /\ broken = {}
    /\ asked.list /\ at \in {"each", "load", "open"} => asked.resolved
    /\ asked.list /\ at \in {"load", "open"} => pending # <<>> /\ name = Stem[Head(pending)]
    /\ at = "open" => name \in Plain
    /\ ListedWere /\ BrokenWere
    /\ asked.list /\ (at \in {"each", "load", "open"} \/ (at = "done" /\ code = ExitValid)) => NoneIsLost

LEMMA ListingStarts == GuidanceInit => Listing
<1>. SUFFICES ASSUME ProfilesInit PROVE Listing
  BY DEF GuidanceInit
<1>1. /\ at = "idle" /\ ~asked.list
      /\ pending = <<>> /\ listed = {} /\ broken = {}
  BY DEF ProfilesInit, NoRequest
<1>2. ListedWere /\ BrokenWere
  BY <1>1 DEF ListedWere, BrokenWere
<1>. QED
  BY <1>1, <1>2 DEF Listing

\* What was something throughout at a later time was so before.
LEMMA ThroughoutBefore ==
    ASSUME \A e \in Names : was[e] # {} /\ was[e] \subseteq was'[e],
           DOMAIN was = Names, DOMAIN was' = Names,
           folderWas # {}, folderWas \subseteq folderWas',
           NEW e \in Names, NEW file, Throughout(e, file)'
    PROVE  Throughout(e, file)
<1>0. folderWas' = {"ok"} /\ was'[e] = {file}
  BY DEF Throughout
<1>1. folderWas = {"ok"} /\ was[e] = {file}
  BY <1>0
<1>2. Seen(e) \subseteq Seen(e)'
  BY DEF Seen
<1>3. file \in Seen(e)
  BY <1>1 DEF Seen
<1>4. Seen(e) \ {NoFile} \subseteq {file} /\ file # NoFile
  BY <1>2 DEF Throughout
<1>5. Seen(e) \ {NoFile} = {file}
  BY <1>3, <1>4
<1>. QED
  BY <1>1, <1>5 DEF Throughout

\* History that grows keeps what is justified by it, as long as no answer is added.
LEMMA HistoryKeeps ==
    ASSUME Listing, UNCHANGED <<listed, broken>>, DOMAIN was = Names, DOMAIN was' = Names,
           \A e \in Names : was[e] \subseteq was'[e], folderWas \subseteq folderWas'
    PROVE  ListedWere' /\ BrokenWere'
<1>1. \A e \in Names : Seen(e) \subseteq Seen(e)'
  BY DEF Seen
<1>2. ListedWere'
  BY <1>1 DEF Listing, ListedWere
<1>3. BrokenWere'
  <2>1. SUFFICES ASSUME NEW e \in broken
                 PROVE  Malformed(e)' \/ "unreadable" \in folderWas'
    BY DEF BrokenWere
  <2>2. CASE e \in Names
    BY <1>1, <2>2 DEF Listing, BrokenWere, Malformed
  <2>3. CASE e \notin Names
    BY <2>3 DEF Listing, BrokenWere, Malformed, Seen
  <2>. QED
    BY <2>2, <2>3
<1>. QED
  BY <1>2, <1>3

\* What is listed or named as broken is justified by what has been there.
Heard(outcome) ==
    /\ outcome.ok => \E e \in Names : /\ Stem[e] = name /\ name \in Plain
                                      /\ \E file \in Seen(e) : WellFormed(file)
                                                              /\ outcome.profile = Profile(e, file)
    /\ outcome.failed => \A e \in Names : Stem[e] = name =>
          Malformed(e) \/ "unreadable" \in folderWas
    /\ \A e \in Names : \A file \in was[e] : Stem[e] = name /\ Throughout(e, file) =>
          IF WellFormed(file) THEN outcome.ok /\ outcome.profile = Profile(e, file)
          ELSE outcome.failed

\* An answer about the file at the head of the queue accounts for it.
LEMMA AnswerListing ==
    ASSUME Tracked, Listing, at \in {"load", "open"}, NEW outcome, UNCHANGED disk,
           Answer(outcome), Heard(outcome)
    PROVE  Listing'
<1>1. CASE ~asked.list
  <2>1. /\ at' = "done" /\ UNCHANGED <<asked, pending, name, listed, broken, disk>>
    BY <1>1 DEF Answer, Exit
  <2>2. ListedWere' /\ BrokenWere'
    BY <2>1, HistoryKeeps DEF disk, Tracked
  <2>. QED
    BY <1>1, <2>1, <2>2 DEF Listing
<1>2. CASE asked.list
  <2>. DEFINE h == Head(pending)
  <2>1. /\ at' = "each" /\ pending' = Tail(pending) /\ UNCHANGED <<asked, name, disk>>
        /\ broken' = IF outcome.failed THEN broken \cup {h} ELSE broken
        /\ listed' = IF outcome.ok THEN listed \cup {outcome.profile} ELSE listed
    BY <1>2 DEF Answer, Skipped
  <2>2. /\ pending \in Seq(Names) /\ pending # <<>>
        /\ h \in Names /\ Stem[h] = name /\ asked.resolved
    BY <1>2 DEF Listing
  <2>. HIDE DEF h
  <2>3. ListedWere'
    <3>1. SUFFICES ASSUME NEW profile \in listed'
                   PROVE  \E e \in Names :
                             /\ Stem[e] = profile.name /\ Stem[e] \in Plain
                             /\ \E file \in Seen(e) : WellFormed(file)
                                                     /\ profile = Profile(e, file)
      BY <2>1 DEF ListedWere, Seen, disk
    <3>2. CASE profile \in listed
      BY <3>2 DEF Listing, ListedWere
    <3>3. CASE outcome.ok /\ profile = outcome.profile
      <4>1. PICK e \in Names : /\ Stem[e] = name /\ name \in Plain
                               /\ \E file \in Seen(e) : WellFormed(file)
                                                       /\ profile = Profile(e, file)
        BY <3>3 DEF Heard
      <4>2. profile.name = Stem[e]
        BY <4>1 DEF Profile
      <4>. QED
        BY <4>1, <4>2
    <3>. QED
      BY <2>1, <3>1, <3>2, <3>3
  <2>4. BrokenWere'
    <3>1. SUFFICES ASSUME NEW e \in broken'
                   PROVE  Malformed(e) \/ "unreadable" \in folderWas
      BY <2>1 DEF BrokenWere, Malformed, Seen, disk
    <3>2. CASE e \in broken
      BY <3>2 DEF Listing, BrokenWere
    <3>3. CASE outcome.failed /\ e = h
      BY <2>2, <3>3 DEF Heard
    <3>. QED
      BY <2>1, <3>1, <3>2, <3>3
  <2>5. ASSUME NEW e \in Names, NEW file \in was[e], Throughout(e, file)
        PROVE  Accounted(e, file)' \/ Waiting(e)'
    <3>1. NoneIsLost
      BY <1>2 DEF Listing
    <3>5. Accounted(e, file) \/ \E i \in 1..Len(pending) : pending[i] = e
      BY <2>5, <3>1 DEF NoneIsLost, Waiting
    <3>2. CASE Accounted(e, file)
      BY <2>1, <3>2 DEF Accounted
    <3>3. CASE e = h
      BY <2>1, <2>2, <2>5, <3>3 DEF Heard, Accounted
    <3>4. ASSUME NEW i \in 1..Len(pending), pending[i] = e, e # h
          PROVE  Waiting(e)'
      <4>1. i # 1
        BY <2>2, <3>4 DEF h
      <4>2. i - 1 \in 1..Len(Tail(pending)) /\ Tail(pending)[i - 1] = e
        BY <2>2, <3>4, <4>1, HeadTailProperties
      <4>. QED
        BY <2>1, <4>2 DEF Waiting
    <3>. QED
      BY <3>5, <3>2, <3>3, <3>4
  <2>6. pending' \in Seq(Names)
    BY <2>1, <2>2
  <2>7. NoneIsLost'
    BY <2>1, <2>5 DEF NoneIsLost, Throughout, Seen, disk
  <2>. QED
    BY <1>2, <2>1, <2>2, <2>3, <2>4, <2>6, <2>7 DEF Listing
<1>. QED
  BY <1>1, <1>2

\* Load finds a file that was there throughout, and passes over no other.
LEMMA LoadListing ==
    ASSUME Tracked, Listing, Load
    PROVE  Listing'
<1>1. at = "load" /\ folder \in folderWas /\ \A e \in Names : files[e] \in was[e]
  BY DEF Load, Tracked
<1>2. \A e \in Names : \A file \in was[e] : Throughout(e, file) =>
         files[e] = file /\ folder = "ok" /\ Stem[e] \in Plain
  BY <1>1 DEF Throughout
<1>3. CASE ~asked.resolved
  <2>1. Answer(Failed) /\ UNCHANGED disk /\ ~asked.list
    BY <1>1, <1>3 DEF Load, Answer, Exit, Listing
  <2>2. /\ at' = "done" /\ UNCHANGED <<asked, pending, name, listed, broken>>
    BY <2>1 DEF Answer, Exit
  <2>3. ListedWere' /\ BrokenWere'
    BY <2>1, <2>2, HistoryKeeps DEF disk, Tracked
  <2>. QED
    BY <2>1, <2>2, <2>3 DEF Listing
<1>4. CASE asked.resolved /\ (name \notin Plain \/ folder = "missing")
  <2>1. Answer(NotFound) /\ UNCHANGED disk
    BY <1>4 DEF Load, Answer, Exit
  <2>2. Heard(NotFound)
    BY <1>2, <1>4 DEF Heard, NotFound
  <2>. QED
    BY <1>1, <2>1, <2>2, AnswerListing
<1>5. CASE asked.resolved /\ name \in Plain /\ folder = "unreadable"
  <2>1. Answer(Failed) /\ UNCHANGED disk
    BY <1>5 DEF Load, Answer, Exit
  <2>2. Heard(Failed)
    BY <1>1, <1>2, <1>5 DEF Heard, Failed
  <2>. QED
    BY <1>1, <2>1, <2>2, AnswerListing
<1>6. CASE /\ asked.resolved /\ name \in Plain /\ folder \notin {"missing", "unreadable"}
           /\ ~\E e \in Names : Matched(e)
  <2>1. Answer(NotFound) /\ UNCHANGED disk
    BY <1>6 DEF Load, Answer, Exit
  <2>2. \A e \in Names : Stem[e] = name => files[e].kind \in {"absent", "directory"}
    BY <1>6 DEF Matched, Enumerated, Present
  <2>3. \A e \in Names : \A file \in was[e] : Stem[e] = name => ~Throughout(e, file)
    BY <1>2, <2>2 DEF Throughout
  <2>4. Heard(NotFound)
    BY <2>3 DEF Heard, NotFound
  <2>. QED
    BY <1>1, <2>1, <2>4, AnswerListing
<1>7. CASE /\ asked.resolved /\ name \in Plain /\ folder \notin {"missing", "unreadable"}
           /\ \E e \in Names : Matched(e)
  <2>1. /\ at' = "open"
        /\ UNCHANGED <<asked, pending, name, listed, broken, output, code, disk>>
    BY <1>7 DEF Load
  <2>2. ListedWere' /\ BrokenWere'
    BY <2>1, HistoryKeeps DEF disk, Tracked
  <2>3. asked.list => NoneIsLost
    BY <1>1 DEF Listing
  <2>4. NoneIsLost => NoneIsLost'
    BY <1>1, <2>1 DEF NoneIsLost, Throughout, Accounted, Waiting, Seen, disk
  <2>. QED
    BY <1>1, <1>7, <2>1, <2>2, <2>3, <2>4 DEF Listing
<1>. QED
  BY <1>3, <1>4, <1>5, <1>6, <1>7

\* What is opened is what was there throughout, if anything was.
LEMMA OpenListing ==
    ASSUME Tracked, Listing, Open
    PROVE  Listing'
<1>1. PICK e \in Names : /\ Stem[e] = name
                         /\ \E file \in Opening(e) : Answer(Read(e, file))
  BY DEF Open
<1>2. PICK file \in Opening(e) : Answer(Read(e, file))
  BY <1>1
<1>3. at = "open" /\ name \in Plain /\ UNCHANGED disk
  BY <1>2 DEF Open, Answer, Exit, Listing
<1>4. \A f \in Names : Stem[f] = name => f = e
  BY <1>1, <1>3, ProfilesAssumption
<1>5. files[e] \in was[e] /\ NoFile.kind = "absent"
  BY <1>3 DEF Tracked, NoFile, File
<1>6. \/ file \in Seen(e) /\ file.kind \notin {"absent", "dangling"}
      \/ file = NoFile /\ ("missing" \in folderWas \/ files[e].kind = "absent" \/ Dangles(e))
      \/ file.kind = "unreadable" /\ "unreadable" \in folderWas
  BY <1>3, OpeningIsSeen
<1>7. \A f \in was[e] : Throughout(e, f) => f = file
  <2>. SUFFICES ASSUME NEW f \in was[e], Throughout(e, f) PROVE f = file
    OBVIOUS
  <2>1. \A g \in Seen(e) : g = NoFile \/ g = f
    BY DEF Throughout
  <2>2. ~Dangles(e) /\ files[e].kind # "absent" /\ "missing" \notin folderWas
    BY <1>5, <2>1 DEF Throughout, Dangles
  <2>. QED
    BY <1>5, <1>6, <2>1, <2>2 DEF Throughout
<1>8. Heard(Read(e, file))
  <2>1. CASE file.kind = "absent"
    <3>1. Read(e, file) = NotFound
      BY <2>1 DEF Read
    <3>2. \A f \in was[e] : ~Throughout(e, f)
      BY <1>7, <2>1 DEF Throughout
    <3>. QED
      BY <1>4, <3>1, <3>2 DEF Heard, NotFound
  <2>2. CASE file.kind # "absent" /\ WellFormed(file)
    <3>1. /\ Read(e, file).ok = TRUE /\ Read(e, file).failed = FALSE
          /\ Read(e, file).profile = Profile(e, file)
      <4>1. Read(e, file) = Loaded(e, file)
        BY <2>2 DEF Read
      <4>. QED
        BY <4>1 DEF Loaded
    <3>2. file \in Seen(e)
      BY <1>5, <1>6, <2>2 DEF WellFormed
    <3>. QED
      BY <1>1, <1>3, <1>4, <1>7, <2>2, <3>1, <3>2 DEF Heard
  <2>3. CASE file.kind # "absent" /\ ~WellFormed(file)
    <3>1. Read(e, file).ok = FALSE /\ Read(e, file).failed = TRUE
      BY <2>3 DEF Read, Failed
    <3>2. Malformed(e) \/ "unreadable" \in folderWas
      BY <1>5, <1>6, <2>3 DEF Malformed
    <3>. QED
      BY <1>4, <1>7, <2>3, <3>1, <3>2 DEF Heard
  <2>. QED
    BY <2>1, <2>2, <2>3
<1>. QED
  BY <1>2, <1>3, <1>8, AnswerListing

\* The enumeration puts every file that is there in the queue.
LEMMA EachListing ==
    ASSUME Tracked, Listing, List \/ Each
    PROVE  Listing'
<1>1. /\ asked.list /\ at \in {"list", "each"} /\ folder \in folderWas
      /\ \A e \in Names : files[e] \in was[e]
      /\ UNCHANGED <<asked, listed, broken, disk>>
  BY DEF List, Each, Exit, Tracked
<1>2. ListedWere' /\ BrokenWere'
  BY <1>1, HistoryKeeps DEF disk, Tracked
<1>3. \A e, file : /\ Throughout(e, file)' <=> Throughout(e, file)
                   /\ Accounted(e, file)' <=> Accounted(e, file)
  BY <1>1 DEF Throughout, Accounted, Seen, disk
<1>4. CASE List /\ (~asked.resolved \/ folder = "unreadable")
  <2>1. at' = "done" /\ code' = 101 /\ UNCHANGED <<pending, name>>
    BY <1>4 DEF List, Exit, ExitTool
  <2>. QED
    BY <1>1, <1>2, <2>1 DEF Listing, ExitValid
<1>5. CASE List /\ asked.resolved /\ folder = "missing"
  <2>1. at' = "done" /\ UNCHANGED <<pending, name>>
    BY <1>5 DEF List, Exit
  <2>2. NoneIsLost'
    BY <1>1, <1>3, <1>5 DEF NoneIsLost, Throughout
  <2>. QED
    BY <1>1, <1>2, <2>1, <2>2 DEF Listing
<1>6. CASE List /\ asked.resolved /\ folder \notin {"missing", "unreadable"}
  <2>. DEFINE S == {e \in Enumerated : Stem[e] # NoStem}
  <2>1. pending' = SetToSeq(S) /\ at' = "each" /\ UNCHANGED name
    BY <1>6 DEF List
  <2>2. S \subseteq Names /\ IsFiniteSet(S)
    <3>1. S \in SUBSET Names
      BY DEF Enumerated, Present
    <3>. QED
      BY <3>1, ProfilesAssumption, FS_Subset
  <2>3. pending' \in Seq(S) /\ \A e \in S : \E i \in 1..Len(pending') : pending'[i] = e
    BY <2>1, <2>2, SetToSeqLists
  <2>4. ASSUME NEW e \in Names, NEW file \in was[e], Throughout(e, file)
        PROVE  e \in S
    <3>1. files[e] = file /\ Stem[e] # NoStem
      BY <1>1, <2>4, ProfilesAssumption DEF Throughout
    <3>. QED
      BY <2>4, <3>1 DEF Throughout, Enumerated, Present
  <2>5. pending' \in Seq(Names)
    BY <2>2, <2>3, SeqMonotonic
  <2>6. NoneIsLost'
    BY <1>1, <1>3, <2>1, <2>3, <2>4 DEF NoneIsLost, Waiting, disk
  <2>. QED
    BY <1>1, <1>2, <1>6, <2>1, <2>5, <2>6 DEF Listing
<1>7. CASE Each /\ pending = <<>>
  <2>1. at' = "done" /\ UNCHANGED <<pending, name>>
    BY <1>7 DEF Each, Exit
  <2>2. \A e \in Names : ~Waiting(e)
    BY <1>7 DEF Waiting
  <2>3. NoneIsLost
    BY <1>1, <1>7 DEF Each, Listing
  <2>4. NoneIsLost'
    BY <1>1, <1>3, <2>2, <2>3 DEF NoneIsLost, disk
  <2>. QED
    BY <1>1, <1>2, <2>1, <2>4 DEF Listing
<1>8. CASE Each /\ pending # <<>>
  <2>1. at = "each" /\ at' = "load" /\ name' = Stem[Head(pending)] /\ UNCHANGED pending
    BY <1>8 DEF Each
  <2>3. NoneIsLost
    BY <1>1, <2>1 DEF Listing
  <2>2. NoneIsLost'
    BY <1>1, <1>3, <2>1, <2>3 DEF NoneIsLost, Waiting, disk
  <2>. QED
    BY <1>1, <1>2, <1>8, <2>1, <2>2 DEF Listing
<1>. QED
  BY <1>4, <1>5, <1>6, <1>7, <1>8 DEF List

LEMMA AskListing ==
    ASSUME Tracked, Listing, Ask
    PROVE  Listing'
<1>1. PICK r \in Requests :
          /\ asked' = r /\ at' = IF r.list THEN "list" ELSE "load"
  BY DEF Ask
<1>2. /\ at = "idle" /\ listed' = {} /\ UNCHANGED <<pending, listed, broken>>
  BY DEF Ask, Tracked
<1>3. broken = {}
  BY <1>2 DEF Listing
<1>4. ListedWere' /\ BrokenWere'
  BY <1>2, <1>3 DEF ListedWere, BrokenWere
<1>. QED
  BY <1>1, <1>2, <1>4 DEF Listing

LEMMA EditListing ==
    ASSUME Tracked, Listing, Edit
    PROVE  Listing'
<1>1. /\ at \notin {"idle", "done"}
      /\ UNCHANGED <<at, asked, pending, name, listed, broken, output, code>>
  BY DEF Edit
<1>2. /\ DOMAIN was = Names /\ DOMAIN was' = Names
      /\ folderWas # {} /\ folderWas \subseteq folderWas'
      /\ \A e \in Names : was[e] # {} /\ was[e] \subseteq was'[e]
  <2>1. folder \in folderWas /\ \A e \in Names : files[e] \in was[e]
    BY <1>1 DEF Tracked
  <2>2. CASE \E e \in Names, file \in Contents :
                /\ was' = [was EXCEPT ![e] = @ \cup {file}]
                /\ UNCHANGED folderWas
    BY <2>1, <2>2 DEF Tracked
  <2>3. CASE \E state \in {"ok", "missing", "unreadable"} \ {folder} :
                /\ folderWas' = folderWas \cup {state}
                /\ UNCHANGED was
    BY <2>1, <2>3 DEF Tracked
  <2>. QED
    BY <2>2, <2>3 DEF Edit
<1>3. ListedWere' /\ BrokenWere'
  BY <1>1, <1>2, HistoryKeeps
<1>4. ASSUME NEW e \in Names, NEW file \in was'[e], Throughout(e, file)'
      PROVE  Throughout(e, file) /\ file \in was[e]
  <2>1. Throughout(e, file)
    BY <1>2, <1>4, ThroughoutBefore
  <2>. QED
    BY <2>1 DEF Throughout
<1>5. \A e \in Names : \A file \in was'[e] : Throughout(e, file)' =>
         /\ Throughout(e, file) /\ file \in was[e]
         /\ Accounted(e, file)' <=> Accounted(e, file)
         /\ Waiting(e)' <=> Waiting(e)
  BY <1>1, <1>4 DEF Accounted, Waiting
<1>6. NoneIsLost => NoneIsLost'
  BY <1>5 DEF NoneIsLost
<1>. QED
  BY <1>1, <1>3, <1>6 DEF Listing

LEMMA ListingKeeps == Tracked /\ Listing /\ [GuidanceNext]_guidanceVars => Listing'
<1>. SUFFICES ASSUME Tracked, Listing, [GuidanceNext]_guidanceVars PROVE Listing'
  OBVIOUS
<1>1. CASE UNCHANGED profileVars
  BY <1>1 DEF profileVars, disk, Listing, ListedWere, BrokenWere, Malformed, Seen,
              NoneIsLost, Throughout, Accounted, Waiting
<1>2. CASE ProfilesNext
  BY <1>2, AskListing, EachListing, LoadListing, OpenListing, EditListing DEF ProfilesNext
<1>. QED
  BY <1>1, <1>2 DEF GuidanceNext, guidanceVars, Prime, DescribeCommand

LEMMA ListingIsFaithful == Tracked /\ Listing => ListIsFaithful
<1>. SUFFICES ASSUME Tracked, Listing, at = "done", asked.list, code = ExitValid
              PROVE  ListIsFaithful
  BY DEF ListIsFaithful
<1>1. ASSUME NEW e \in Names, Stem[e] \in Plain, folderWas = {"ok"}, NEW file \in was[e],
             Seen(e) \ {NoFile} = {file}, was[e] = {file}
      PROVE  /\ WellFormed(file) => Profile(e, file) \in listed /\ e \notin broken
             /\ file.kind \in {"file", "unreadable"} /\ ~WellFormed(file) => e \in broken
  <2>1. file.kind \in {"file", "unreadable"} => Accounted(e, file)
    <3>1. NoneIsLost
      BY DEF Listing
    <3>. QED
      BY <1>1, <3>1 DEF NoneIsLost, Throughout, Waiting
  <2>2. WellFormed(file) => file.kind = "file" /\ e \notin broken
    <3>1. NoFile.kind = "absent"
      BY DEF NoFile, File
    <3>2. \A f \in Seen(e) : f.kind # "absent" => f = file
      BY <1>1, <3>1
    <3>3. e \in broken => Malformed(e)
      BY <1>1 DEF Listing, BrokenWere
    <3>. QED
      BY <3>2, <3>3 DEF Malformed, WellFormed
  <2>. QED
    BY <2>1, <2>2 DEF Accounted
<1>2. ListedWere /\ BrokenWere
  BY DEF Listing
<1>. QED
  BY <1>1, <1>2 DEF ListIsFaithful, ListedWere, BrokenWere

\* prime --list lists every file that was a profile while it ran and names every
\* file that was none, and nothing that was not so at some time, for every
\* directory, whoever edits it and however often.
THEOREM ListsAreFaithful == GuidanceSpec => []ListIsFaithful
BY PrimeStarts, PrimeKeeps, ListingStarts, ListingKeeps, ListingIsFaithful, PTL DEF GuidanceSpec

=============================================================================
