---------------------------- MODULE Setup_proofs ----------------------------
(***************************************************************************)
(* The names Setup.tla gives are safe, and one remote's spellings give one *)
(* name, for every alphabet, every bound on the length of a segment and    *)
(* every remote, directory and config file.                                *)
(***************************************************************************)
EXTENDS Setup, FiniteSetTheorems, SequenceTheorems, WellFoundedInduction, TLAPS

Safe == Alnum \cup Marks

\* What is left of a word by normalizeSegment, unless nothing is.
Tidy(word) == word \in Seq(Safe) /\ (word # <<>> => word[1] \in Alnum)

-----------------------------------------------------------------------------
(* Least and greatest elements                                             *)

LEMMA LeastExists ==
    ASSUME NEW S \in SUBSET Nat, S # {}
    PROVE  Least(S) \in S /\ \A j \in S : Least(S) <= j
  <1>1. PICK i \in S : \A u \in S : ~(<<u, i>> \in OpToRel(<, Nat))
    BY NatLessThanWellFounded, WFMin
  <1>2. \A u \in S : ~(u < i)
    <2> SUFFICES ASSUME NEW u \in S, u < i
                 PROVE  <<u, i>> \in OpToRel(<, Nat)
      BY <1>1
    <2>1. <<u, i>> \in Nat \X Nat /\ <<u, i>>[1] < <<u, i>>[2]
      OBVIOUS
    <2> QED BY <2>1, Zenon DEF OpToRel
  <1>3. \A u \in S : i <= u
    BY <1>2
  <1> QED BY <1>3 DEF Least

LEMMA GreatestExists ==
    ASSUME NEW n \in Nat, NEW S \in SUBSET (1..n), S # {}
    PROVE  Greatest(S) \in S /\ \A j \in S : j <= Greatest(S)
  <1> DEFINE T == {n - j : j \in S}
  <1>1. T \in SUBSET Nat /\ T # {}
    <2>1. \A j \in S : n - j \in Nat
      OBVIOUS
    <2>2. PICK j \in S : TRUE
      OBVIOUS
    <2>3. n - j \in T
      OBVIOUS
    <2> QED BY <2>1, <2>3
  <1>2. Least(T) \in T /\ \A t \in T : Least(T) <= t
    BY <1>1, LeastExists
  <1>3. PICK i \in S : Least(T) = n - i
    BY <1>2
  <1>4. \A j \in S : n - i <= n - j
    BY <1>2, <1>3
  <1>5. \A j \in S : j <= i
    BY <1>4
  <1> QED BY <1>5 DEF Greatest

LEMMA FiniteBelow ==
    ASSUME NEW n \in Nat, NEW S \in SUBSET (1..n)
    PROVE  IsFiniteSet(S) /\ Cardinality(S) \in Nat
  <1>1. 1 \in Int /\ n \in Int
    OBVIOUS
  <1>2. IsFiniteSet(1..n)
    BY <1>1, FS_Interval
  <1>3. IsFiniteSet(S)
    BY <1>2, FS_Subset
  <1> QED BY <1>3, FS_CardinalityType

\* The elements of S up to one of them number k, for each k up to their number.
LEMMA NthExists ==
    ASSUME NEW n \in Nat, NEW S \in SUBSET (1..n), NEW k \in 1..Cardinality(S)
    PROVE  Nth(S, k) \in S
  <1> DEFINE UpTo(i) == {j \in S : j <= i}
             C == {i \in S : Cardinality(UpTo(i)) >= k}
  <1>1. IsFiniteSet(S) /\ Cardinality(S) \in Nat
    BY FiniteBelow
  <1>2. \A i \in S : IsFiniteSet(UpTo(i)) /\ Cardinality(UpTo(i)) \in Nat
    <2> TAKE i \in S
    <2>1. UpTo(i) \in SUBSET (1..n)
      OBVIOUS
    <2> QED BY <2>1, FiniteBelow
  <1>3. S # {}
    BY <1>1, FS_EmptySet
  <1>10. Greatest(S) \in S /\ \A j \in S : j <= Greatest(S)
    BY <1>3, GreatestExists
  <1>4. UpTo(Greatest(S)) = S
    BY <1>10
  <1>5. Greatest(S) \in C
    BY <1>1, <1>10, <1>4
  <1>12. \A i \in S : i \in Nat
    OBVIOUS
  <1>6. C \in SUBSET Nat
    <2>1. \A i \in C : i \in S
      OBVIOUS
    <2> HIDE DEF C
    <2> QED BY <1>12, <2>1
  <1> DEFINE m == Least(C)
  <1>7. m \in C /\ \A i \in C : m <= i
    BY <1>5, <1>6, LeastExists
  <1>8. Cardinality(UpTo(m)) <= k
    <2> SUFFICES ASSUME Cardinality(UpTo(m)) > k
                 PROVE  FALSE
      <3>1. Cardinality(UpTo(m)) \in Nat
        BY <1>2, <1>7
      <3>2. k \in Nat
        BY <1>1
      <3> QED BY <3>1, <3>2
    <2> DEFINE B == UpTo(m) \ {m}
    <2>0. m \in S /\ m \in UpTo(m) /\ IsFiniteSet(UpTo(m)) /\ Cardinality(UpTo(m)) \in Nat
      BY <1>2, <1>7
    <2> HIDE DEF m
    <2>1. IsFiniteSet(B) /\ Cardinality(B) = Cardinality(UpTo(m)) - 1
      BY <2>0, FS_RemoveElement
    <2>6. Cardinality(B) >= k
      BY <2>0, <2>1
    <2>2. B # {}
      BY <2>6, FS_EmptySet
    <2>7. B \in SUBSET (1..n)
      OBVIOUS
    <2>3. PICK g \in B : \A j \in B : j <= g
      BY <2>2, <2>7, GreatestExists
    <2>8. g \in S /\ g < m /\ g \in Nat /\ m \in Nat
      BY <2>0, <2>3
    <2>9. ASSUME NEW j \in S
          PROVE  j <= g <=> (j <= m /\ j # m)
      <3>1. j \in Nat
        BY <1>12
      <3>2. j <= m /\ j # m => j <= g
        BY <2>3
      <3> QED BY <2>8, <3>1, <3>2
    <2>4. UpTo(g) = B
      BY <2>9
    <2>5. g \in C
      BY <2>6, <2>8, <2>4
    <2> QED BY <1>7, <2>5, <2>8
  <1>9. m \in S /\ Cardinality(UpTo(m)) = k
    <2>1. m \in S /\ Cardinality(UpTo(m)) \in Nat /\ Cardinality(UpTo(m)) >= k
      BY <1>2, <1>7
    <2> QED BY <1>8, <2>1
  <1> HIDE DEF m
  <1>11. \E i \in S : Cardinality({j \in S : j <= i}) = k
    BY <1>9
  <1> QED BY <1>11 DEF Nth

LEMMA SelectedType ==
    ASSUME NEW T, NEW s \in Seq(T), NEW S \in SUBSET (1..Len(s))
    PROVE  Selected(s, S) \in Seq(T)
  <1>1. Len(s) \in Nat /\ \A i \in 1..Len(s) : s[i] \in T
    OBVIOUS
  <1>2. Cardinality(S) \in Nat
    BY <1>1, FiniteBelow
  <1>3. \A k \in 1..Cardinality(S) : s[Nth(S, k)] \in T
    <2> TAKE k \in 1..Cardinality(S)
    <2>1. Nth(S, k) \in S
      BY <1>1, NthExists
    <2> QED BY <1>1, <2>1
  <1> QED BY <1>2, <1>3 DEF Selected

\* What is between two positions, and where it starts.
LEMMA BetweenType ==
    ASSUME NEW T, NEW s \in Seq(T), NEW S \in SUBSET (1..Len(s))
    PROVE  /\ Between(s, S) \in Seq(T)
           /\ S # {} => Len(Between(s, S)) > 0 /\ Between(s, S)[1] = s[Least(S)] /\ Least(S) \in S
           /\ S = {} => Between(s, S) = <<>>
  <1>1. CASE S = {}
    BY <1>1 DEF Between
  <1>2. CASE S # {}
    <2>1. Least(S) \in S /\ \A j \in S : Least(S) <= j
      BY <1>2, LeastExists
    <2>2. Greatest(S) \in S
      <3>1. Len(s) \in Nat
        OBVIOUS
      <3> QED BY <1>2, <3>1, GreatestExists
    <2>3. Between(s, S) = SubSeq(s, Least(S), Greatest(S))
      BY <1>2 DEF Between
    <2>4. ASSUME NEW a \in 1..Len(s), NEW b \in 1..Len(s), a <= b
          PROVE  /\ SubSeq(s, a, b) \in Seq(T)
                 /\ Len(SubSeq(s, a, b)) > 0
                 /\ SubSeq(s, a, b)[1] = s[a]
      BY <2>4
    <2> QED BY <1>2, <2>1, <2>2, <2>3, <2>4
  <1> QED BY <1>1, <1>2

-----------------------------------------------------------------------------
(* Segments                                                                *)

LEMMA LoweredType ==
    ASSUME NEW word \in Words
    PROVE  ToLower(word) \in Words
  <1>1. \A c \in Chars : Lower(c) \in Chars
    BY AlphabetAssumption DEF Lower, Chars
  <1> QED BY <1>1 DEF ToLower, Words

LEMMA NormalizedIsTidy ==
    ASSUME NEW word \in Words
    PROVE  Tidy(normalizeSegment(word)) /\ Len(normalizeSegment(word)) <= MaxSegment
  <1> DEFINE replaced == Replaced(ToLower(word))
             collapsed == Collapsed(replaced)
             letters == {i \in 1..Len(collapsed) : collapsed[i] \in Alnum}
             trimmed == Trimmed(collapsed)
  <1>1. ToLower(word) \in Words
    BY LoweredType
  <1>2. replaced \in Seq(Safe)
    <2>1. "-" \in Safe
      BY DEF Safe, Marks
    <2>2. \A w \in Words : Len(w) \in Nat
      BY DEF Words
    <2>3. \A w \in Words : Replaced(w) \in Seq(Safe)
      BY <2>1, <2>2 DEF Replaced, Safe
    <2> QED BY <1>1, <2>3
  <1>3. collapsed \in Seq(Safe)
    BY <1>2, SelectedType DEF Collapsed
  <1>4. trimmed \in Seq(Safe) /\ (trimmed # <<>> => trimmed[1] \in Alnum)
    <2>1. /\ trimmed \in Seq(Safe)
          /\ letters # {} => trimmed[1] = collapsed[Least(letters)] /\ Least(letters) \in letters
          /\ letters = {} => trimmed = <<>>
      BY <1>3, BetweenType DEF Trimmed
    <2> QED BY <2>1
  <1> HIDE DEF trimmed
  <1>5. Tidy(Truncated(trimmed)) /\ Len(Truncated(trimmed)) <= MaxSegment
    <2>1. MaxSegment \in Nat /\ MaxSegment >= 7
      BY LengthAssumption
    <2>2. CASE Len(trimmed) > MaxSegment
      <3>1. Truncated(trimmed) = SubSeq(trimmed, 1, MaxSegment)
        BY <2>2 DEF Truncated
      <3>2. /\ SubSeq(trimmed, 1, MaxSegment) \in Seq(Safe)
            /\ Len(SubSeq(trimmed, 1, MaxSegment)) = MaxSegment
            /\ SubSeq(trimmed, 1, MaxSegment)[1] = trimmed[1]
        BY <1>4, <2>1, <2>2
      <3>3. trimmed # <<>>
        BY <2>1, <2>2
      <3> QED BY <1>4, <2>1, <3>1, <3>2, <3>3 DEF Tidy
    <2>3. CASE ~(Len(trimmed) > MaxSegment)
      BY <1>4, <2>1, <2>3 DEF Truncated, Tidy
    <2> QED BY <2>2, <2>3
  <1> QED BY <1>5 DEF normalizeSegment, trimmed

LEMMA TidyIsValid ==
    ASSUME NEW word, Tidy(word), word # <<>>, Len(word) <= MaxSegment
    PROVE  ValidSegment(word)
  <1>1. MaxSegment \in Nat
    BY LengthAssumption
  <1>2. Len(word) \in 1..MaxSegment
    BY <1>1 DEF Tidy
  <1> QED BY <1>2 DEF Tidy, ValidSegment, Safe

\* The 200 characters of docs/config.md 4.8 bind no name that has the right
\* segments: the comment of ValidateName, and why it checks no length.
THEOREM ValidNamesFit ==
    ASSUME NEW given \in Seq(Words), ValidName(given)
    PROVE  Joined(given) <= MaxName
  <1> DEFINE length(i) == IF i <= Len(given) THEN Len(given[i]) ELSE 0
  <1>1. \A i \in 1..3 : length(i) \in 0..MaxSegment
    BY LengthAssumption DEF ValidName, ValidSegment
  <1>2. Joined(given) = length(1) + length(2) + length(3) + (Len(given) - 1)
    BY DEF Joined
  <1>3. Len(given) \in 1..3
    BY DEF ValidName, MaxSegments
  <1>4. 3 * MaxSegment + 2 <= MaxName
    BY LengthAssumption DEF MaxSegments
  <1>5. MaxSegment \in Nat /\ MaxName \in Nat
    BY LengthAssumption
  <1>6. length(1) \in 0..MaxSegment /\ length(2) \in 0..MaxSegment /\ length(3) \in 0..MaxSegment
    BY <1>1
  <1>7. ASSUME NEW a \in 0..MaxSegment, NEW b \in 0..MaxSegment, NEW c \in 0..MaxSegment,
               NEW n \in 1..3
        PROVE  a + b + c + (n - 1) <= MaxName
    BY <1>4, <1>5
  <1> HIDE DEF length
  <1> QED BY <1>2, <1>3, <1>6, <1>7

-----------------------------------------------------------------------------
(* Derived names                                                           *)

LEMMA NormalizedNameIsValid ==
    ASSUME NEW words \in Seq(Words), normalizeName(words) # NoName
    PROVE  ValidName(normalizeName(words))
  <1> DEFINE given == [i \in 1..Len(words) |-> normalizeSegment(words[i])]
  <1>1. /\ normalizeName(words) = given
        /\ Len(words) \in 1..MaxSegments
        /\ \A i \in 1..Len(words) : given[i] # <<>>
    BY DEF normalizeName
  <1>2. \A i \in 1..Len(words) : ValidSegment(given[i])
    <2> TAKE i \in 1..Len(words)
    <2>1. words[i] \in Words
      OBVIOUS
    <2> QED BY <1>1, <2>1, NormalizedIsTidy, TidyIsValid
  <1>3. Len(given) = Len(words)
    BY <1>1 DEF MaxSegments
  <1> QED BY <1>1, <1>2, <1>3 DEF ValidName

LEMMA ListIsSeq ==
    ASSUME NEW S, NEW n \in Nat, NEW list \in [1..n -> S]
    PROVE  list \in Seq(S) /\ Len(list) = n
  OBVIOUS

LEMMA NormalizedNameIsWords ==
    ASSUME NEW words \in Seq(Words), normalizeName(words) # NoName
    PROVE  normalizeName(words) \in Seq(Words)
  <1> DEFINE given == [i \in 1..Len(words) |-> normalizeSegment(words[i])]
  <1>1. normalizeName(words) = given /\ Len(words) \in Nat
    BY DEF normalizeName
  <1>2. \A i \in 1..Len(words) : normalizeSegment(words[i]) \in Words
    <2> TAKE i \in 1..Len(words)
    <2>1. normalizeSegment(words[i]) \in Seq(Safe)
      BY NormalizedIsTidy DEF Tidy
    <2>2. Safe \subseteq Chars
      BY DEF Safe, Chars
    <2> QED BY <2>1, <2>2 DEF Words
  <1>3. given \in [1..Len(words) -> Words]
    BY <1>2, Zenon
  <1> QED BY <1>1, <1>3, ListIsSeq, Zenon

LEMMA RemotePathType ==
    ASSUME NEW path \in Seq(Words)
    PROVE  WithoutSlashes(WithoutGit(path)) \in Seq(Words)
  <1>1. WithoutGit(path) \in Seq(Words)
    <2>1. \A i \in 1..Len(path) : EndsInGit(path[i]) =>
             SubSeq(path[i], 1, Len(path[i]) - 4) \in Words
      BY DEF Words, EndsInGit
    <2> QED BY <2>1 DEF WithoutGit
  <1> QED BY <1>1, BetweenType DEF WithoutSlashes

LEMMA RemoteNameIsWords ==
    ASSUME NEW remote \in Remotes, remoteName(remote) # NoName
    PROVE  ValidName(remoteName(remote)) /\ remoteName(remote) \in Seq(Words)
  <1> DEFINE path == WithoutSlashes(WithoutGit(PathOf(remote)))
  <1>1. remote.host \in Words /\ remote.path \in Seq(Words)
    BY DEF Remotes
  <1>2. PathOf(remote) \in Seq(Words)
    BY <1>1 DEF PathOf
  <1>3. path \in Seq(Words) /\ ToLower(remote.host) \in Words
    BY <1>1, <1>2, RemotePathType, LoweredType
  <1>4. <<ToLower(remote.host)>> \o path \in Seq(Words)
    BY <1>3
  <1>5. remoteName(remote) = normalizeName(<<ToLower(remote.host)>> \o path)
    BY DEF remoteName
  <1> QED BY <1>4, <1>5, NormalizedNameIsValid, NormalizedNameIsWords

LEMMA LocalNameIsValid ==
    ASSUME NEW base \in Words, localName(base) # NoName
    PROVE  ValidName(localName(base))
  <1>1. localName(base) = <<Local, normalizeSegment(base)>> /\ normalizeSegment(base) # <<>>
    BY DEF localName
  <1>2. ValidSegment(Local)
    <2>1. MaxSegment \in Nat /\ MaxSegment >= 7
      BY LengthAssumption
    <2>2. {"l", "o", "c", "a"} \subseteq Alnum
      BY AlphabetAssumption
    <2>3. Len(Local) = 5 /\ \A i \in 1..5 : Local[i] \in Alnum
      BY <2>2 DEF Local
    <2> QED BY <2>1, <2>3 DEF ValidSegment
  <1>3. ValidSegment(normalizeSegment(base))
    BY <1>1, NormalizedIsTidy, TidyIsValid
  <1> QED BY <1>1, <1>2, <1>3 DEF ValidName, MaxSegments

LEMMA NoRepoIsValid == ValidName(noRepo)
  <1> DEFINE word == <<"n", "o", "-", "r", "e", "p", "o">>
  <1>1. ValidSegment(word)
    <2>1. MaxSegment \in Nat /\ MaxSegment >= 7
      BY LengthAssumption
    <2>2. {"n", "o", "r", "e", "p"} \subseteq Alnum
      BY AlphabetAssumption
    <2>5. "-" \in Marks
      BY DEF Marks
    <2>6. /\ word[1] \in Alnum /\ word[2] \in Alnum /\ word[3] \in Marks
          /\ word[4] \in Alnum /\ word[5] \in Alnum /\ word[6] \in Alnum /\ word[7] \in Alnum
      BY <2>2, <2>5
    <2> HIDE DEF word
    <2>3. \A i \in 1..7 : word[i] \in Alnum \cup Marks
      BY <2>6
    <2> USE DEF word
    <2>4. Len(word) = 7 /\ word[1] \in Alnum
      BY <2>2
    <2> QED BY <2>1, <2>3, <2>4 DEF ValidSegment
  <1> QED BY <1>1 DEF noRepo, ValidName, MaxSegments

\* The name RepoName derives when no override has spoken fits ValidateName,
\* whatever the remote and the directory are called.
THEOREM DerivedNamesAreValid ==
    ASSUME NEW remote \in Remotes, NEW base \in Words
    PROVE  ValidName(DerivedName(remote, base))
  BY RemoteNameIsWords, LocalNameIsValid, NoRepoIsValid DEF DerivedName

-----------------------------------------------------------------------------
(* The spellings of a remote                                               *)

\* A word the rules leave alone, as long as it is short.
PlainWord(word) == word \in Words /\ word # <<>> /\ Plain(word)

LEMMA SelectedWhole ==
    ASSUME NEW T, NEW s \in Seq(T)
    PROVE  Selected(s, 1..Len(s)) = s
  <1> DEFINE n == Len(s)
  <1>1. n \in Nat /\ Cardinality(1..n) = n
    <2>1. n \in Nat
      OBVIOUS
    <2>2. 1 \in Int /\ n \in Int
      BY <2>1
    <2>3. Cardinality(1..n) = IF 1 > n THEN 0 ELSE n - 1 + 1
      BY <2>2, FS_Interval
    <2> QED BY <2>1, <2>3
  <1>2. \A i \in 1..n : Cardinality({j \in 1..n : j <= i}) = i
    <2> TAKE i \in 1..n
    <2>1. {j \in 1..n : j <= i} = 1..i
      OBVIOUS
    <2>2. 1 \in Int /\ i \in Int /\ i >= 1
      BY <1>1
    <2>3. Cardinality(1..i) = IF 1 > i THEN 0 ELSE i - 1 + 1
      BY <2>2, FS_Interval
    <2>4. Cardinality(1..i) = i
      BY <2>2, <2>3
    <2> QED BY <2>1, <2>4, Zenon
  <1>3. \A k \in 1..n : Nth(1..n, k) = k
    <2> TAKE k \in 1..n
    <2>1. \A i \in 1..n : Cardinality({j \in 1..n : j <= i}) = k => i = k
      BY <1>2
    <2>2. Cardinality({j \in 1..n : j <= k}) = k
      BY <1>2
    <2> QED BY <2>1, <2>2 DEF Nth
  <1>4. Selected(s, 1..n) = [k \in 1..n |-> s[k]]
    BY <1>1, <1>3 DEF Selected
  <1> QED BY <1>4

\* What lies between the first and the last of a run of positions.
LEMMA BetweenRun ==
    ASSUME NEW T, NEW s \in Seq(T), NEW a \in 1..Len(s), NEW b \in a..Len(s)
    PROVE  Between(s, a..b) = SubSeq(s, a, b)
  <1>1. a \in a..b /\ b \in a..b
    OBVIOUS
  <1>2. Least(a..b) = a
    BY <1>1 DEF Least
  <1>3. Greatest(a..b) = b
    BY <1>1 DEF Greatest
  <1>4. a..b # {}
    BY <1>1
  <1> HIDE DEF Least
  <1> QED BY <1>2, <1>3, <1>4 DEF Between

LEMMA PlainStays ==
    ASSUME NEW word, PlainWord(word), Len(word) <= MaxSegment
    PROVE  normalizeSegment(word) = word
  <1> DEFINE n == Len(word)
  <1>1. /\ word \in Seq(Chars) /\ n \in Nat /\ n >= 1
        /\ \A i \in 1..n : word[i] \in Alnum
    <2>1. word \in Seq(Chars) /\ word # <<>>
      BY DEF PlainWord, Words
    <2> QED BY <2>1 DEF PlainWord, Plain
  <1>2. word = [i \in 1..n |-> word[i]]
    BY <1>1
  <1>3. ToLower(word) = word
    <2>1. \A i \in 1..n : Lower(word[i]) = word[i]
      BY <1>1, AlphabetAssumption DEF Lower
    <2>2. ToLower(word) = [i \in 1..n |-> word[i]]
      BY <2>1 DEF ToLower
    <2> QED BY <1>2, <2>2
  <1>4. Replaced(word) = word
    <2>1. Replaced(word) = [i \in 1..n |-> word[i]]
      BY <1>1 DEF Replaced
    <2> QED BY <1>2, <2>1
  <1>5. Collapsed(word) = word
    <2>1. "-" \notin Alnum
      BY AlphabetAssumption DEF Marks
    <2>2. {i \in 1..n : ~(i > 1 /\ word[i] = "-" /\ word[i - 1] = "-")} = 1..n
      BY <1>1, <2>1
    <2>3. Collapsed(word) = Selected(word, 1..n)
      BY <2>2 DEF Collapsed
    <2> QED BY <1>1, <2>3, SelectedWhole
  <1>6. Trimmed(word) = word
    <2>1. {i \in 1..n : word[i] \in Alnum} = 1..n
      BY <1>1
    <2>2. Trimmed(word) = Between(word, 1..n)
      BY <2>1 DEF Trimmed
    <2>3. 1 \in 1..Len(word) /\ n \in 1..Len(word)
      BY <1>1
    <2>4. Between(word, 1..n) = SubSeq(word, 1, n)
      BY <1>1, <2>3, BetweenRun
    <2>5. SubSeq(word, 1, n) = word
      BY <1>1, SubSeqFull
    <2> QED BY <2>2, <2>4, <2>5
  <1>7. Truncated(word) = word
    BY <1>1, LengthAssumption DEF Truncated
  <1> QED BY <1>3, <1>4, <1>5, <1>6, <1>7 DEF normalizeSegment

\* A path that is words and, around them, nothing but slashes.
Amid(path, words, a) ==
    /\ path \in Seq(Seq(Chars \cup {".", "g", "i", "t"})) /\ a \in Nat
    /\ Len(words) >= 1 /\ a + Len(words) <= Len(path)
    /\ \A i \in 1..Len(words) : path[a + i] = words[i]
    /\ \A i \in 1..Len(path) : i \notin (a + 1)..(a + Len(words)) => path[i] = <<>>

LEMMA SlashesGo ==
    ASSUME NEW words \in Seq(Words), \A i \in 1..Len(words) : words[i] # <<>>,
           NEW path, NEW a, Amid(path, words, a)
    PROVE  WithoutSlashes(path) = words
  <1> DEFINE T == Seq(Chars \cup {".", "g", "i", "t"})
             m == Len(words)
             n == Len(path)
  <1>1. /\ path \in Seq(T) /\ a \in Nat /\ m \in Nat /\ n \in Nat
        /\ m >= 1 /\ a + m <= n
    BY DEF Amid
  <1>2. {i \in 1..n : path[i] # <<>>} = (a + 1)..(a + m)
    <2>1. ASSUME NEW i \in 1..n PROVE path[i] # <<>> <=> i \in (a + 1)..(a + m)
      <3>1. CASE i \in (a + 1)..(a + m)
        <4>1. i - a \in 1..m /\ a + (i - a) = i
          BY <1>1, <3>1
        <4>2. path[i] = words[i - a]
          BY <4>1 DEF Amid
        <4> QED BY <3>1, <4>1, <4>2
      <3>2. CASE i \notin (a + 1)..(a + m)
        BY <3>2 DEF Amid
      <3> QED BY <3>1, <3>2
    <2>2. (a + 1)..(a + m) \subseteq 1..n
      BY <1>1
    <2> QED BY <2>1, <2>2
  <1>3. WithoutSlashes(path) = Between(path, (a + 1)..(a + m))
    BY <1>2 DEF WithoutSlashes
  <1>4. a + 1 \in 1..n /\ a + m \in (a + 1)..n
    BY <1>1
  <1>5. Between(path, (a + 1)..(a + m)) = SubSeq(path, a + 1, a + m)
    BY <1>1, <1>4, BetweenRun
  <1>6. \A i \in (a + 1)..(a + m) : path[i] \in T
    BY <1>1
  <1>7. /\ SubSeq(path, a + 1, a + m) \in Seq(T)
        /\ Len(SubSeq(path, a + 1, a + m)) = m
        /\ \A i \in 1..m : SubSeq(path, a + 1, a + m)[i] = path[a + 1 + i - 1]
    <2>1. a + 1 \in Int /\ a + m \in Int
      BY <1>1
    <2>2. /\ SubSeq(path, a + 1, a + m) \in Seq(T)
          /\ Len(SubSeq(path, a + 1, a + m)) =
                IF a + 1 <= a + m THEN (a + m) - (a + 1) + 1 ELSE 0
          /\ \A i \in 1 .. (a + m) - (a + 1) + 1 :
                SubSeq(path, a + 1, a + m)[i] = path[a + 1 + i - 1]
      BY <1>6, <2>1, SubSeqProperties
    <2>3. (a + m) - (a + 1) + 1 = m
      BY <1>1
    <2> QED BY <1>1, <2>2, <2>3
  <1>8. words \in Seq(T)
    <2>1. \A w \in Words : w \in T
      BY DEF Words
    <2> QED BY <2>1
  <1>9. \A i \in 1..m : SubSeq(path, a + 1, a + m)[i] = words[i]
    <2> TAKE i \in 1..m
    <2>1. a + 1 + i - 1 = a + i
      BY <1>1
    <2> QED BY <1>7, <2>1 DEF Amid
  <1>10. SubSeq(path, a + 1, a + m) = words
    BY <1>7, <1>8, <1>9, SeqEqual
  <1> QED BY <1>3, <1>5, <1>10

\* The same with the suffix .git still on the last word, when nothing follows it.
Stem(path, words, a) ==
    /\ path \in Seq(Seq(Chars \cup {".", "g", "i", "t"})) /\ a \in Nat
    /\ Len(words) >= 1 /\ a + Len(words) <= Len(path)
    /\ \A i \in 1..Len(words) :
          \/ path[a + i] = words[i]
          \/ /\ a + i = Len(path)
             /\ path[a + i] = words[i] \o DotGit
    /\ \A i \in 1..Len(path) : i \notin (a + 1)..(a + Len(words)) => path[i] = <<>>

LEMMA NoGit ==
    ASSUME NEW word, word = <<>> \/ PlainWord(word)
    PROVE  ~EndsInGit(word)
  <1> SUFFICES ASSUME EndsInGit(word)
               PROVE  FALSE
    OBVIOUS
  <1> DEFINE n == Len(word)
  <1>1. n >= 4 /\ SubSeq(word, n - 3, n) = DotGit
    BY DEF EndsInGit
  <1>2. PlainWord(word)
    <2>1. word = <<>> => n = 0
      OBVIOUS
    <2> QED BY <1>1, <2>1
  <1>3. word \in Seq(Chars) /\ n \in Nat /\ \A i \in 1..n : word[i] \in Alnum
    BY <1>2 DEF PlainWord, Plain, Words
  <1>4. n - 3 \in Int /\ n \in Int /\ \A i \in (n - 3)..n : word[i] \in Chars
    BY <1>1, <1>3
  <1>5. SubSeq(word, n - 3, n)[1] = word[n - 3]
    <2>1. \A i \in 1..n - (n - 3) + 1 : SubSeq(word, n - 3, n)[i] = word[n - 3 + i - 1]
      BY <1>4, SubSeqProperties
    <2>2. 1 \in 1..n - (n - 3) + 1 /\ n - 3 + 1 - 1 = n - 3
      BY <1>3
    <2> QED BY <2>1, <2>2
  <1>6. word[n - 3] = "."
    <2>1. DotGit[1] = "."
      BY DEF DotGit
    <2> QED BY <1>1, <1>5, <2>1, Zenon
  <1>7. "." \in Marks /\ word[n - 3] \in Alnum
    BY <1>1, <1>3 DEF Marks
  <1> QED BY <1>6, <1>7, AlphabetAssumption

LEMMA GitIsFound ==
    ASSUME NEW T, {".", "g", "i", "t"} \subseteq T, NEW word \in Seq(T)
    PROVE  /\ EndsInGit(word \o DotGit)
           /\ SubSeq(word \o DotGit, 1, Len(word \o DotGit) - 4) = word
           /\ word \o DotGit \in Seq(T)
  <1> DEFINE n == Len(word)
             long == word \o DotGit
  <1>1. DotGit \in Seq(T) /\ Len(DotGit) = 4 /\ n \in Nat
    BY DEF DotGit
  <1>2. long \in Seq(T) /\ Len(long) = n + 4
    <2>1. long \in Seq(T) /\ Len(long) = Len(word) + Len(DotGit)
      BY <1>1, ConcatProperties, Zenon
    <2> QED BY <1>1, <2>1
  <1>3. SubSeq(long, n + 1, n + 4) = DotGit
    <2>1. n + 1 \in n + 1..n + Len(DotGit) /\ n + 4 \in n + 1..n + Len(DotGit)
      BY <1>1
    <2>2. SubSeq(long, n + 1, n + 4) = SubSeq(DotGit, n + 1 - n, n + 4 - n)
      <3>1. \A p, q \in n + 1..n + Len(DotGit) : SubSeq(long, p, q) = SubSeq(DotGit, p - n, q - n)
        BY <1>1, SubSeqOfConcat2, Zenon
      <3> QED BY <2>1, <3>1
    <2>3. n + 1 - n = 1 /\ n + 4 - n = Len(DotGit)
      BY <1>1
    <2>4. SubSeq(DotGit, 1, Len(DotGit)) = DotGit
      BY <1>1, SubSeqFull
    <2> QED BY <2>2, <2>3, <2>4
  <1>4. SubSeq(long, 1, n) = word
    <2>1. CASE n = 0
      <3>1. SubSeq(long, 1, n) = <<>>
        BY <2>1, SubSeqEmpty
      <3> QED BY <2>1, <3>1
    <2>2. CASE n # 0
      <3>1. 1 \in 1..n /\ n \in 1..n
        BY <1>1, <2>2
      <3>2. SubSeq(long, 1, n) = SubSeq(word, 1, n)
        BY <1>1, <3>1, SubSeqOfConcat1
      <3> QED BY <3>2, SubSeqFull
    <2> QED BY <2>1, <2>2
  <1>5. /\ Len(long) >= 4
        /\ Len(long) - 3 = n + 1
        /\ Len(long) - 4 = n
    BY <1>1, <1>2
  <1> HIDE DEF long
  <1>6. EndsInGit(long)
    BY <1>2, <1>3, <1>5 DEF EndsInGit
  <1>7. SubSeq(long, 1, Len(long) - 4) = word
    BY <1>4, <1>5
  <1> QED BY <1>2, <1>6, <1>7 DEF long

LEMMA GitGoes ==
    ASSUME NEW words, \A i \in 1..Len(words) : PlainWord(words[i]),
           NEW path, NEW a, Stem(path, words, a), Len(words) \in Nat
    PROVE  Amid(WithoutGit(path), words, a)
  <1> DEFINE T == Chars \cup {".", "g", "i", "t"}
             m == Len(words)
             n == Len(path)
             bare == WithoutGit(path)
             bared(i) == IF i = n /\ EndsInGit(path[i])
                         THEN SubSeq(path[i], 1, Len(path[i]) - 4)
                         ELSE path[i]
  <1>1. path \in Seq(Seq(T)) /\ a \in Nat /\ m >= 1 /\ a + m <= n /\ m \in Nat /\ n \in Nat
    BY DEF Stem
  <1>2. \A i \in 1..m : bared(a + i) = words[i]
    <2> TAKE i \in 1..m
    <2>1. PlainWord(words[i]) /\ words[i] \in Seq(T)
      BY DEF PlainWord, Words
    <2>2. CASE path[a + i] = words[i]
      BY <2>1, <2>2, NoGit
    <2>3. CASE a + i = n /\ path[a + i] = words[i] \o DotGit
      <3>1. /\ EndsInGit(path[a + i])
            /\ SubSeq(path[a + i], 1, Len(path[a + i]) - 4) = words[i]
        BY <2>1, <2>3, GitIsFound
      <3> QED BY <2>3, <3>1
    <2> QED BY <2>2, <2>3 DEF Stem
  <1>3. \A i \in 1..n : i \notin (a + 1)..(a + m) => bared(i) = <<>>
    <2> TAKE i \in 1..n
    <2> HAVE i \notin (a + 1)..(a + m)
    <2>1. path[i] = <<>>
      BY DEF Stem
    <2> QED BY <2>1, NoGit
  <1>4. \A i \in 1..n : bared(i) \in Seq(T)
    <2> TAKE i \in 1..n
    <2>1. CASE i \in (a + 1)..(a + m)
      <3>1. i - a \in 1..m /\ a + (i - a) = i
        BY <1>1, <2>1
      <3>2. bared(i) = words[i - a]
        BY <1>2, <3>1
      <3>3. words[i - a] \in Seq(T)
        BY <3>1 DEF PlainWord, Words
      <3> QED BY <3>2, <3>3
    <2>2. CASE i \notin (a + 1)..(a + m)
      <3>1. <<>> \in Seq(T)
        OBVIOUS
      <3> QED BY <1>3, <2>2, <3>1, Zenon
    <2> QED BY <2>1, <2>2
  <1>5. bare = [i \in 1..n |-> bared(i)]
    BY DEF WithoutGit
  <1> HIDE DEF bared, bare
  <1>6. bare \in Seq(Seq(T)) /\ Len(bare) = n /\ \A i \in 1..n : bare[i] = bared(i)
    <2>1. \A i \in 1..n : bare[i] = bared(i)
      BY <1>5, Zenon
    <2>2. bare \in [1..n -> Seq(T)]
      BY <1>4, <1>5, Zenon
    <2>3. bare \in Seq(Seq(T)) /\ Len(bare) = n
      BY <1>1, <2>2, ListIsSeq, Zenon
    <2> QED BY <2>1, <2>3, Zenon
  <1>7. \A i \in 1..m : a + i \in 1..n
    BY <1>1
  <1>8. \A i \in 1..m : bare[a + i] = words[i]
    BY <1>2, <1>6, <1>7
  <1> QED BY <1>1, <1>3, <1>6, <1>8 DEF Amid, bare

\* The words of a path, the last of them with or without .git.
Line(path, words) ==
    /\ path \in Seq(Seq(Chars \cup {".", "g", "i", "t"}))
    /\ Len(path) = Len(words)
    /\ \A i \in 1..Len(words) :
          path[i] = words[i] \/ (i = Len(words) /\ path[i] = words[i] \o DotGit)

LEMMA LinesAreStems ==
    ASSUME NEW words, Len(words) \in Nat, Len(words) >= 1, NEW path, Line(path, words)
    PROVE  /\ Stem(path, words, 0)
           /\ Stem(<<<<>>>> \o path, words, 1)
  <1> DEFINE T == Chars \cup {".", "g", "i", "t"}
             m == Len(words)
             longer == <<<<>>>> \o path
  <1>1. path \in Seq(Seq(T)) /\ Len(path) = m /\ m \in Nat /\ m >= 1
    BY DEF Line
  <1>2. Stem(path, words, 0)
    BY <1>1 DEF Stem, Line
  <1>3. longer \in Seq(Seq(T)) /\ Len(longer) = m + 1
        /\ longer[1] = <<>> /\ \A i \in 1..m : longer[i + 1] = path[i]
    <2>1. <<<<>>>> \in Seq(Seq(T)) /\ Len(<<<<>>>>) = 1 /\ <<<<>>>>[1] = <<>>
      OBVIOUS
    <2>2. /\ longer \in Seq(Seq(T)) /\ Len(longer) = 1 + m
          /\ \A i \in 1..1 + m : longer[i] = IF i <= 1 THEN <<<<>>>>[i] ELSE path[i - 1]
      BY <1>1, <2>1, ConcatProperties
    <2> HIDE DEF longer
    <2>3. \A i \in 1..m : i + 1 \in 1..1 + m /\ ~(i + 1 <= 1) /\ i + 1 - 1 = i
      BY <1>1
    <2>4. \A i \in 1..m : longer[i + 1] = path[i]
      <3> TAKE i \in 1..m
      <3>1. longer[i + 1] = path[i + 1 - 1]
        BY <2>2, <2>3
      <3> QED BY <2>3, <3>1
    <2>5. longer[1] = <<>> /\ 1 + m = m + 1
      BY <1>1, <2>1, <2>2
    <2> QED BY <2>2, <2>4, <2>5
  <1> HIDE DEF longer
  <1>4. Stem(longer, words, 1)
    <2>1. \A i \in 1..m : longer[1 + i] = words[i]
                          \/ (1 + i = Len(longer) /\ longer[1 + i] = words[i] \o DotGit)
      <3> TAKE i \in 1..m
      <3>1. longer[1 + i] = path[i]
        BY <1>1, <1>3
      <3>2. i = m => 1 + i = Len(longer)
        BY <1>1, <1>3
      <3>3. path[i] = words[i] \/ (i = m /\ path[i] = words[i] \o DotGit)
        BY DEF Line
      <3> QED BY <3>1, <3>2, <3>3, Zenon
    <2>2. \A i \in 1..Len(longer) : i \notin (1 + 1)..(1 + m) => longer[i] = <<>>
      BY <1>1, <1>3
    <2> QED BY <1>1, <1>3, <2>1, <2>2 DEF Stem
  <1> QED BY <1>2, <1>4 DEF longer

LEMMA TrailingIsStem ==
    ASSUME NEW words \in Seq(Words), Len(words) >= 1
    PROVE  Stem(words \o <<<<>>>>, words, 0)
  <1> DEFINE T == Chars \cup {".", "g", "i", "t"}
             m == Len(words)
             longer == words \o <<<<>>>>
  <1>1. words \in Seq(Seq(T)) /\ m \in Nat
    <2>1. Words \subseteq Seq(T)
      BY DEF Words
    <2> QED BY <2>1
  <1>2. <<<<>>>> \in Seq(Seq(T)) /\ Len(<<<<>>>>) = 1 /\ <<<<>>>>[1] = <<>>
    OBVIOUS
  <1>3. /\ longer \in Seq(Seq(T)) /\ Len(longer) = m + 1
        /\ \A i \in 1..m + 1 : longer[i] = IF i <= m THEN words[i] ELSE <<<<>>>>[i - m]
    BY <1>1, <1>2, ConcatProperties
  <1> HIDE DEF longer
  <1>4. \A i \in 1..m : longer[0 + i] = words[i]
    BY <1>1, <1>3
  <1>5. \A i \in 1..m + 1 : i \notin (0 + 1)..(0 + m) => longer[i] = <<>>
    <2> TAKE i \in 1..m + 1
    <2> HAVE i \notin (0 + 1)..(0 + m)
    <2>1. ~(i <= m) /\ i - m = 1
      BY <1>1
    <2> QED BY <1>2, <1>3, <2>1
  <1>6. Stem(longer, words, 0)
    BY <1>1, <1>3, <1>4, <1>5 DEF Stem
  <1> QED BY <1>6 DEF longer

LEMMA LinesBegin ==
    ASSUME NEW words, Len(words) \in Nat, Len(words) >= 1,
           \A i \in 1..Len(words) : PlainWord(words[i]),
           NEW path, Line(path, words)
    PROVE  path[1] # <<>>
  <1> DEFINE T == Chars \cup {".", "g", "i", "t"}
  <1>1. PlainWord(words[1]) /\ 1 \in 1..Len(words)
    OBVIOUS
  <1>2. words[1] \in Seq(T) /\ words[1] # <<>>
    BY <1>1 DEF PlainWord, Words
  <1>3. words[1] \o DotGit # <<>>
    <2>1. EndsInGit(words[1] \o DotGit)
      BY <1>2, GitIsFound
    <2>2. Len(<<>>) = 0
      OBVIOUS
    <2> QED BY <2>1, <2>2 DEF EndsInGit
  <1> QED BY <1>1, <1>2, <1>3 DEF Line

\* Whichever way a remote is written, its path is the words amid slashes.
LEMMA SpellingsAreStems ==
    ASSUME NEW words \in Seq(Words), Len(words) >= 1,
           \A i \in 1..Len(words) : PlainWord(words[i]),
           NEW host, NEW remote \in Spellings(host, words)
    PROVE  \E a : Stem(PathOf(remote), words, a)
  <1> DEFINE T == Chars \cup {".", "g", "i", "t"}
             m == Len(words)
             git == [words EXCEPT ![m] = @ \o DotGit]
  <1>1. m \in Nat /\ words \in Seq(Seq(T))
    <2>1. Words \subseteq Seq(T)
      BY DEF Words
    <2> QED BY <2>1
  <1>2. Line(words, words)
    BY <1>1 DEF Line
  <1>3. Line(git, words)
    <2>1. words[m] \in Seq(T) /\ m \in 1..Len(words)
      BY <1>1
    <2>2. words[m] \o DotGit \in Seq(T)
      BY <2>1, GitIsFound
    <2>3. /\ git \in Seq(Seq(T)) /\ Len(git) = m
          /\ \A i \in 1..m : git[i] = IF i = m THEN words[m] \o DotGit ELSE words[i]
      BY <1>1, <2>1, <2>2, ExceptSeq
    <2> HIDE DEF git
    <2> QED BY <2>3 DEF Line
  <1>4. /\ remote.form \in {"url", "scp"}
        /\ remote.path \in {words, git, <<<<>>>> \o words, <<<<>>>> \o git, words \o <<<<>>>>}
    BY DEF Spellings
  <1> HIDE DEF git
  <1>5. ASSUME NEW path, Line(path, words), remote.path = path
        PROVE  Stem(PathOf(remote), words, 0)
    <2>1. path[1] # <<>>
      BY <1>1, <1>5, LinesBegin
    <2>2. PathOf(remote) = path
      BY <1>5, <2>1 DEF PathOf
    <2> QED BY <1>1, <1>5, <2>2, LinesAreStems
  <1>6. ASSUME NEW path, Line(path, words), remote.path = <<<<>>>> \o path
        PROVE  \E a : Stem(PathOf(remote), words, a)
    <2>1. path \in Seq(Seq(T)) /\ Len(path) = m
      BY <1>6 DEF Line
    <2>2. CASE remote.form = "url"
      <3>1. Tail(<<<<>>>> \o path) = path
        <4> DEFINE longer == <<<<>>>> \o path
        <4>1. <<<<>>>> \in Seq(Seq(T)) /\ Len(<<<<>>>>) = 1
          OBVIOUS
        <4>2. longer \in Seq(Seq(T)) /\ Len(longer) = 1 + m
              /\ \A i \in 1..1 + m : longer[i] = IF i <= 1 THEN <<<<>>>>[i] ELSE path[i - 1]
          BY <2>1, <4>1, ConcatProperties
        <4> HIDE DEF longer
        <4>3. longer # <<>>
          BY <1>1, <4>2
        <4>4. Tail(longer) \in Seq(Seq(T)) /\ Len(Tail(longer)) = Len(longer) - 1
              /\ \A i \in 1..Len(Tail(longer)) : Tail(longer)[i] = longer[i + 1]
          BY <4>2, <4>3, HeadTailProperties
        <4>5. Len(Tail(longer)) = m
          BY <1>1, <4>2, <4>4
        <4>6. \A i \in 1..m : Tail(longer)[i] = path[i]
          <5> TAKE i \in 1..m
          <5>1. i + 1 \in 1..1 + m /\ ~(i + 1 <= 1) /\ i + 1 - 1 = i
            BY <1>1
          <5>2. longer[i + 1] = path[i + 1 - 1]
            BY <4>2, <5>1
          <5>3. Tail(longer)[i] = longer[i + 1]
            BY <4>4, <4>5
          <5> QED BY <5>1, <5>2, <5>3
        <4>7. Tail(longer) = path
          BY <2>1, <4>4, <4>5, <4>6, SeqEqual
        <4> QED BY <4>7 DEF longer
      <3>2. Stem(path, words, 0) /\ Stem(remote.path, words, 1)
        BY <1>1, <1>6, LinesAreStems
      <3>3. PathOf(remote) \in {path, remote.path}
        BY <1>6, <3>1 DEF PathOf
      <3> QED BY <3>2, <3>3
    <2>3. CASE remote.form # "url"
      <3>1. PathOf(remote) = <<<<>>>> \o path
        BY <1>6, <2>3 DEF PathOf
      <3> QED BY <1>1, <1>6, <3>1, LinesAreStems
    <2> QED BY <2>2, <2>3
  <1>7. CASE remote.path = words \o <<<<>>>>
    <2>1. (words \o <<<<>>>>)[1] # <<>>
      <3>1. <<<<>>>> \in Seq(Seq(T))
        OBVIOUS
      <3>2. 1 \in 1..m + Len(<<<<>>>>) /\ 1 <= m
        BY <1>1
      <3>3. (words \o <<<<>>>>)[1] = words[1]
        BY <1>1, <3>1, <3>2, ConcatProperties
      <3>4. PlainWord(words[1])
        BY <1>1
      <3> QED BY <3>3, <3>4 DEF PlainWord
    <2>2. PathOf(remote) = words \o <<<<>>>>
      BY <1>7, <2>1 DEF PathOf
    <2> QED BY <2>2, TrailingIsStem
  <1>8. remote.path \in {words, git} => Stem(PathOf(remote), words, 0)
    BY <1>2, <1>3, <1>5
  <1>9. remote.path \in {<<<<>>>> \o words, <<<<>>>> \o git}
           => \E a : Stem(PathOf(remote), words, a)
    BY <1>2, <1>3, <1>6
  <1> QED BY <1>4, <1>7, <1>8, <1>9

LEMMA SpellingsHaveHosts ==
    ASSUME NEW host, NEW words, NEW remote \in Spellings(host, words)
    PROVE  remote.form # "hostless"
  <1>1. remote.form \in {"url", "scp"}
    BY DEF Spellings
  <1> QED BY <1>1

LEMMA HostIsLowered ==
    ASSUME NEW host, PlainWord(host), NEW words, NEW remote \in Spellings(host, words)
    PROVE  ToLower(remote.host) = host /\ remote.host # <<>>
  <1> DEFINE n == Len(host)
             upper(c) == IF \E d \in Capitals : LowerOf[d] = c
                         THEN CHOOSE d \in Capitals : LowerOf[d] = c
                         ELSE c
             shouted == [i \in 1..n |-> upper(host[i])]
  <1>1. host \in Seq(Chars) /\ n \in Nat /\ n >= 1 /\ \A i \in 1..n : host[i] \in Alnum
    BY DEF PlainWord, Plain, Words
  <1>2. \A c \in Alnum : Lower(c) = c /\ Lower(upper(c)) = c
    <2> TAKE c \in Alnum
    <2>1. c \notin Capitals
      BY AlphabetAssumption
    <2>2. CASE \E d \in Capitals : LowerOf[d] = c
      <3>1. upper(c) \in Capitals /\ LowerOf[upper(c)] = c
        BY <2>2
      <3> QED BY <2>1, <3>1 DEF Lower
    <2>3. CASE ~\E d \in Capitals : LowerOf[d] = c
      BY <2>1, <2>3 DEF Lower
    <2> QED BY <2>2, <2>3
  <1>3. remote.host \in {host, shouted}
    BY DEF Spellings
  <1> HIDE DEF upper
  <1>4. host = [i \in 1..n |-> host[i]]
    BY <1>1
  <1>5. ToLower(host) = host
    <2>1. ToLower(host) = [i \in 1..n |-> host[i]]
      BY <1>1, <1>2 DEF ToLower
    <2> QED BY <1>4, <2>1
  <1>6. Len(shouted) = n /\ \A i \in 1..n : shouted[i] = upper(host[i])
    BY <1>1
  <1>7. ToLower(shouted) = host
    <2>1. \A i \in 1..n : Lower(shouted[i]) = host[i]
      BY <1>1, <1>2, <1>6
    <2> HIDE DEF shouted
    <2>2. ToLower(shouted) = [i \in 1..n |-> host[i]]
      BY <1>6, <2>1 DEF ToLower
    <2> QED BY <1>4, <2>2
  <1>8. shouted # <<>> /\ host # <<>>
    <2>1. Len(<<>>) = 0
      OBVIOUS
    <2> HIDE DEF shouted
    <2> QED BY <1>1, <1>6, <2>1
  <1> HIDE DEF shouted
  <1> QED BY <1>3, <1>5, <1>7, <1>8

LEMMA PlainNameStays ==
    ASSUME NEW given \in Seq(Words), ValidName(given), Len(given) > 1,
           \A i \in 1..Len(given) : PlainWord(given[i])
    PROVE  normalizeName(given) = given
  <1> DEFINE n == Len(given)
             normal == [i \in 1..n |-> normalizeSegment(given[i])]
  <1>1. \A i \in 1..n : normalizeSegment(given[i]) = given[i]
    <2> TAKE i \in 1..n
    <2>1. Len(given[i]) <= MaxSegment
      BY LengthAssumption DEF ValidName, ValidSegment
    <2> QED BY <2>1, PlainStays
  <1>2. normal = given
    <2>1. normal = [i \in 1..n |-> given[i]]
      BY <1>1
    <2> QED BY <2>1
  <1>3. /\ n \in 1..MaxSegments
        /\ \A i \in 1..n : normal[i] # <<>>
    BY <1>2 DEF PlainWord, ValidName
  <1>4. normal # noRepo
    <2>1. Len(noRepo) = 1
      BY DEF noRepo
    <2> QED BY <1>2, <2>1
  <1>5. ~(Joined(normal) > MaxName)
    <2>1. Joined(given) <= MaxName
      BY ValidNamesFit
    <2>2. Joined(given) \in Int /\ MaxName \in Nat
      <3>1. \A i \in 1..3 : i <= n => Len(given[i]) \in Nat
        BY DEF Words
      <3>2. \A i \in 1..3 : (IF i <= n THEN Len(given[i]) ELSE 0) \in Int
        BY <3>1
      <3> QED BY <3>2, LengthAssumption DEF Joined
    <2> QED BY <1>2, <2>1, <2>2
  <1> HIDE DEF normal
  <1>6. normalizeName(given) = normal
    BY <1>3, <1>4, <1>5 DEF normalizeName, normal
  <1> QED BY <1>2, <1>6

\* A remote whose name is plain gives that name however it is written: as a URL
\* or scp-like, with .git or slashes or without, its host in any case.
THEOREM PlainRemotesAgree ==
    ASSUME NEW given \in Seq(Words), ValidName(given), Len(given) > 1,
           \A i \in 1..Len(given) : Plain(given[i]),
           NEW remote \in Spellings(given[1], Tail(given))
    PROVE  remoteName(remote) = given
  <1> DEFINE words == Tail(given)
  <1>1. \A i \in 1..Len(given) : PlainWord(given[i])
    BY DEF ValidName, ValidSegment, PlainWord
  <1>2. /\ words \in Seq(Words) /\ Len(words) = Len(given) - 1
        /\ \A i \in 1..Len(words) : words[i] = given[i + 1]
    <2>1. given # <<>>
      OBVIOUS
    <2> QED BY <2>1, HeadTailProperties, Zenon
  <1>3. Len(words) \in Nat /\ Len(words) >= 1 /\ \A i \in 1..Len(words) : PlainWord(words[i])
    BY <1>1, <1>2
  <1>4. <<given[1]>> \o words = given
    <2>1. given # <<>> /\ Head(given) = given[1]
      OBVIOUS
    <2>2. <<given[1]>> \in Seq(Words) /\ Len(<<given[1]>>) = 1 /\ <<given[1]>>[1] = given[1]
      OBVIOUS
    <2> DEFINE whole == <<given[1]>> \o words
    <2>3. /\ whole \in Seq(Words) /\ Len(whole) = 1 + Len(words)
          /\ \A i \in 1..1 + Len(words) :
                whole[i] = IF i <= 1 THEN <<given[1]>>[i] ELSE words[i - 1]
      BY <1>2, <2>2, ConcatProperties
    <2> HIDE DEF whole, words
    <2>4. Len(whole) = Len(given)
      BY <1>2, <2>3
    <2>5. \A i \in 1..Len(whole) : whole[i] = given[i]
      <3> TAKE i \in 1..Len(whole)
      <3>1. CASE i = 1
        BY <2>2, <2>3, <3>1
      <3>2. CASE i # 1
        <4>1. i - 1 \in 1..Len(words) /\ i - 1 + 1 = i /\ ~(i <= 1)
          BY <1>2, <2>3, <3>2
        <4> QED BY <1>2, <2>3, <4>1
      <3> QED BY <3>1, <3>2
    <2>6. whole = given
      BY <2>3, <2>4, <2>5, SeqEqual
    <2> QED BY <2>6 DEF whole
  <1> HIDE DEF words
  <1>5. remote \in Spellings(given[1], words)
    BY DEF words
  <1>6. PICK a : Stem(PathOf(remote), words, a)
    BY <1>2, <1>3, <1>5, SpellingsAreStems
  <1>7. Amid(WithoutGit(PathOf(remote)), words, a)
    BY <1>3, <1>6, GitGoes
  <1>8. WithoutSlashes(WithoutGit(PathOf(remote))) = words
    BY <1>2, <1>3, <1>7, SlashesGo DEF PlainWord
  <1>9. ToLower(remote.host) = given[1] /\ remote.host # <<>>
    BY <1>1, <1>5, HostIsLowered
  <1>10. remote.form # "hostless"
    BY <1>5, SpellingsHaveHosts
  <1>11. ~NothingAfter(remote)
    <2> SUFFICES ASSUME remote.form = "scp", remote.path \in {<<>>, <<<<>>>>} PROVE FALSE
      BY DEF NothingAfter
    <2> DEFINE path == WithoutGit(remote.path)
    <2>1. Amid(path, words, a)
      BY <1>7 DEF PathOf
    <2>2. CASE remote.path = <<>>
      <3>1. Len(path) = 0
        BY <2>2 DEF WithoutGit
      <3> HIDE DEF path
      <3> QED BY <1>3, <2>1, <3>1 DEF Amid
    <2>3. CASE remote.path = <<<<>>>>
      <3>1. ~EndsInGit(<<>>)
        BY DEF EndsInGit
      <3>2. Len(path) = 1 /\ path[1] = <<>>
        BY <2>3, <3>1 DEF WithoutGit
      <3> HIDE DEF path
      <3>3. a = 0 /\ words[1] = <<>>
        BY <1>3, <2>1, <3>2 DEF Amid
      <3> QED BY <1>3, <3>3 DEF PlainWord
    <2> QED BY <2>2, <2>3
  <1>12. remoteName(remote) = normalizeName(given)
    BY <1>4, <1>8, <1>9, <1>10, <1>11 DEF remoteName
  <1> QED BY <1>1, <1>12, PlainNameStays

-----------------------------------------------------------------------------
(* The run                                                                 *)

\* Past its check every override is valid, and so is the name chosen.
NamesInv ==
    /\ place \in Places
    /\ at \in {"root", "origin"} => \A key \in DOMAIN cfg.repos : ValidName(cfg.repos[key])
    /\ NamesAreSafe

LEMMA SetupStarts == SetupInit => NamesInv
  BY SetupAssumption DEF SetupInit, NamesInv, NamesAreSafe

LEMMA SetupStays == NamesInv /\ [SetupNext]_setupVars => NamesInv'
  <1> SUFFICES ASSUME NamesInv, [SetupNext]_setupVars
               PROVE  NamesInv'
    OBVIOUS
  <1> USE DEF NamesInv, NamesAreSafe, Go
  <1>1. CASE LoadConfig
    BY <1>1 DEF LoadConfig
  <1>2. CASE CheckOverrides
    BY <1>2 DEF CheckOverrides
  <1>3. CASE AskRoot
    BY <1>3, NoRepoIsValid DEF AskRoot
  <1>4. CASE AskOrigin
    <2>1. place.base \in Words /\ place.origin \in Remotes
      BY SetupAssumption
    <2>2. NoRemote \in Remotes
      BY DEF NoRemote, Remotes, Words
    <2>3. ValidName(DerivedName(place.origin, place.base))
          /\ ValidName(DerivedName(NoRemote, place.base))
      BY <2>1, <2>2, DerivedNamesAreValid
    <2> QED BY <1>4, <2>3 DEF AskOrigin
  <1>5. CASE Settled \/ UNCHANGED setupVars
    BY <1>5 DEF Settled, setupVars
  <1> QED BY <1>1, <1>2, <1>3, <1>4, <1>5 DEF SetupNext

\* Every repository name that reaches the file system has the shape ValidateName
\* asks for, be it an override or derived (storeAdapter.Save).
THEOREM NamesAlwaysSafe == SetupSpec => []NamesAreSafe
  <1>1. NamesInv => NamesAreSafe
    BY DEF NamesInv
  <1> QED BY <1>1, SetupStarts, SetupStays, PTL DEF SetupSpec

\* Two clones of one repository file their reviews together, however their
\* origins are written (remoteName and normalizeName of internal/store/name.go).
THEOREM SpellingsAlwaysAgree == SetupSpec => []SpellingsAgree
  <1>1. NamesInv => SpellingsAgree
    <2> SUFFICES ASSUME NamesInv, at = "named", name = remoteName(place.origin), Len(name) > 1,
                        \A i \in 1..Len(name) : Plain(name[i])
                 PROVE  \A remote \in Spellings(name[1], Tail(name)) : remoteName(remote) = name
      BY DEF SpellingsAgree
    <2>1. place.origin \in Remotes /\ name # NoName /\ ValidName(name)
      BY SetupAssumption DEF NamesInv, NamesAreSafe, NoName
    <2>2. name \in Seq(Words)
      BY <2>1, RemoteNameIsWords
    <2> QED BY <2>1, <2>2, PlainRemotesAgree
  <1> QED BY <1>1, SetupStarts, SetupStays, PTL DEF SetupSpec

\* Where a run is says what git has told it.
HeardInv ==
    /\ at = "origin" => inGit = "root"
    /\ NoNameFromSilence

\* A name that no person has chosen is given for an answer of git: that there is
\* no repository or no origin, or what the origin is; never for its silence.
THEOREM NamesAlwaysHeard == SetupSpec => []NoNameFromSilence
  <1>1. SetupInit => HeardInv
    BY DEF SetupInit, HeardInv, NoNameFromSilence
  <1>2. ASSUME HeardInv, [SetupNext]_setupVars PROVE HeardInv'
    <2> USE DEF HeardInv, NoNameFromSilence, Go
    <2>1. CASE LoadConfig
      BY <1>2, <2>1 DEF LoadConfig
    <2>2. CASE CheckOverrides
      BY <1>2, <2>2 DEF CheckOverrides
    <2>3. CASE AskRoot
      BY <1>2, <2>3 DEF AskRoot
    <2>4. CASE AskOrigin
      BY <1>2, <2>4 DEF AskOrigin, Answered, SaysAbsent
    <2>5. CASE Settled \/ UNCHANGED setupVars
      BY <1>2, <2>5 DEF Settled, setupVars
    <2> QED BY <1>2, <2>1, <2>2, <2>3, <2>4, <2>5 DEF SetupNext
  <1>3. HeardInv => NoNameFromSilence
    BY DEF HeardInv
  <1> QED BY <1>1, <1>2, <1>3, PTL DEF SetupSpec

\* Past its first step a run works by what it has loaded, and has accepted it.
LoadedInv ==
    /\ at \in {"load", "check", "root", "origin", "named", "off", "refused"}
    /\ at \notin {"load", "refused"} => Accepted(env, onDisk) /\ cfg = Load(env, onDisk)

\* What an accepted file says is what the run does.
LEMMA LoadObeys ==
    ASSUME NEW e, NEW f, Accepted(e, f), f.found = "object"
    PROVE  /\ ~f.strict /\ ~f.unknown
           /\ f.store = "object" =>
                /\ ~f.storeUnknown
                /\ f.enabled = "false" <=> ~Load(e, f).enabled
                /\ f.repos = "object" => Load(e, f).repos = f.reposSaid
                /\ f.path = "string" /\ e.home = Unset => IsAbs(Load(e, f).path)
           /\ e.home # Unset => Load(e, f).path = e.home
  <1>1. Parsed(e, f)
    BY DEF Accepted
  <1>2. ASSUME f.store = "object"
        PROVE  /\ ~f.storeUnknown
               /\ f.enabled = "false" <=> ~Load(e, f).enabled
               /\ f.repos = "object" => Load(e, f).repos = f.reposSaid
    BY <1>1, <1>2 DEF Parsed, StoreAccepted, Load, Says
  <1>3. ASSUME f.store = "object", f.path = "string", e.home = Unset
        PROVE  IsAbs(Load(e, f).path)
    <2>1. IsAbs(ExpandHome(e, f.pathSaid))
      BY <1>1, <1>3 DEF Parsed, StoreAccepted, PathAccepted
    <2>2. Load(e, f).path = ExpandHome(e, f.pathSaid)
      BY <1>3 DEF Load, Says, HomeCollapsed
    <2> QED BY <2>1, <2>2
  <1>4. ASSUME e.home # Unset PROVE Load(e, f).path = e.home
    BY <1>4 DEF Load, DefaultStorePath, HomeCollapsed
  <1> QED BY <1>1, <1>2, <1>3, <1>4 DEF Parsed

\* A config file that is accepted is obeyed in every key it has, whatever it says
\* and whatever the environment (config.Load).
THEOREM AcceptedAlwaysObeyed == SetupSpec => []AcceptedIsObeyed
  <1>1. SetupInit => LoadedInv
    BY DEF SetupInit, LoadedInv
  <1>2. ASSUME LoadedInv, [SetupNext]_setupVars PROVE LoadedInv'
    <2> USE DEF LoadedInv, Go
    <2>1. CASE LoadConfig
      BY <1>2, <2>1 DEF LoadConfig
    <2>2. CASE CheckOverrides
      BY <1>2, <2>2 DEF CheckOverrides
    <2>3. CASE AskRoot
      BY <1>2, <2>3 DEF AskRoot
    <2>4. CASE AskOrigin
      BY <1>2, <2>4 DEF AskOrigin
    <2>5. CASE Settled \/ UNCHANGED setupVars
      BY <1>2, <2>5 DEF Settled, setupVars
    <2> QED BY <1>2, <2>1, <2>2, <2>3, <2>4, <2>5 DEF SetupNext
  <1>3. ASSUME LoadedInv PROVE AcceptedIsObeyed
    <2> SUFFICES ASSUME at \notin {"load", "refused"}, onDisk.found = "object"
                 PROVE  AcceptedIsObeyed
      BY DEF AcceptedIsObeyed
    <2>1. Accepted(env, onDisk) /\ cfg = Load(env, onDisk)
      BY <1>3 DEF LoadedInv
    <2> QED BY <2>1, LoadObeys DEF AcceptedIsObeyed
  <1> QED BY <1>1, <1>2, <1>3, PTL DEF SetupSpec

=============================================================================
