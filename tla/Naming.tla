------------------------------- MODULE Naming -------------------------------
(***************************************************************************)
(* How the store names a repository (internal/store/name.go): what a name  *)
(* must look like, and the names derived from an origin remote or from the *)
(* directory of a worktree.  A word is a sequence of characters; a name,   *)
(* or the path of a remote, is the sequence of words "/" separates.        *)
(***************************************************************************)
EXTENDS Integers, Sequences, FiniteSets

CONSTANTS
    Alnum,      \* the characters [a-z0-9]
    Capitals,   \* letters that have a lower case
    LowerOf,    \* and the character that is theirs
    Unsafe,     \* characters no name may contain
    MaxSegment, \* 64: the length of a segment
    MaxName     \* 200: the length of a derived name

Marks == {".", "_", "-"}
Chars == Alnum \cup Marks \cup Capitals \cup Unsafe

ASSUME AlphabetAssumption ==
    /\ {"l", "o", "c", "a", "n", "r", "e", "p"} \subseteq Alnum
    /\ Capitals \cap (Alnum \cup Marks) = {}
    /\ Unsafe \cap (Alnum \cup Marks \cup Capitals) = {}
    /\ Marks \cap Alnum = {}
    /\ LowerOf \in [Capitals -> Alnum]

MaxSegments == 3

ASSUME LengthAssumption ==
    /\ MaxSegment \in Nat /\ MaxSegment >= 7
    /\ MaxName \in Nat
    /\ MaxSegments * MaxSegment + (MaxSegments - 1) <= MaxName

noRepo == <<<<"n", "o", "-", "r", "e", "p", "o">>>>
Local == <<"l", "o", "c", "a", "l">>
DotGit == <<".", "g", "i", "t">>

-----------------------------------------------------------------------------
(* What a name must look like.  The pattern admits neither "." nor "..".   *)

ValidSegment(word) ==
    /\ Len(word) \in 1..MaxSegment
    /\ word[1] \in Alnum
    /\ \A i \in 1..Len(word) : word[i] \in Alnum \cup Marks

ValidName(name) ==
    /\ Len(name) \in 1..MaxSegments
    /\ \A i \in 1..Len(name) : ValidSegment(name[i])

\* The length of at most three words joined with "/".
Joined(name) ==
    LET length(i) == IF i <= Len(name) THEN Len(name[i]) ELSE 0
    IN length(1) + length(2) + length(3) + (Len(name) - 1)

-----------------------------------------------------------------------------
(* normalizeSegment and normalizeName                                      *)

Lower(c) == IF c \in Capitals THEN LowerOf[c] ELSE c
ToLower(word) == [i \in 1..Len(word) |-> Lower(word[i])]
Replaced(word) == [i \in 1..Len(word) |-> IF word[i] \in Alnum \cup Marks THEN word[i] ELSE "-"]

\* The elements of s at the positions in S, in order.
Nth(S, k) == CHOOSE i \in S : Cardinality({j \in S : j <= i}) = k
Selected(s, S) == [k \in 1..Cardinality(S) |-> s[Nth(S, k)]]

Collapsed(word) ==
    Selected(word, {i \in 1..Len(word) : ~(i > 1 /\ word[i] = "-" /\ word[i - 1] = "-")})

\* s from the first to the last position in S.
Least(S) == CHOOSE i \in S : \A j \in S : i <= j
Greatest(S) == CHOOSE i \in S : \A j \in S : j <= i
Between(s, S) == IF S = {} THEN <<>> ELSE SubSeq(s, Least(S), Greatest(S))

Trimmed(word) == Between(word, {i \in 1..Len(word) : word[i] \in Alnum})
Truncated(word) == IF Len(word) > MaxSegment THEN SubSeq(word, 1, MaxSegment) ELSE word

\* A plausible bug: the ends are not trimmed.
Untrimmed(word) == Truncated(Collapsed(Replaced(ToLower(word))))

normalizeSegment(word) == Truncated(Trimmed(Collapsed(Replaced(ToLower(word)))))

NoName == <<>> \* the answer that a derivation has no name to give

normalizeName(words) ==
    LET name == [i \in 1..Len(words) |-> normalizeSegment(words[i])]
    IN IF \/ Len(words) \notin 1..MaxSegments
          \/ \E i \in 1..Len(words) : name[i] = <<>>
          \/ name = noRepo
          \/ Joined(name) > MaxName
       THEN NoName
       ELSE name

-----------------------------------------------------------------------------
(* The names derived from a remote and from a directory.  A remote is a    *)
(* URL, whose userinfo and port are not looked at, an scp-like host:path,  *)
(* or one without a host (a local path, or a URL that does not parse).     *)

Words == Seq(Chars)
Remotes == [form : {"url", "scp", "hostless"}, host : Words, path : Seq(Words)]

NoRemote == [form |-> "hostless", host |-> <<>>, path |-> <<<<>>>>]

\* A plausible bug: leading and trailing slashes stay.
Slashed(path) == path

WithoutSlashes(path) == Between(path, {i \in 1..Len(path) : path[i] # <<>>})

\* A URL loses one leading "/" to its host, an scp-like path loses none.
PathOf(remote) ==
    IF remote.form = "url" /\ Len(remote.path) > 1 /\ remote.path[1] = <<>>
    THEN Tail(remote.path)
    ELSE remote.path

EndsInGit(word) ==
    Len(word) >= 4 /\ SubSeq(word, Len(word) - 3, Len(word)) = DotGit

\* The suffix is looked for before the slashes are trimmed.
WithoutGit(path) ==
    [i \in 1..Len(path) |->
        IF i = Len(path) /\ EndsInGit(path[i])
        THEN SubSeq(path[i], 1, Len(path[i]) - 4)
        ELSE path[i]]

\* An scp-like remote has something after its colon.
NothingAfter(remote) == remote.form = "scp" /\ remote.path \in {<<>>, <<<<>>>>}

remoteName(remote) ==
    IF remote.form = "hostless" \/ remote.host = <<>> \/ NothingAfter(remote)
    THEN NoName
    ELSE normalizeName(<<ToLower(remote.host)>> \o WithoutSlashes(WithoutGit(PathOf(remote))))

localName(base) ==
    IF normalizeSegment(base) = <<>> THEN NoName ELSE <<Local, normalizeSegment(base)>>

\* remoteName, then localName, then no-repo.
DerivedName(remote, base) ==
    CASE remoteName(remote) # NoName -> remoteName(remote)
      [] remoteName(remote) = NoName /\ localName(base) # NoName -> localName(base)
      [] OTHER -> noRepo

=============================================================================
