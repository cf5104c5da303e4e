------------------------------ MODULE MCVerify ------------------------------
(***************************************************************************)
(* Instances of Verify for TLC.                                            *)
(***************************************************************************)
EXTENDS Verify, TLC

CONSTANTS c1, c2, t1, f, g, one, two, link

\* f grows from one line to two; g is a link to it, and then a directory.
MCLinesOf == (one :> 1) @@ (two :> 2) @@ (link :> 1)
MCLeadsTo == link :> f
MCTreeOf == (c1 :> ((f :> one) @@ (g :> link))) @@ (c2 :> ((f :> two) @@ (g :> Directory)))

Plain(path, last) ==
    [name |-> [path |-> path, spelling |-> "plain"], last |-> last, usable |-> TRUE]
Odd(path) == [Plain(path, 1) EXCEPT !.name.spelling = "odd"]
Through(path) == [Plain(path, 1) EXCEPT !.name.spelling = "dotdot"]
Unusable(path) == [Plain(path, 0) EXCEPT !.usable = FALSE]

Sound == {Plain(f, 1), Plain(f, 2), Plain(g, 1), Odd(f)}
Unsound == {Through(f), Unusable(f)}

Review(ref, anchors, sound) ==
    [ref |-> ref, anchors |-> anchors, sound |-> sound, advised |-> TRUE]

Submit(doc, strict) == [command |-> "submit", docs |-> <<doc>>, strict |-> strict]

MCJobs ==
    {Submit(Review(c1, <<Plain(f, 1), b>>, TRUE), FALSE) : b \in Sound}
    \cup {Submit(Review(c1, <<a, Plain(f, 1)>>, FALSE), FALSE) : a \in Unsound}
    \cup {Submit(Review(ref, <<>>, TRUE), strict) : ref \in {c1, t1}, strict \in BOOLEAN}
    \cup {Submit(Review(c2, <<Plain(g, 0)>>, TRUE), FALSE)}
    \cup {Submit(Review(ref, <<Plain(f, 1)>>, ref # NoRef), FALSE) : ref \in {NoRef, t1}}
    \cup {[command |-> "collect", docs |-> <<Review(c1, <<a>>, TRUE), Review(c1, b, TRUE)>>,
           strict |-> FALSE] : a \in {Plain(f, 2)}, b \in {<<>>, <<Plain(f, 1)>>}}

OneJob == {Submit(Review(c1, <<Plain(f, 1)>>, TRUE), FALSE)}
LinkJob == {Submit(Review(c1, <<Plain(g, 1)>>, TRUE), FALSE)}

=============================================================================
