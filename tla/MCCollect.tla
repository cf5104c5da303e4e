----------------------------- MODULE MCCollect -----------------------------
(***************************************************************************)
(* An instance of Collect for TLC: five documents with ids in common, three*)
(* of one profile, one of another and one without a profile.               *)
(***************************************************************************)
EXTENDS Collect, TLC

CONSTANTS s1, s2, s3

MCProfileOf == 1 :> 7 @@ 2 :> 7 @@ 3 :> 7 @@ 4 :> 3 @@ 5 :> NoProfile
MCIdsOf == 1 :> <<"a-1", "b-1">> @@ 2 :> <<"a-1">> @@ 3 :> <<"a-1">> @@ 4 :> <<"a-1">>
               @@ 5 :> <<"b-1", "a-1">>

Symmetry == Permutations(Submitters)

=============================================================================
