------------------------------- MODULE MCSave -------------------------------
(***************************************************************************)
(* Instances of Save for TLC.                                              *)
(***************************************************************************)
EXTENDS Save, TLC

CONSTANTS r1, r2, d1, d2, c1, p1

MCPaths == StorePaths \cup {Config}
MCContents == Documents \cup Configs

\* d1 is a document of commit c1; d2 never parsed, and is over a mebibyte.
MCRefOf == (d1 :> c1) @@ (d2 :> NoRef)
MCBig == {d2}

OneRefOf == d1 :> c1

AnyStore == StoresOnDisk
FreshStore == {NoDatabase}

=============================================================================
