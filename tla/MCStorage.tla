----------------------------- MODULE MCStorage -----------------------------
(***************************************************************************)
(* Storage for TLC: an object and one below its name, three uploads of    *)
(* two, one and no chunks, one download at a time.                         *)
(***************************************************************************)
EXTENDS Storage, TLC

CONSTANTS u1, u2, u3, r1

MCName == {<<"a">>, <<"a", "b">>}
MCUpload == {u1, u2, u3}
MCSize == (u1 :> 2) @@ (u2 :> 1) @@ (u3 :> 0)
MCReader == {r1}

=============================================================================
