--------------------------- MODULE MCRemoteConfig ---------------------------
(***************************************************************************)
(* RemoteConfig for TLC: two keys and two values, in every combination.    *)
(***************************************************************************)
EXTENDS RemoteConfig

CONSTANTS k1, k2, v1, v2

MCKey == {k1, k2}
MCValue == {v1, v2}

=============================================================================
