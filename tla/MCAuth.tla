------------------------------- MODULE MCAuth -------------------------------
(***************************************************************************)
(* Auth for TLC: one address in two spellings, two requests in progress.   *)
(***************************************************************************)
EXTENDS Auth, TLC

CONSTANTS a, A, u1, u2, j1, j2, r1, r2

MCEmail == {a, A}
MCLower == [e \in MCEmail |-> a]
MCUID == {u1, u2}
MCJTI == {j1, j2}
MCRequest == {r1, r2}

=============================================================================
