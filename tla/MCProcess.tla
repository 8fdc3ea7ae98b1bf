----------------------------- MODULE MCProcess -----------------------------
(***************************************************************************)
(* Process for TLC: three processes one after, or beside, the other, with  *)
(* the timeout and the sleep of the code; two writes, two keys.            *)
(***************************************************************************)
EXTENDS Process

CONSTANTS w1, w2, k1, k2

MCProc == 1 .. 3
MCWrite == {w1, w2}
MCKey == {k1, k2}

=============================================================================
