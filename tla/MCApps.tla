------------------------------- MODULE MCApps -------------------------------
(***************************************************************************)
(* Apps for TLC: the default application, one more identifier that is      *)
(* created, deleted and created again, two requests in progress.           *)
(***************************************************************************)
EXTENDS Apps

CONSTANTS default, a, k1, k2, k3, h1, h2

MCId == {default, a}
MCAPIKey == {k1, k2, k3}
MCHandler == {h1, h2}

=============================================================================
