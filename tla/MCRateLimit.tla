---------------------------- MODULE MCRateLimit ----------------------------
(***************************************************************************)
(* RateLimit for TLC.                                                      *)
(***************************************************************************)
EXTENDS RateLimit

CONSTANTS k1, k2
MCClient == {k1, k2}

=============================================================================
