------------------------------ MODULE MCPushId ------------------------------
(***************************************************************************)
(* PushId for TLC: binary digits, two for the time and two for the suffix, *)
(* which goes through its four values and over within one millisecond.     *)
(***************************************************************************)
EXTENDS PushId

=============================================================================
