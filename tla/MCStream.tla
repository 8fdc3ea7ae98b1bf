------------------------------ MODULE MCStream ------------------------------
(***************************************************************************)
(* Stream for TLC: two writers, one client below the node they mostly      *)
(* write, channels of one event.                                           *)
(***************************************************************************)
EXTENDS Stream

CONSTANTS w1, w2, c1, a, b, x

MCWriter == {w1, w2}
MCClient == {c1}
MCPrefix == [c \in MCClient |-> <<a, b>>]
MCKey == {a, b}
MCLeaf == {x}
MCPushKey == {}

Object(f) == [q \in {<<>>} \cup DOMAIN f |-> IF q = <<>> THEN Obj ELSE f[q]]

\* Changes above and below the watched node, and of the root.  The first stores an
\* object that the second edits in place.
MCRequests ==
    { [op |-> "patch",  path |-> <<a>>,       val |-> Object(<<b>> :> Obj @@ <<b, a>> :> x)],
      [op |-> "put",    path |-> <<a, b, b>>, val |-> Scalar(x)],
      [op |-> "delete", path |-> <<>>,        val |-> EmptyDoc] }

=============================================================================
