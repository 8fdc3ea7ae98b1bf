---------------------------- MODULE MCDatabase ----------------------------
(***************************************************************************)
(* Database for TLC: two concurrent writers, names a and b, one push key.  *)
(***************************************************************************)
EXTENDS Database

CONSTANTS w1, w2, a, b, k1, x, y

MCWriter == {w1, w2}
MCKey == {a, b, k1}
MCLeaf == {x, y}
MCPushKey == {k1}

Object(f) == [q \in {<<>>} \cup {<<k>> : k \in DOMAIN f} |->
                IF q = <<>> THEN Obj ELSE f[q[1]]]

\* Writes at nested and at disjoint paths, through a scalar, of the root by a
\* scalar, a patch that keeps the other members, a push and a delete.
MCRequests ==
    { [op |-> "put",    path |-> <<a>>,    val |-> Scalar(x)],
      [op |-> "put",    path |-> <<>>,     val |-> Scalar(x)],
      [op |-> "patch",  path |-> <<a>>,    val |-> Object(b :> x)],
      [op |-> "push",   path |-> <<a>>,    val |-> Scalar(x)],
      [op |-> "delete", path |-> <<a, b>>, val |-> EmptyDoc] }

=============================================================================
