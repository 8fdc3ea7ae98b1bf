------------------------------ MODULE JsonTree ------------------------------
(***************************************************************************)
(* The JSON documents database.go stores, and what its mutations do to     *)
(* them.  A document is a function from the paths at which it has a node   *)
(* to what stands there: a member of Leaf (a scalar, null or an array:     *)
(* no path of the API leads inside an array) or the mark Obj of an object. *)
(* The node <<>> is the value itself, so a scalar is a one-node document.  *)
(* Go's in-place edits of nested maps are edits of this function.          *)
(***************************************************************************)
EXTENDS Naturals, Sequences, SequencesExt

CONSTANTS
    Key,      \* path segments: the member names of objects
    Leaf,     \* what may stand at a node that is not an object
    Obj       \* the mark of an object node

ASSUME ObjIsNoLeaf == Obj \notin Leaf

\* splitPath: a URL path, its slashes trimmed, is the sequence of its segments.
Path == Seq(Key)

\* The nodes on the way from the root to q, q itself left out.
Ancestors(q) == {SubSeq(q, 1, n) : n \in 0 .. Len(q) - 1}

\* One of the two paths lies at or above the other.
Comparable(p, q) == IsPrefix(p, q) \/ IsPrefix(q, p)

\* Every node that has a node below it is an object.
IsTree(t) ==
    /\ DOMAIN t \in SUBSET Path
    /\ t \in [DOMAIN t -> Leaf \cup {Obj}]
    /\ <<>> \in DOMAIN t
    /\ \A q \in DOMAIN t : \A a \in Ancestors(q) :
          a \in DOMAIN t /\ t[a] = Obj

\* A document database: its root is an object.
IsDoc(t) == IsTree(t) /\ t[<<>>] = Obj

EmptyDoc == [q \in {<<>>} |-> Obj]

Scalar(x) == [q \in {<<>>} |-> x]

-----------------------------------------------------------------------------
\* What Get finds at p: the subtree there, and the empty function if no node is.
At(t, p) ==
    [r \in {SubSeq(q, Len(p) + 1, Len(q)) : q \in {d \in DOMAIN t : IsPrefix(p, d)}}
        |-> t[p \o r]]

\* The member names of an object.
Fields(v) == {r[1] : r \in {d \in DOMAIN v : Len(d) = 1}}

\* t without the nodes at and below the paths of P.
Prune(t, P) ==
    [q \in {d \in DOMAIN t : \A p \in P : ~ IsPrefix(p, d)} |-> t[q]]

\* ensureParent followed by the assignment of v's nodes at and below p: whatever
\* stands on the way to p becomes an object.
Graft(t, p, v) ==
    LET new == {p \o r : r \in DOMAIN v}
    IN  [q \in DOMAIN t \cup Ancestors(p) \cup new |->
            IF q \in new THEN v[SubSeq(q, Len(p) + 1, Len(q))]
            ELSE IF q \in Ancestors(p) THEN Obj ELSE t[q]]

\* Mutant: a root that is no object is stored as it is.
SetAtAnyRoot(t, p, v) == Graft(Prune(t, {p}), p, v)

\* Set: v replaces what stands at p; a root that is no object becomes {}.
SetAt(t, p, v) ==
    Graft(Prune(t, {p}), p, IF p = <<>> /\ v[<<>>] # Obj THEN EmptyDoc ELSE v)

\* Mutant: a patch replaces its target.
UpdateAtReplacing(t, p, v) == SetAt(t, p, v)

\* Update: every member of the object v replaces the member of that name at p.
UpdateAt(t, p, v) == Graft(Prune(t, {Append(p, k) : k \in Fields(v)}), p, v)

\* Delete: the value at p goes, its ancestors stay; the root is emptied.
DeleteAt(t, p) == IF p = <<>> THEN EmptyDoc ELSE Prune(t, {p})

-----------------------------------------------------------------------------
\* A mutation is a record [op, path, val]; a push has become a put by the time
\* its path is known.  Update takes an object.
IsMutation(r) ==
    /\ r.op \in {"put", "patch", "delete"}
    /\ r.path \in Path /\ IsTree(r.val)
    /\ r.op = "patch" => r.val[<<>>] = Obj

\* The tree after one mutation.
Apply(t, r) ==
    CASE r.op = "put"    -> SetAt(t, r.path, r.val)
      [] r.op = "patch"  -> UpdateAt(t, r.path, r.val)
      [] r.op = "delete" -> DeleteAt(t, r.path)

\* The nodes a mutation gives their value to.
Written(r) ==
    IF r.op = "patch" THEN {Append(r.path, k) : k \in Fields(r.val)} ELSE {r.path}

\* A patch without members writes nothing but still creates its target.
Touched(r) == IF Written(r) = {} THEN {r.path} ELSE Written(r)

\* A mutation disturbs another if it writes above, at or below what that wrote.
Disturbs(r, s) == \E p \in Touched(r), q \in Written(s) : Comparable(p, q)

=============================================================================
