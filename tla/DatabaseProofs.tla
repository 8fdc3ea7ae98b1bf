--------------------------- MODULE DatabaseProofs ---------------------------
(***************************************************************************)
(* Proofs about database.go, for all names and leaves.  First the laws of  *)
(* JsonTree: mutations keep documents well formed, leave every subtree     *)
(* they do not disturb as it was, and leave at the nodes they write what   *)
(* they would leave there in an empty document.  Then Database, for any    *)
(* number of writers and any requests: its type invariant, the discipline  *)
(* of the lock, what the file and the memory hold, and that it implements  *)
(* TreeStore.                                                              *)
(***************************************************************************)
EXTENDS Database, TLAPS

-----------------------------------------------------------------------------
(* Paths and prefixes. *)

\* A prefix agrees with the longer path at every position it has.
LEMMA PrefixPointwise ==
    ASSUME NEW p \in Path, NEW q \in Path
    PROVE  IsPrefix(p, q) <=> Len(p) <= Len(q) /\ \A i \in 1 .. Len(p) : p[i] = q[i]
BY DEF Path, IsPrefix

\* A path that extends p is p followed by a path.
LEMMA PrefixSplit ==
    ASSUME NEW p \in Path, NEW q \in Path, IsPrefix(p, q)
    PROVE  /\ SubSeq(q, Len(p) + 1, Len(q)) \in Path
           /\ q = p \o SubSeq(q, Len(p) + 1, Len(q))
BY PrefixPointwise DEF Path

\* p followed by a path extends p, and the rest after p is that path.
LEMMA PrefixConcat ==
    ASSUME NEW p \in Path, NEW r \in Path
    PROVE  /\ p \o r \in Path
           /\ Len(p \o r) = Len(p) + Len(r)
           /\ IsPrefix(p, p \o r)
           /\ SubSeq(p \o r, Len(p) + 1, Len(p \o r)) = r
<1>1. p \o r \in Path /\ Len(p \o r) = Len(p) + Len(r)
  BY DEF Path
<1>2. \A i \in 1 .. Len(p) : p[i] = (p \o r)[i]
  BY DEF Path
<1>3. IsPrefix(p, p \o r)
  <2>1. Len(p) \in Nat /\ Len(r) \in Nat
    BY DEF Path
  <2>2. Len(p) <= Len(p \o r)
    BY <1>1, <2>1
  <2>3. ASSUME NEW q \in Path, Len(p) <= Len(q), \A i \in 1 .. Len(p) : p[i] = q[i]
        PROVE  IsPrefix(p, q)
    BY <2>3, PrefixPointwise
  <2> QED BY <1>1, <1>2, <2>2, <2>3
<1>4. SubSeq(p \o r, Len(p) + 1, Len(p \o r)) = r
  BY DEF Path
<1> QED BY <1>1, <1>3, <1>4

\* A prefix of a prefix is a prefix.
LEMMA PrefixTransitive ==
    ASSUME NEW p \in Path, NEW q \in Path, NEW d \in Path, IsPrefix(p, q), IsPrefix(q, d)
    PROVE  IsPrefix(p, d)
<1>1. Len(p) \in Nat /\ Len(q) \in Nat /\ Len(d) \in Nat
  BY DEF Path
<1> QED BY <1>1, PrefixPointwise

\* The prefixes of one path are comparable.
LEMMA PrefixesComparable ==
    ASSUME NEW p \in Path, NEW q \in Path, NEW d \in Path, IsPrefix(p, d), IsPrefix(q, d)
    PROVE  Comparable(p, q)
<1>1. Len(p) \in Nat /\ Len(q) \in Nat /\ Len(d) \in Nat
  BY DEF Path
<1>2. CASE Len(p) <= Len(q)
  BY <1>1, <1>2, PrefixPointwise DEF Comparable
<1>3. CASE Len(q) <= Len(p)
  BY <1>1, <1>3, PrefixPointwise DEF Comparable
<1> QED BY <1>1, <1>2, <1>3

\* The ancestors of a path are its strict prefixes.
LEMMA AncestorsArePrefixes ==
    ASSUME NEW q \in Path, NEW a
    PROVE  a \in Ancestors(q) <=> a \in Path /\ IsPrefix(a, q) /\ Len(a) < Len(q)
<1>1. ASSUME a \in Ancestors(q)
      PROVE  a \in Path /\ IsPrefix(a, q) /\ Len(a) < Len(q)
  <2>1. PICK n \in 0 .. Len(q) - 1 : a = SubSeq(q, 1, n)
    BY <1>1 DEF Ancestors
  <2>2. a \in Path /\ Len(a) = n /\ \A i \in 1 .. n : a[i] = q[i]
    BY <2>1 DEF Path
  <2>3. Len(q) \in Nat
    BY DEF Path
  <2> QED BY <2>2, <2>3, PrefixPointwise
<1>2. ASSUME a \in Path, IsPrefix(a, q), Len(a) < Len(q)
      PROVE  a \in Ancestors(q)
  <2>1. Len(a) \in 0 .. Len(q) - 1
    BY <1>2 DEF Path
  <2>2. a = SubSeq(q, 1, Len(a))
    BY <1>2, PrefixPointwise DEF Path
  <2> QED BY <2>1, <2>2 DEF Ancestors
<1> QED BY <1>1, <1>2

\* The path of a member lies right below the path of its object.
LEMMA MemberPath ==
    ASSUME NEW p \in Path, NEW k \in Key
    PROVE  /\ Append(p, k) \in Path /\ IsPrefix(p, Append(p, k))
           /\ p \in Ancestors(Append(p, k))
<1>1. Append(p, k) \in Path /\ Len(Append(p, k)) = Len(p) + 1 /\ Len(p) \in Nat
  BY DEF Path
<1>2. \A i \in 1 .. Len(p) : p[i] = Append(p, k)[i]
  BY DEF Path
<1>3. Len(p) <= Len(Append(p, k)) /\ Len(p) < Len(Append(p, k))
  BY <1>1
<1>4. ASSUME NEW q \in Path, Len(p) <= Len(q), \A i \in 1 .. Len(p) : p[i] = q[i]
      PROVE  IsPrefix(p, q)
  BY <1>4, PrefixPointwise
<1>5. IsPrefix(p, Append(p, k))
  BY <1>1, <1>2, <1>3, <1>4
<1> QED BY <1>1, <1>3, <1>5, AncestorsArePrefixes

\* An ancestor of an ancestor is an ancestor.
LEMMA AncestorsTransitive ==
    ASSUME NEW q \in Path, NEW p \in Ancestors(q), NEW a \in Ancestors(p)
    PROVE  a \in Ancestors(q)
<1>1. p \in Path /\ IsPrefix(p, q) /\ Len(p) < Len(q)
  BY AncestorsArePrefixes
<1>2. a \in Path /\ IsPrefix(a, p) /\ Len(a) < Len(p)
  BY <1>1, AncestorsArePrefixes
<1>3. Len(a) \in Nat /\ Len(p) \in Nat /\ Len(q) \in Nat
  BY <1>1, <1>2 DEF Path
<1>4. IsPrefix(a, q) /\ Len(a) < Len(q)
  BY <1>1, <1>2, <1>3, PrefixTransitive
<1> QED BY <1>2, <1>4, AncestorsArePrefixes

-----------------------------------------------------------------------------
(* Well-formedness. *)

\* A tree that may have lost its root.
Closed(t) ==
    /\ DOMAIN t \in SUBSET Path
    /\ t \in [DOMAIN t -> Leaf \cup {Obj}]
    /\ \A q \in DOMAIN t : \A a \in Ancestors(q) : a \in DOMAIN t /\ t[a] = Obj

\* The empty object, with which New starts, is a document.
LEMMA EmptyDocIsDoc == IsDoc(EmptyDoc)
<1>1. <<>> \in Path /\ Ancestors(<<>>) = {}
  BY DEF Path, Ancestors
<1> QED BY <1>1 DEF IsDoc, IsTree, EmptyDoc

\* Pruning takes whole subtrees, so it leaves no node without its ancestors.
LEMMA PruneClosed ==
    ASSUME NEW t, IsTree(t), NEW P \in SUBSET Path
    PROVE  Closed(Prune(t, P))
<1> DEFINE u == Prune(t, P)
<1>1. DOMAIN u = {d \in DOMAIN t : \A p \in P : ~ IsPrefix(p, d)}
      /\ \A d \in DOMAIN u : u[d] = t[d]
  BY DEF Prune
<1>2. u \in [DOMAIN u -> Leaf \cup {Obj}] /\ DOMAIN u \in SUBSET Path
  BY <1>1 DEF IsTree, Prune
<1>3. ASSUME NEW q \in DOMAIN u, NEW a \in Ancestors(q)
      PROVE  a \in DOMAIN u /\ u[a] = Obj
  <2>1. q \in Path /\ a \in Path /\ IsPrefix(a, q)
    BY <1>1, <1>3, AncestorsArePrefixes DEF IsTree
  <2>2. a \in DOMAIN t /\ t[a] = Obj
    BY <1>1, <1>3 DEF IsTree
  <2>3. \A p \in P : ~ IsPrefix(p, a)
    BY <1>1, <1>3, <2>1, PrefixTransitive
  <2> QED BY <1>1, <2>2, <2>3
<1> QED BY <1>2, <1>3 DEF Closed

\* Grafting v at p gives a tree if nothing is left below p where v has a leaf.
LEMMA GraftIsTree ==
    ASSUME NEW t, Closed(t), NEW p \in Path, NEW v, IsTree(v),
           \A q \in DOMAIN t, r \in DOMAIN v :
              IsPrefix(p \o r, q) /\ Len(p \o r) < Len(q) => v[r] = Obj
    PROVE  IsTree(Graft(t, p, v))
<1> DEFINE G == Graft(t, p, v)
           new == {p \o r : r \in DOMAIN v}
<1>1. DOMAIN G = DOMAIN t \cup Ancestors(p) \cup new
  BY DEF Graft
<1>2. ASSUME NEW r \in DOMAIN v
      PROVE  G[p \o r] = v[r]
  <2>1. r \in Path
    BY DEF IsTree
  <2>2. p \o r \in new
    OBVIOUS
  <2>3. G[p \o r] = v[SubSeq(p \o r, Len(p) + 1, Len(p \o r))]
    BY <2>2 DEF Graft
  <2> QED BY <2>1, <2>3, PrefixConcat
<1>3. ASSUME NEW q \in Ancestors(p)
      PROVE  q \notin new /\ G[q] = Obj
  <2>1. q \notin new
    <3>1. Len(q) < Len(p) /\ Len(p) \in Nat
      BY AncestorsArePrefixes DEF Path
    <3>2. \A r \in DOMAIN v : Len(p \o r) >= Len(p)
      BY PrefixConcat DEF IsTree, Path
    <3> QED BY <3>1, <3>2
  <2> QED BY <2>1 DEF Graft
<1>4. ASSUME NEW q \in DOMAIN t, q \notin new, q \notin Ancestors(p)
      PROVE  G[q] = t[q]
  BY <1>4 DEF Graft
<1>5. DOMAIN G \in SUBSET Path
  <2>1. new \in SUBSET Path
    BY PrefixConcat DEF IsTree
  <2> QED BY <1>1, <2>1, AncestorsArePrefixes DEF Closed
<1>6. G \in [DOMAIN G -> Leaf \cup {Obj}]
  <2>1. ASSUME NEW q \in DOMAIN G
        PROVE  G[q] \in Leaf \cup {Obj}
    <3>1. CASE q \in new
      BY <1>2, <3>1 DEF IsTree
    <3>2. CASE q \in Ancestors(p)
      BY <1>3, <3>2
    <3>3. CASE q \notin new /\ q \notin Ancestors(p)
      BY <1>1, <1>4, <3>3 DEF Closed
    <3> QED BY <3>1, <3>2, <3>3
  <2>2. G = [q \in DOMAIN G |-> G[q]]
    BY DEF Graft
  <2> QED BY <2>1, <2>2
<1>7. <<>> \in DOMAIN G
  <2>1. CASE p = <<>>
    <3>1. p \o <<>> = <<>> /\ <<>> \in DOMAIN v
      BY <2>1 DEF IsTree
    <3> QED BY <1>1, <3>1
  <2>2. CASE p # <<>>
    <3>1. <<>> = SubSeq(p, 1, 0) /\ 0 \in 0 .. Len(p) - 1
      BY <2>2 DEF Path
    <3> QED BY <1>1, <3>1 DEF Ancestors
  <2> QED BY <2>1, <2>2
<1>8. ASSUME NEW q \in DOMAIN G, NEW a \in Ancestors(q)
      PROVE  a \in DOMAIN G /\ G[a] = Obj
  <2>0. a \in Path /\ q \in Path /\ IsPrefix(a, q) /\ Len(a) < Len(q)
    BY <1>5, <1>8, AncestorsArePrefixes
  <2>1. CASE q \in new
    <3>1. PICK r \in DOMAIN v : q = p \o r
      BY <2>1
    <3>2. IsPrefix(p, q) /\ r \in Path /\ Len(q) = Len(p) + Len(r)
      BY <3>1, PrefixConcat DEF IsTree
    <3>3. CASE IsPrefix(p, a)
      <4> DEFINE b == SubSeq(a, Len(p) + 1, Len(a))
      <4>1. b \in Path /\ a = p \o b /\ Len(a) = Len(p) + Len(b)
        BY <2>0, <3>3, PrefixSplit, PrefixConcat
      <4>2. IsPrefix(b, r) /\ Len(b) < Len(r)
        <5>1. Len(b) \in Nat /\ Len(r) \in Nat /\ Len(p) \in Nat
          BY <3>2, <4>1 DEF Path
        <5>2. \A i \in 1 .. Len(b) : b[i] = a[Len(p) + i] /\ r[i] = q[Len(p) + i]
                                     /\ Len(p) + i \in 1 .. Len(a)
          BY <2>0, <3>1, <3>2, <4>1, <5>1 DEF Path
        <5>3. \A i \in 1 .. Len(a) : a[i] = q[i]
          BY <2>0, PrefixPointwise
        <5>4. Len(b) < Len(r)
          BY <2>0, <3>2, <4>1, <5>1
        <5>5. \A i \in 1 .. Len(b) : b[i] = r[i]
          BY <5>2, <5>3
        <5>6. Len(b) <= Len(r)
          BY <5>1, <5>4
        <5> HIDE DEF b
        <5>7. IsPrefix(b, r)
          BY <3>2, <4>1, <5>5, <5>6, PrefixPointwise
        <5> QED BY <5>4, <5>7
      <4>3. b \in Ancestors(r)
        BY <3>2, <4>1, <4>2, AncestorsArePrefixes
      <4>4. b \in DOMAIN v /\ v[b] = Obj
        BY <4>3 DEF IsTree
      <4>5. a \in new
        BY <4>1, <4>4
      <4> QED BY <1>1, <1>2, <4>1, <4>4, <4>5
    <3>4. CASE ~ IsPrefix(p, a)
      <4>1. IsPrefix(a, p)
        BY <2>0, <3>2, <3>4, PrefixesComparable DEF Comparable
      <4>2. Len(a) < Len(p)
        <5>1. Len(a) \in Nat /\ Len(p) \in Nat
          BY <2>0 DEF Path
        <5>2. Len(a) <= Len(p)
          BY <2>0, <4>1, PrefixPointwise
        <5>3. ASSUME Len(a) = Len(p)
              PROVE  FALSE
          <6>1. \A i \in 1 .. Len(p) : p[i] = a[i]
            BY <2>0, <4>1, <5>3, PrefixPointwise
          <6> QED BY <2>0, <3>4, <5>1, <5>3, <6>1, PrefixPointwise
        <5> QED BY <5>1, <5>2, <5>3
      <4>3. a \in Ancestors(p)
        BY <2>0, <4>1, <4>2, AncestorsArePrefixes
      <4> QED BY <1>1, <1>3, <4>3
    <3> QED BY <3>3, <3>4
  <2>2. CASE q \in Ancestors(p)
    <3>1. IsPrefix(q, p) /\ Len(q) < Len(p)
      BY <2>2, AncestorsArePrefixes
    <3>2. IsPrefix(a, p)
      BY <2>0, <3>1, PrefixTransitive
    <3>3. Len(a) < Len(p)
      BY <2>0, <3>1 DEF Path
    <3>4. a \in Ancestors(p)
      BY <2>0, <3>2, <3>3, AncestorsArePrefixes
    <3> QED BY <1>1, <1>3, <3>4
  <2>3. CASE q \in DOMAIN t
    <3>1. a \in DOMAIN t /\ t[a] = Obj
      BY <1>8, <2>3 DEF Closed
    <3>2. CASE a \in new
      <4>1. PICK r \in DOMAIN v : a = p \o r
        BY <3>2
      <4>2. v[r] = Obj
        BY <2>0, <2>3, <4>1
      <4> QED BY <1>1, <1>2, <3>1, <4>1, <4>2
    <3>3. CASE a \in Ancestors(p)
      BY <1>1, <1>3, <3>3
    <3>4. CASE a \notin new /\ a \notin Ancestors(p)
      BY <1>1, <1>4, <3>1, <3>4
    <3> QED BY <3>2, <3>3, <3>4
  <2> QED BY <1>1, <2>1, <2>2, <2>3
<1> HIDE DEF G
<1> QED BY <1>5, <1>6, <1>7, <1>8 DEF IsTree, G

\* The root of a graft is the root of v if v is grafted there, and an object
\* otherwise.
LEMMA GraftRoot ==
    ASSUME NEW t, NEW p \in Path, NEW v, IsTree(v), p = <<>> => v[<<>>] = Obj
    PROVE  Graft(t, p, v)[<<>>] = Obj
<1> DEFINE new == {p \o r : r \in DOMAIN v}
<1>1. CASE p = <<>>
  <2>1. <<>> \in DOMAIN v /\ p \o <<>> = <<>>
    BY <1>1 DEF IsTree
  <2>2. <<>> \in new
    BY <2>1
  <2>3. SubSeq(<<>>, Len(p) + 1, Len(<<>>)) = <<>>
    BY <1>1
  <2> QED BY <1>1, <2>2, <2>3 DEF Graft
<1>2. CASE p # <<>>
  <2>1. <<>> = SubSeq(p, 1, 0) /\ 0 \in 0 .. Len(p) - 1
    BY <1>2 DEF Path
  <2>2. <<>> \in Ancestors(p)
    BY <2>1 DEF Ancestors
  <2>3. <<>> \notin new
    <3>1. Len(p) > 0 /\ Len(<<>>) = 0
      BY <1>2 DEF Path
    <3>2. \A r \in DOMAIN v : Len(p \o r) >= Len(p)
      BY PrefixConcat DEF IsTree, Path
    <3> QED BY <3>1, <3>2
  <2> QED BY <2>2, <2>3 DEF Graft
<1> QED BY <1>1, <1>2

\* The member names of a document are keys.
LEMMA FieldsAreKeys ==
    ASSUME NEW v, IsTree(v)
    PROVE  Fields(v) \subseteq Key
<1>1. \A r \in DOMAIN v : r \in Path
  BY DEF IsTree
<1> QED BY <1>1 DEF Fields, Path

\* A node of v below its root lies at or below the member it starts with.
LEMMA FirstField ==
    ASSUME NEW v, IsTree(v), NEW d \in DOMAIN v, d # <<>>, NEW p \in Path
    PROVE  /\ d[1] \in Fields(v) /\ Append(p, d[1]) \in Path
           /\ p \o d \in Path /\ IsPrefix(Append(p, d[1]), p \o d)
<1>1. d \in Path /\ Len(d) \in Nat /\ Len(d) >= 1 /\ Len(p) \in Nat /\ d[1] \in Key
  BY DEF IsTree, Path
<1>2. d[1] \in Fields(v)
  <2>1. CASE Len(d) = 1
    BY <2>1 DEF Fields
  <2>2. CASE Len(d) > 1
    <3>1. SubSeq(d, 1, 1) \in Ancestors(d)
      BY <1>1, <2>2 DEF Ancestors
    <3>2. SubSeq(d, 1, 1) \in DOMAIN v
      BY <3>1 DEF IsTree
    <3>3. Len(SubSeq(d, 1, 1)) = 1 /\ SubSeq(d, 1, 1)[1] = d[1]
      BY <1>1 DEF Path
    <3> QED BY <3>2, <3>3 DEF Fields
  <2>3. Len(d) = 1 \/ Len(d) > 1
    <3>1. \A n \in Nat : n >= 1 => n = 1 \/ n > 1
      OBVIOUS
    <3> QED BY <1>1, <3>1
  <2> QED BY <2>1, <2>2, <2>3
<1>3. Append(p, d[1]) \in Path /\ Len(Append(p, d[1])) = Len(p) + 1
  BY <1>1 DEF Path
<1>4. p \o d \in Path /\ Len(p \o d) = Len(p) + Len(d)
  BY <1>1, PrefixConcat
<1>5. \A i \in 1 .. Len(p) + 1 : Append(p, d[1])[i] = (p \o d)[i]
  BY <1>1 DEF Path
<1>6. ASSUME NEW q \in Path, NEW e \in Path, Len(q) <= Len(e),
             \A i \in 1 .. Len(q) : q[i] = e[i]
      PROVE  IsPrefix(q, e)
  BY <1>6, PrefixPointwise
<1>7. IsPrefix(Append(p, d[1]), p \o d)
  <2>1. Len(p) + 1 <= Len(p) + Len(d)
    BY <1>1
  <2> QED BY <1>3, <1>4, <1>5, <1>6, <2>1
<1> QED BY <1>2, <1>3, <1>4, <1>7

\* Every mutation of a document leaves a document.
THEOREM ApplyIsDoc ==
    ASSUME NEW t, IsDoc(t), NEW r, IsMutation(r)
    PROVE  IsDoc(Apply(t, r))
<1> DEFINE p == r.path
           v == r.val
<1>1. p \in Path /\ IsTree(v) /\ IsTree(t)
  BY DEF IsMutation, IsDoc
<1>2. CASE r.op = "put"
  <2> DEFINE w == IF p = <<>> /\ v[<<>>] # Obj THEN EmptyDoc ELSE v
             u == Prune(t, {p})
  <2>1. IsTree(w) /\ (p = <<>> => w[<<>>] = Obj)
    BY <1>1, EmptyDocIsDoc DEF IsDoc, EmptyDoc
  <2>2. Closed(u)
    BY <1>1, PruneClosed
  <2>3. \A q \in DOMAIN u : q \in Path /\ ~ IsPrefix(p, q)
    BY <1>1 DEF Prune, IsTree
  <2>4. ASSUME NEW q \in DOMAIN u, NEW d \in DOMAIN w, IsPrefix(p \o d, q)
        PROVE  FALSE
    <3>1. d \in Path
      BY <2>1 DEF IsTree
    <3>2. p \o d \in Path /\ IsPrefix(p, p \o d)
      BY <1>1, <3>1, PrefixConcat
    <3> QED BY <1>1, <2>3, <2>4, <3>2, PrefixTransitive
  <2>5. IsTree(Graft(u, p, w))
    <3> HIDE DEF u, w, p
    <3> QED BY <1>1, <2>1, <2>2, <2>4, GraftIsTree
  <2>6. Graft(u, p, w)[<<>>] = Obj
    BY <1>1, <2>1, GraftRoot
  <2>7. Apply(t, r) = Graft(u, p, w)
    BY <1>2 DEF Apply, SetAt
  <2> QED BY <2>5, <2>6, <2>7 DEF IsDoc
<1>3. CASE r.op = "patch"
  <2> DEFINE P == {Append(p, k) : k \in Fields(v)}
             u == Prune(t, P)
  <2>0. v[<<>>] = Obj
    BY <1>3 DEF IsMutation
  <2>1. P \in SUBSET Path
    BY <1>1, FieldsAreKeys DEF Path
  <2>2. Closed(u)
    BY <1>1, <2>1, PruneClosed
  <2>3. ASSUME NEW q \in DOMAIN u, NEW d \in DOMAIN v, IsPrefix(p \o d, q)
        PROVE  v[d] = Obj
    <3>1. d \in Path /\ q \in Path /\ \A k \in Fields(v) : ~ IsPrefix(Append(p, k), q)
      BY <1>1 DEF Prune, IsTree
    <3>2. CASE d = <<>>
      BY <2>0, <3>2
    <3>3. CASE d # <<>>
      <4>1. d[1] \in Fields(v) /\ Append(p, d[1]) \in Path
            /\ p \o d \in Path /\ IsPrefix(Append(p, d[1]), p \o d)
        BY <1>1, <3>1, <3>3, FirstField
      <4> QED BY <2>3, <3>1, <4>1, PrefixTransitive
    <3> QED BY <3>2, <3>3
  <2>4. IsTree(Graft(u, p, v))
    <3> HIDE DEF u, P, p, v
    <3> QED BY <1>1, <2>2, <2>3, GraftIsTree
  <2>5. Graft(u, p, v)[<<>>] = Obj
    BY <1>1, <2>0, GraftRoot
  <2>6. Apply(t, r) = Graft(u, p, v)
    BY <1>3 DEF Apply, UpdateAt
  <2> QED BY <2>4, <2>5, <2>6 DEF IsDoc
<1>4. CASE r.op = "delete"
  <2>1. CASE p = <<>>
    BY <1>4, <2>1, EmptyDocIsDoc DEF Apply, DeleteAt
  <2>2. CASE p # <<>>
    <3> DEFINE u == Prune(t, {p})
    <3>1. Closed(u)
      BY <1>1, PruneClosed
    <3>2. <<>> \in DOMAIN t /\ t[<<>>] = Obj
      BY DEF IsDoc, IsTree
    <3>3. ~ IsPrefix(p, <<>>)
      BY <1>1, <2>2 DEF IsPrefix, Path
    <3>4. <<>> \in DOMAIN u /\ u[<<>>] = Obj
      BY <3>2, <3>3 DEF Prune
    <3>5. IsDoc(u)
      BY <3>1, <3>4 DEF IsDoc, IsTree, Closed
    <3>6. Apply(t, r) = u
      BY <1>4, <2>2 DEF Apply, DeleteAt
    <3> QED BY <3>5, <3>6
  <2> QED BY <2>1, <2>2
<1> QED BY <1>2, <1>3, <1>4 DEF IsMutation

-----------------------------------------------------------------------------
(* What a mutation leaves alone, and what it leaves behind. *)

\* Two trees with the same nodes at and below q have the same subtree there.
LEMMA SameSubtree ==
    ASSUME NEW t, NEW u, NEW q \in Path, DOMAIN t \in SUBSET Path, DOMAIN u \in SUBSET Path,
           \A d \in Path : IsPrefix(q, d) =>
              /\ d \in DOMAIN t <=> d \in DOMAIN u
              /\ d \in DOMAIN t => t[d] = u[d]
    PROVE  At(t, q) = At(u, q)
<1> DEFINE T == {d \in DOMAIN t : IsPrefix(q, d)}
           U == {d \in DOMAIN u : IsPrefix(q, d)}
           S(D) == {SubSeq(d, Len(q) + 1, Len(d)) : d \in D}
<1>1. T = U
  OBVIOUS
<1>2. ASSUME NEW r \in S(T)
      PROVE  t[q \o r] = u[q \o r]
  <2>1. PICK d \in T : r = SubSeq(d, Len(q) + 1, Len(d))
    OBVIOUS
  <2>2. d = q \o r /\ d \in Path
    BY <2>1, PrefixSplit
  <2> QED BY <2>1, <2>2
<1> QED BY <1>1, <1>2 DEF At

\* A path at or below p is not on the way to p.
LEMMA PrefixNotBelow ==
    ASSUME NEW p \in Path, NEW d \in Path, IsPrefix(p, d)
    PROVE  d \notin Ancestors(p)
<1>1. Len(p) <= Len(d) /\ Len(p) \in Nat /\ Len(d) \in Nat
  BY PrefixPointwise DEF Path
<1> QED BY <1>1, AncestorsArePrefixes

\* A graft leaves alone a node that is neither on the way to p nor one of v's.
LEMMA GraftElsewhere ==
    ASSUME NEW t, NEW p \in Path, NEW v, IsTree(v), NEW d \in Path,
           \A r \in DOMAIN v : d # p \o r,
           d \notin Ancestors(p)
    PROVE  /\ d \in DOMAIN Graft(t, p, v) <=> d \in DOMAIN t
           /\ d \in DOMAIN t => Graft(t, p, v)[d] = t[d]
BY DEF Graft

\* If two paths are not comparable, what lies below one is not comparable to the
\* other either.
LEMMA PathsComparable ==
    ASSUME NEW p \in Path, NEW q \in Path, NEW d \in Path, IsPrefix(q, d), ~ Comparable(p, q)
    PROVE  ~ IsPrefix(p, d) /\ d \notin Ancestors(p)
<1>1. ~ IsPrefix(p, d)
  BY PrefixesComparable
<1>2. d \notin Ancestors(p)
  BY AncestorsArePrefixes, PrefixTransitive DEF Comparable
<1> QED BY <1>1, <1>2

\* What a mutation touches are paths.
LEMMA TouchedArePaths ==
    ASSUME NEW r, IsMutation(r)
    PROVE  Written(r) \subseteq Path /\ Touched(r) \subseteq Path
<1>1. Written(r) \subseteq Path
  BY FieldsAreKeys DEF IsMutation, Written, Path
<1> QED BY <1>1 DEF Touched, IsMutation

\* A mutation leaves a subtree alone if it touches nothing above, at or below it.
THEOREM ApplyFrame ==
    ASSUME NEW t, IsDoc(t), NEW r, IsMutation(r), NEW q \in Path,
           \A p \in Touched(r) : ~ Comparable(p, q)
    PROVE  At(Apply(t, r), q) = At(t, q)
<1> DEFINE p == r.path
           v == r.val
           u == Apply(t, r)
<1>1. p \in Path /\ IsTree(v) /\ IsTree(t) /\ DOMAIN t \in SUBSET Path
  BY DEF IsMutation, IsDoc, IsTree
<1>2. DOMAIN u \in SUBSET Path
  BY ApplyIsDoc DEF IsDoc, IsTree
<1>3. ASSUME NEW d \in Path, IsPrefix(q, d)
      PROVE  (d \in DOMAIN t <=> d \in DOMAIN u) /\ (d \in DOMAIN t => t[d] = u[d])
  <2>1. CASE r.op = "put"
    <3> DEFINE w == IF p = <<>> /\ v[<<>>] # Obj THEN EmptyDoc ELSE v
               k == Prune(t, {p})
    <3>1. IsTree(w) /\ u = Graft(k, p, w)
      BY <1>1, <2>1, EmptyDocIsDoc DEF Apply, SetAt, IsDoc
    <3>2. ~ Comparable(p, q)
      BY <2>1 DEF Touched, Written
    <3>3. ~ IsPrefix(p, d) /\ d \notin Ancestors(p)
      BY <1>1, <1>3, <3>2, PathsComparable
    <3>4. \A e \in DOMAIN w : d # p \o e
      BY <1>1, <3>1, <3>3, PrefixConcat DEF IsTree
    <3>5. (d \in DOMAIN k <=> d \in DOMAIN t) /\ (d \in DOMAIN t => k[d] = t[d])
      BY <3>3 DEF Prune
    <3> HIDE DEF w, k, u, p
    <3>6. (d \in DOMAIN u <=> d \in DOMAIN k) /\ (d \in DOMAIN k => u[d] = k[d])
      BY <1>1, <1>3, <3>1, <3>3, <3>4, GraftElsewhere
    <3> QED BY <3>5, <3>6
  <2>2. CASE r.op = "patch"
    <3> DEFINE P == {Append(p, f) : f \in Fields(v)}
               k == Prune(t, P)
    <3>1. u = Graft(k, p, v) /\ Written(r) = P /\ P \subseteq Path
      BY <2>2, TouchedArePaths DEF Apply, UpdateAt, Written
    <3>2. \A c \in P : ~ IsPrefix(c, d) /\ d \notin Ancestors(c)
      <4>1. \A c \in P : c \in Path /\ ~ Comparable(c, q)
        BY <3>1 DEF Touched
      <4> QED BY <1>3, <4>1, PathsComparable
    <3>3. d # p /\ d \notin Ancestors(p)
      <4>1. CASE P = {}
        <5>1. ~ Comparable(p, q)
          BY <3>1, <4>1 DEF Touched
        <5> QED BY <1>1, <1>3, <5>1, PathsComparable DEF Comparable
      <4>2. CASE P # {}
        <5>1. PICK f \in Fields(v) : Append(p, f) \in Path
          BY <3>1, <4>2
        <5>2. f \in Key
          BY <1>1, FieldsAreKeys
        <5>3. p \in Ancestors(Append(p, f))
          BY <1>1, <5>2, MemberPath
        <5>4. d \in Ancestors(p) => d \in Ancestors(Append(p, f))
          BY <5>1, <5>3, AncestorsTransitive
        <5> QED BY <3>2, <5>3, <5>4
      <4> QED BY <4>1, <4>2
    <3>4. ASSUME NEW e \in DOMAIN v, d = p \o e
          PROVE  FALSE
      <4>1. CASE e = <<>>
        BY <1>1, <3>3, <3>4, <4>1 DEF Path
      <4>2. CASE e # <<>>
        BY <1>1, <3>2, <3>4, <4>2, FirstField
      <4> QED BY <4>1, <4>2
    <3>5. (d \in DOMAIN k <=> d \in DOMAIN t) /\ (d \in DOMAIN t => k[d] = t[d])
      BY <3>2 DEF Prune
    <3>6. \A e \in DOMAIN v : d # p \o e
      BY <3>4
    <3>7. u = Graft(k, p, v)
      BY <3>1
    <3> HIDE DEF k, u, p, v
    <3>8. (d \in DOMAIN u <=> d \in DOMAIN k) /\ (d \in DOMAIN k => u[d] = k[d])
      BY <1>1, <1>3, <3>3, <3>6, <3>7, GraftElsewhere
    <3> QED BY <3>5, <3>8
  <2>3. CASE r.op = "delete"
    <3>1. ~ Comparable(p, q)
      BY <2>3 DEF Touched, Written
    <3>2. p # <<>>
      BY <3>1 DEF Comparable, IsPrefix, Path
    <3>3. u = Prune(t, {p}) /\ ~ IsPrefix(p, d)
      BY <1>1, <1>3, <2>3, <3>1, <3>2, PathsComparable DEF Apply, DeleteAt
    <3> QED BY <3>3 DEF Prune
  <2> QED BY <2>1, <2>2, <2>3 DEF IsMutation
<1> HIDE DEF u
<1>4. At(t, q) = At(u, q)
  BY <1>1, <1>2, <1>3, SameSubtree
<1> QED BY <1>4 DEF u

\* At the nodes it writes, a mutation leaves the same whatever was there before.
THEOREM ApplyWrites ==
    ASSUME NEW t, IsDoc(t), NEW r, IsMutation(r), NEW q \in Written(r)
    PROVE  At(Apply(t, r), q) = At(Apply(EmptyDoc, r), q)
<1> DEFINE p == r.path
           v == r.val
           a == Apply(t, r)
           b == Apply(EmptyDoc, r)
<1>1. p \in Path /\ q \in Path /\ IsTree(v)
  BY TouchedArePaths DEF IsMutation
<1>2. DOMAIN a \in SUBSET Path /\ DOMAIN b \in SUBSET Path
  BY ApplyIsDoc, EmptyDocIsDoc DEF IsDoc, IsTree
<1>3. ASSUME NEW d \in Path, IsPrefix(q, d)
      PROVE  (d \in DOMAIN a <=> d \in DOMAIN b) /\ (d \in DOMAIN a => a[d] = b[d])
  <2>1. CASE r.op = "put"
    <3>1. q = p
      BY <2>1 DEF Written
    <3>2. d \notin Ancestors(p)
      BY <1>1, <1>3, <3>1, PrefixNotBelow
    <3> QED BY <1>3, <2>1, <3>1, <3>2 DEF Apply, SetAt, Graft, Prune
  <2>2. CASE r.op = "patch"
    <3>1. PICK f \in Fields(v) : q = Append(p, f)
      BY <2>2 DEF Written
    <3>2. f \in Key
      BY <1>1, FieldsAreKeys
    <3>3. IsPrefix(p, q)
      BY <1>1, <3>1, <3>2, MemberPath
    <3>4. d \notin Ancestors(p)
      BY <1>1, <1>3, <3>3, PrefixNotBelow, PrefixTransitive
    <3> QED BY <1>3, <2>2, <3>1, <3>4 DEF Apply, UpdateAt, Graft, Prune
  <2>3. CASE r.op = "delete"
    <3>1. q = p
      BY <2>3 DEF Written
    <3> QED BY <1>3, <2>3, <3>1 DEF Apply, DeleteAt, Prune
  <2> QED BY <2>1, <2>2, <2>3 DEF IsMutation
<1> HIDE DEF a, b
<1>4. At(a, q) = At(b, q)
  BY <1>1, <1>2, <1>3, SameSubtree
<1> QED BY <1>4 DEF a, b

-----------------------------------------------------------------------------
(* The database. *)

\* What reaches the lock is a mutation: a push has become a put.
LEMMA CallsAreMutations == \A r \in Calls : IsMutation(r)
<1> TAKE r \in Calls
<1>1. CASE r \in Requests /\ r.op # "push"
  BY <1>1, RequestsAreCalls
<1>2. CASE r \notin Requests \/ r.op = "push"
  <2>1. PICK c \in {q \in Requests : q.op = "push"} \X PushKey : r = Pushed(c[1], c[2])
    BY <1>2 DEF Calls
  <2>2. c[1] \in Requests /\ c[1].op = "push" /\ c[2] \in Key
    BY <2>1, PushKeysAreKeys
  <2>3. c[1].path \in Path /\ IsTree(c[1].val)
    BY <2>2, RequestsAreCalls
  <2>4. Append(c[1].path, c[2]) \in Path
    BY <2>2, <2>3, MemberPath
  <2> QED BY <2>1, <2>3, <2>4 DEF Pushed, IsMutation
<1> QED BY <1>1, <1>2

\* load builds a document from a missing, an empty or a whole file.
LEMMA LoadedIsDoc ==
    ASSUME NEW f, f = NoDoc \/ IsDoc(f)
    PROVE  IsDoc(Loaded(f))
BY EmptyDocIsDoc DEF Loaded

\* A document is never taken for a missing file.
LEMMA DocIsLoaded ==
    ASSUME NEW t, IsDoc(t)
    PROVE  Loaded(t) = t
<1>1. <<>> \in DOMAIN t
  BY DEF IsDoc, IsTree
<1>2. DOMAIN NoDoc = {}
  BY DEF NoDoc
<1> QED BY <1>1, <1>2 DEF Loaded

-----------------------------------------------------------------------------
(* Type correctness rests on the lock: what a writer renames is a document *)
(* because it alone has written the temporary file since it opened it.     *)

LockInv ==
    /\ OneSaver
    /\ holder # Free => pc[holder] \in Saving
    /\ ~ up => holder = Free /\ ~ strayed /\ \A w \in Writer : pc[w] = "idle"

\* A new database has the types.
LEMMA InitTypeOK == Init => TypeOK
BY EmptyDocIsDoc DEF Init, TypeOK

\* Every step of database.go keeps the types.
LEMMA NextTypeOK == TypeOK /\ LockInv /\ [Next]_vars => TypeOK'
<1> SUFFICES ASSUME TypeOK, LockInv, [Next]_vars PROVE TypeOK'
  OBVIOUS
<1> USE DEF TypeOK
<1>1. ASSUME NEW w \in Writer, NEW r \in Requests, Call(w, r)
      PROVE  TypeOK'
  BY <1>1 DEF Call, Calls
<1>2. ASSUME NEW w \in Writer, NEW r \in Requests, NEW k \in PushKey, CallPush(w, r, k)
      PROVE  TypeOK'
  <2>1. Pushed(r, k) \in Calls
    <3>1. <<r, k>> \in {q \in Requests : q.op = "push"} \X PushKey
      BY <1>2 DEF CallPush
    <3> QED BY <3>1 DEF Calls
  <2> QED BY <1>2, <2>1 DEF CallPush
<1>3. ASSUME NEW w \in Writer, Mutate(w)
      PROVE  TypeOK'
  <2>1. IsDoc(root')
    BY <1>3, CallsAreMutations, ApplyIsDoc DEF Mutate
  <2> QED BY <1>3, <2>1 DEF Mutate, Saving
<1>4. ASSUME NEW w \in Writer, OpenTmp(w)
      PROVE  TypeOK'
  BY <1>4 DEF OpenTmp, Saving
<1>5. ASSUME NEW w \in Writer, WriteTmp(w)
      PROVE  TypeOK'
  BY <1>5 DEF WriteTmp, Saving
<1>6. ASSUME NEW w \in Writer, Commit(w)
      PROVE  TypeOK'
  BY <1>6, EmptyDocIsDoc DEF Commit, LockInv, OneSaver, Saving
<1>7. ASSUME NEW w \in Writer, Publish(w)
      PROVE  TypeOK'
  BY <1>7 DEF Publish
<1>8. ASSUME NEW w \in Writer, SaveFails(w)
      PROVE  TypeOK'
  BY <1>8, EmptyDocIsDoc DEF SaveFails
<1>9. CASE Crash
  BY <1>9, EmptyDocIsDoc DEF Crash
<1>10. CASE Load
  BY <1>10, LoadedIsDoc DEF Load
<1>11. CASE UNCHANGED vars
  BY <1>11 DEF vars
<1> QED BY <1>1, <1>2, <1>3, <1>4, <1>5, <1>6, <1>7, <1>8, <1>9, <1>10, <1>11
        DEF Next, Proceed

\* In a new database nobody holds the lock.
LEMMA InitLock == Init => LockInv
BY DEF Init, LockInv, OneSaver, Saving

\* Every step keeps to the lock.
LEMMA NextLock == TypeOK /\ LockInv /\ [Next]_vars => LockInv'
<1> SUFFICES ASSUME TypeOK, LockInv, [Next]_vars PROVE LockInv'
  OBVIOUS
<1> USE FreeIsNoWriter DEF LockInv, OneSaver, Saving
<1>1. ASSUME NEW w \in Writer, NEW r \in Requests, Call(w, r)
      PROVE  LockInv'
  BY <1>1 DEF Call, TypeOK
<1>2. ASSUME NEW w \in Writer, NEW r \in Requests, NEW k \in PushKey, CallPush(w, r, k)
      PROVE  LockInv'
  BY <1>2 DEF CallPush, TypeOK
<1>3. ASSUME NEW w \in Writer, Mutate(w)
      PROVE  LockInv'
  BY <1>3 DEF Mutate, TypeOK
<1>4. ASSUME NEW w \in Writer, OpenTmp(w)
      PROVE  LockInv'
  BY <1>4 DEF OpenTmp, TypeOK
<1>5. ASSUME NEW w \in Writer, WriteTmp(w)
      PROVE  LockInv'
  BY <1>5 DEF WriteTmp, TypeOK
<1>6. ASSUME NEW w \in Writer, Commit(w)
      PROVE  LockInv'
  BY <1>6 DEF Commit, TypeOK
<1>7. ASSUME NEW w \in Writer, Publish(w)
      PROVE  LockInv'
  BY <1>7 DEF Publish, TypeOK
<1>8. ASSUME NEW w \in Writer, SaveFails(w)
      PROVE  LockInv'
  BY <1>8 DEF SaveFails, TypeOK
<1>9. CASE Crash
  BY <1>9 DEF Crash
<1>10. CASE Load
  BY <1>10 DEF Load
<1>11. CASE UNCHANGED vars
  BY <1>11 DEF vars
<1> QED BY <1>1, <1>2, <1>3, <1>4, <1>5, <1>6, <1>7, <1>8, <1>9, <1>10, <1>11
        DEF Next, Proceed

\* Documents stay documents, calls stay calls, files are whole or missing.
THEOREM TypeCorrect == Spec => []TypeOK
<1>1. Init => TypeOK /\ LockInv
  BY InitTypeOK, InitLock
<1>2. TypeOK /\ LockInv /\ [Next]_vars => TypeOK' /\ LockInv'
  BY NextTypeOK, NextLock
<1> QED BY <1>1, <1>2, PTL DEF Spec

\* The file is only ever replaced by the whole document of the writer that holds
\* the lock (save, database.go:57-71).
THEOREM LockDiscipline == Spec => []OneSaver
<1>1. Init => TypeOK /\ LockInv
  BY InitTypeOK, InitLock
<1>2. TypeOK /\ LockInv /\ [Next]_vars => TypeOK' /\ LockInv'
  BY NextTypeOK, NextLock
<1>3. LockInv => OneSaver
  BY DEF LockInv
<1> QED BY <1>1, <1>2, <1>3, PTL DEF Spec

-----------------------------------------------------------------------------
(* What the file holds.  The invariant speaks of the document the lock's   *)
(* holder found, because during a save the file lags behind the memory.    *)

FileInv == up /\ ~ strayed => FileDoc = IF holder = Free THEN root ELSE prior

StandingInv == SavedCallsStand

IInv == TypeOK /\ LockInv /\ FileInv /\ StandingInv

\* The invariant holds in a new database.
LEMMA InitInv == Init => IInv
<1> SUFFICES ASSUME Init PROVE IInv
  OBVIOUS
<1>1. TypeOK /\ LockInv
  BY InitTypeOK, InitLock
<1>2. FileInv
  BY DEF Init, FileInv, FileDoc, Loaded
<1>3. StandingInv
  BY DEF Init, StandingInv, SavedCallsStand
<1> QED BY <1>1, <1>2, <1>3 DEF IInv

\* Every step keeps memory and file together, but for a running or a failed save.
LEMMA NextFile == TypeOK /\ LockInv /\ FileInv /\ [Next]_vars => FileInv'
<1> SUFFICES ASSUME TypeOK, LockInv, FileInv, [Next]_vars PROVE FileInv'
  OBVIOUS
<1> USE FreeIsNoWriter DEF FileInv, FileDoc
<1>1. ASSUME NEW w \in Writer, NEW r \in Requests, Call(w, r)
      PROVE  FileInv'
  BY <1>1 DEF Call
<1>2. ASSUME NEW w \in Writer, NEW r \in Requests, NEW k \in PushKey, CallPush(w, r, k)
      PROVE  FileInv'
  BY <1>2 DEF CallPush
<1>3. ASSUME NEW w \in Writer, Mutate(w)
      PROVE  FileInv'
  BY <1>3 DEF Mutate
<1>4. ASSUME NEW w \in Writer, OpenTmp(w)
      PROVE  FileInv'
  BY <1>4 DEF OpenTmp
<1>5. ASSUME NEW w \in Writer, WriteTmp(w)
      PROVE  FileInv'
  BY <1>5 DEF WriteTmp
<1>6. ASSUME NEW w \in Writer, Commit(w)
      PROVE  FileInv'
  <2>1. file' = root /\ Loaded(root) = root
    BY <1>6, DocIsLoaded DEF Commit, LockInv, OneSaver, Saving, TypeOK
  <2> QED BY <1>6, <2>1 DEF Commit
<1>7. ASSUME NEW w \in Writer, Publish(w)
      PROVE  FileInv'
  BY <1>7 DEF Publish
<1>8. ASSUME NEW w \in Writer, SaveFails(w)
      PROVE  FileInv'
  BY <1>8 DEF SaveFails
<1>9. CASE Crash
  BY <1>9 DEF Crash
<1>10. CASE Load
  BY <1>10 DEF Load, LockInv
<1>11. CASE UNCHANGED vars
  BY <1>11 DEF vars
<1> QED BY <1>1, <1>2, <1>3, <1>4, <1>5, <1>6, <1>7, <1>8, <1>9, <1>10, <1>11
        DEF Next, Proceed

\* A call stands through a mutation that does not disturb it ...
LEMMA UndisturbedHolds ==
    ASSUME NEW t, IsDoc(t), NEW r, IsMutation(r), NEW s, IsMutation(s),
           ~ Disturbs(r, s), Holds(t, s)
    PROVE  Holds(Apply(t, r), s)
<1> SUFFICES ASSUME NEW q \in Written(s)
             PROVE  At(Apply(t, r), q) = At(Apply(EmptyDoc, s), q)
  BY DEF Holds
<1>1. At(t, q) = At(Apply(EmptyDoc, s), q)
  BY DEF Holds
<1>2. q \in Path /\ \A p \in Touched(r) : ~ Comparable(p, q)
  BY TouchedArePaths DEF Disturbs
<1>3. At(Apply(t, r), q) = At(t, q)
  BY <1>2, ApplyFrame
<1> QED BY <1>1, <1>3

\* ... and a mutation stands right after itself.
LEMMA AppliedHolds ==
    ASSUME NEW t, IsDoc(t), NEW r, IsMutation(r)
    PROVE  Holds(Apply(t, r), r)
BY ApplyWrites DEF Holds

\* Every step keeps the saved calls it does not touch.
LEMMA NextStanding == TypeOK /\ LockInv /\ StandingInv /\ [Next]_vars => StandingInv'
<1> SUFFICES ASSUME TypeOK, LockInv, StandingInv, [Next]_vars PROVE StandingInv'
  OBVIOUS
<1> USE DEF StandingInv, SavedCallsStand, FileDoc
<1>1. ASSUME NEW w \in Writer, NEW r \in Requests, Call(w, r)
      PROVE  StandingInv'
  BY <1>1 DEF Call
<1>2. ASSUME NEW w \in Writer, NEW r \in Requests, NEW k \in PushKey, CallPush(w, r, k)
      PROVE  StandingInv'
  BY <1>2 DEF CallPush
<1>3. ASSUME NEW w \in Writer, Mutate(w)
      PROVE  StandingInv'
  <2>1. IsDoc(root) /\ IsMutation(req[w]) /\ root' = Apply(root, req[w]) /\ up /\ up'
    BY <1>3, CallsAreMutations DEF Mutate, TypeOK
  <2>2. ASSUME NEW s \in standing'
        PROVE  Holds(Loaded(file)', s) /\ Holds(root', s)
    <3>1. s \in standing /\ ~ Disturbs(req[w], s) /\ IsMutation(s)
      BY <1>3, CallsAreMutations DEF Mutate, TypeOK
    <3>2. Holds(root', s)
      BY <2>1, <3>1, UndisturbedHolds
    <3>3. Holds(Loaded(file)', s)
      BY <1>3, <3>1 DEF Mutate
    <3> QED BY <3>2, <3>3
  <2> QED BY <2>2
<1>4. ASSUME NEW w \in Writer, OpenTmp(w)
      PROVE  StandingInv'
  BY <1>4 DEF OpenTmp
<1>5. ASSUME NEW w \in Writer, WriteTmp(w)
      PROVE  StandingInv'
  BY <1>5 DEF WriteTmp
<1>6. ASSUME NEW w \in Writer, Commit(w)
      PROVE  StandingInv'
  <2>1. file' = root /\ Loaded(root) = root /\ root' = root /\ up
    BY <1>6, DocIsLoaded DEF Commit, LockInv, OneSaver, Saving, TypeOK
  <2>2. Holds(root, req[w])
    <3>1. root = Apply(prior, req[w]) /\ IsDoc(prior) /\ IsMutation(req[w])
      BY <1>6, CallsAreMutations DEF Commit, LockInv, OneSaver, Saving, TypeOK
    <3> QED BY <3>1, AppliedHolds
  <2>3. \A s \in standing' : Holds(root, s)
    BY <1>6, <2>1, <2>2 DEF Commit
  <2> QED BY <2>1, <2>3
<1>7. ASSUME NEW w \in Writer, Publish(w)
      PROVE  StandingInv'
  BY <1>7 DEF Publish
<1>8. ASSUME NEW w \in Writer, SaveFails(w)
      PROVE  StandingInv'
  BY <1>8 DEF SaveFails
<1>9. CASE Crash
  BY <1>9 DEF Crash
<1>10. CASE Load
  BY <1>10 DEF Load
<1>11. CASE UNCHANGED vars
  BY <1>11 DEF vars
<1> QED BY <1>1, <1>2, <1>3, <1>4, <1>5, <1>6, <1>7, <1>8, <1>9, <1>10, <1>11
        DEF Next, Proceed

\* Every step keeps the invariant.
LEMMA NextInv == IInv /\ [Next]_vars => IInv'
BY NextTypeOK, NextLock, NextFile, NextStanding DEF IInv

\* The invariant holds in every reachable state.
LEMMA Invariance == Spec => []IInv
BY InitInv, NextInv, PTL DEF Spec

\* A saved mutation is in the file and in memory until a later one touches what
\* it wrote, through failures, crashes and restarts (save and load).
THEOREM Durability == Spec => []SavedCallsStand
<1>1. IInv => SavedCallsStand
  BY DEF IInv, StandingInv
<1> QED BY <1>1, Invariance, PTL

\* Only a failed save makes the file and the memory differ outside the lock.
THEOREM FileFollowsMemory == Spec => []MemoryMatchesFile
<1>1. IInv => MemoryMatchesFile
  BY DEF IInv, FileInv, MemoryMatchesFile
<1> QED BY <1>1, Invariance, PTL

-----------------------------------------------------------------------------
(* Refinement.  Mutations map to the store's Write and Fail at the moment  *)
(* the lock is released, a crash to its Restart, and everything else that  *)
(* happens under the lock or while the process is down to a stutter.       *)

\* The store's instance edits trees as Database does.
LEMMA SameOperators ==
    Store!EmptyDoc = EmptyDoc /\ \A t, r : Store!Apply(t, r) = Apply(t, r)
<1>1. Store!EmptyDoc = EmptyDoc
  BY DEF Store!EmptyDoc, EmptyDoc
<1>2. \A t, p, v : Store!Graft(t, p, v) = Graft(t, p, v)
  BY DEF Store!Graft, Graft, Store!Ancestors, Ancestors
<1>3. \A t, P : Store!Prune(t, P) = Prune(t, P)
  BY DEF Store!Prune, Prune, Store!IsPrefix, IsPrefix
<1>4. \A t, p, v : Store!SetAt(t, p, v) = SetAt(t, p, v)
  BY <1>1, <1>2, <1>3 DEF Store!SetAt, SetAt
<1>5. \A t, p, v : Store!UpdateAt(t, p, v) = UpdateAt(t, p, v)
  BY <1>2, <1>3 DEF Store!UpdateAt, UpdateAt, Store!Fields, Fields
<1>6. \A t, p : Store!DeleteAt(t, p) = DeleteAt(t, p)
  BY <1>1, <1>3 DEF Store!DeleteAt, DeleteAt
<1> QED BY <1>1, <1>4, <1>5, <1>6 DEF Store!Apply, Apply

\* A new database is a new abstract store.
LEMMA InitRefines == Init => Store!Init
<1> SUFFICES ASSUME Init PROVE Store!Init
  OBVIOUS
<1>1. FileDoc = EmptyDoc
  BY DEF Init, FileDoc, Loaded
<1>2. \A w \in Writer : pc[w] = "idle" /\ pc[w] \notin Saving
  BY DEF Init, Saving
<1> QED BY <1>1, <1>2, SameOperators DEF Init, Store!Init, Saving

\* Every step of the database is a step of the abstract store, or leaves it as it is.
LEMMA NextRefines == IInv /\ [Next]_vars => [Store!Next]_(Store!vars)
<1> SUFFICES ASSUME IInv, [Next]_vars PROVE [Store!Next]_(Store!vars)
  OBVIOUS
<1> USE FreeIsNoWriter DEF IInv, TypeOK, Saving
<1>1. ASSUME NEW w \in Writer, NEW r \in Requests, Call(w, r)
      PROVE  Store!Call(w, r)
  BY <1>1 DEF Call, Store!Call, FileDoc
<1>2. ASSUME NEW w \in Writer, NEW r \in Requests, NEW k \in PushKey, CallPush(w, r, k)
      PROVE  Store!CallPush(w, r, k)
  BY <1>2 DEF CallPush, Store!CallPush, Pushed, FileDoc
<1>3. ASSUME NEW w \in Writer, Mutate(w)
      PROVE  UNCHANGED Store!vars
  BY <1>3 DEF Mutate, Store!vars, FileDoc
<1>4. ASSUME NEW w \in Writer, OpenTmp(w)
      PROVE  UNCHANGED Store!vars
  BY <1>4 DEF OpenTmp, Store!vars, FileDoc
<1>5. ASSUME NEW w \in Writer, WriteTmp(w)
      PROVE  UNCHANGED Store!vars
  BY <1>5 DEF WriteTmp, Store!vars, FileDoc
<1>6. ASSUME NEW w \in Writer, Commit(w)
      PROVE  Store!Write(w)
  <2>1. file' = root /\ Loaded(root) = root /\ root' = root /\ up /\ up'
    BY <1>6, DocIsLoaded DEF Commit, LockInv, OneSaver
  <2>2. root = Apply(prior, req[w]) /\ holder = w /\ holder' = Free
    BY <1>6 DEF Commit, LockInv, OneSaver
  <2> QED BY <1>6, <2>1, <2>2, SameOperators DEF Commit, Store!Write, FileDoc
<1>7. ASSUME NEW w \in Writer, Publish(w)
      PROVE  Store!Publish(w)
  BY <1>7 DEF Publish, Store!Publish, FileDoc
<1>8. ASSUME NEW w \in Writer, SaveFails(w)
      PROVE  Store!Fail(w)
  <2>1. root = Apply(prior, req[w]) /\ holder = w /\ holder' = Free /\ root' = root
    BY <1>8 DEF SaveFails, LockInv, OneSaver
  <2> QED BY <1>8, <2>1, SameOperators DEF SaveFails, Store!Fail, FileDoc
<1>9. CASE Crash
  <2>1. Store!Restart
    BY <1>9 DEF Crash, Store!Restart, FileDoc
  <2> QED BY <2>1 DEF Store!Next
<1>10. CASE Load
  BY <1>10 DEF Load, LockInv, Store!vars, FileDoc
<1>11. CASE UNCHANGED vars
  BY <1>11 DEF vars, Store!vars, FileDoc
<1> QED BY <1>1, <1>2, <1>3, <1>4, <1>5, <1>6, <1>7, <1>8, <1>9, <1>10, <1>11
        DEF Next, Proceed, Store!Next

\* Set, Update, Push and Delete with their locks and files implement the abstract
\* store: mutations are atomic, and a restart finds the last saved document.
THEOREM Refinement == Spec => ImplementsStore
<1>1. Init => Store!Init
  BY InitRefines
<1>2. IInv /\ [Next]_vars => [Store!Next]_(Store!vars)
  BY NextRefines
<1> QED BY <1>1, <1>2, Invariance, PTL DEF Spec, ImplementsStore, Store!SafetySpec

=============================================================================
