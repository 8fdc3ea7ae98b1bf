---------------------------- MODULE StreamProofs ----------------------------
(***************************************************************************)
(* Proofs about Stream, for any writers, clients, prefixes and requests:   *)
(* its type invariant, that nothing is sent on a closed channel, and that  *)
(* streams converge.  The laws of JsonTree are those of DatabaseProofs.    *)
(***************************************************************************)
EXTENDS Stream, TLAPS

-----------------------------------------------------------------------------
(* The laws of JsonTree, proved in DatabaseProofs for any database. *)

Laws == INSTANCE DatabaseProofs WITH
    Writer <- {}, Requests <- {}, PushKey <- {}, Torn <- Obj, NoReq <- Obj, Free <- Obj,
    root <- mem, holder <- mem, file <- mem, tmp <- mem, pc <- mem, req <- mem, issued <- mem,
    up <- mem, prior <- mem, standing <- mem, strayed <- mem

\* What DatabaseProofs assumes holds of a database that is asked for nothing.
LEMMA LawsApply ==
    Laws!ObjIsNoLeaf /\ Laws!RequestsAreCalls /\ Laws!PushKeysAreKeys /\ Laws!FreeIsNoWriter
BY ObjIsNoLeaf DEF Laws!ObjIsNoLeaf, Laws!RequestsAreCalls, Laws!PushKeysAreKeys, Laws!FreeIsNoWriter

\* Its operators are the ones of this module.
LEMMA SameOperators ==
    /\ Laws!Path = Path /\ Laws!EmptyDoc = EmptyDoc
    /\ \A p, q : Laws!IsPrefix(p, q) = IsPrefix(p, q)
    /\ \A q : Laws!Ancestors(q) = Ancestors(q)
    /\ \A t : Laws!IsTree(t) = IsTree(t)
    /\ \A t : Laws!IsDoc(t) = IsDoc(t)
    /\ \A v : Laws!Fields(v) = Fields(v)
    /\ \A t, p : Laws!At(t, p) = At(t, p)
    /\ \A r : Laws!IsMutation(r) = IsMutation(r)
    /\ \A r : Laws!Written(r) = Written(r) /\ Laws!Touched(r) = Touched(r)
    /\ \A t, r : Laws!Apply(t, r) = Apply(t, r)
<1>1. Laws!Path = Path /\ Laws!EmptyDoc = EmptyDoc
  BY DEF Laws!Path, Path, Laws!EmptyDoc, EmptyDoc
<1>2. \A p, q : Laws!IsPrefix(p, q) = IsPrefix(p, q)
  BY DEF Laws!IsPrefix, IsPrefix
<1>3. \A q : Laws!Ancestors(q) = Ancestors(q)
  BY DEF Laws!Ancestors, Ancestors
<1>4. \A t : Laws!IsTree(t) = IsTree(t)
  BY DEF Laws!IsTree, IsTree, Laws!Path, Path, Laws!Ancestors, Ancestors
<1>5. \A t : Laws!IsDoc(t) = IsDoc(t)
  BY <1>4 DEF Laws!IsDoc, IsDoc
<1>6. \A v : Laws!Fields(v) = Fields(v)
  BY DEF Laws!Fields, Fields
<1>7. \A t, p : Laws!At(t, p) = At(t, p)
  BY DEF Laws!At, At, Laws!IsPrefix, IsPrefix
<1>8. \A r : Laws!IsMutation(r) = IsMutation(r)
  BY <1>1, <1>4 DEF Laws!IsMutation, IsMutation
<1>9. \A r : Laws!Written(r) = Written(r) /\ Laws!Touched(r) = Touched(r)
  BY <1>6 DEF Laws!Written, Written, Laws!Touched, Touched
<1>10. \A t, p, v : Laws!Graft(t, p, v) = Graft(t, p, v)
  BY DEF Laws!Graft, Graft, Laws!Ancestors, Ancestors
<1>11. \A t, P : Laws!Prune(t, P) = Prune(t, P)
  BY DEF Laws!Prune, Prune, Laws!IsPrefix, IsPrefix
<1>12. \A t, p, v : Laws!SetAt(t, p, v) = SetAt(t, p, v)
  BY <1>1, <1>10, <1>11 DEF Laws!SetAt, SetAt
<1>13. \A t, p, v : Laws!UpdateAt(t, p, v) = UpdateAt(t, p, v)
  BY <1>6, <1>10, <1>11 DEF Laws!UpdateAt, UpdateAt
<1>14. \A t, p : Laws!DeleteAt(t, p) = DeleteAt(t, p)
  BY <1>1, <1>11 DEF Laws!DeleteAt, DeleteAt
<1>15. \A t, r : Laws!Apply(t, r) = Apply(t, r)
  BY <1>12, <1>13, <1>14 DEF Laws!Apply, Apply
<1> QED BY <1>1, <1>2, <1>3, <1>4, <1>5, <1>6, <1>7, <1>8, <1>9, <1>15

\* A path lies above another where it has the same segments, as far as it goes.
LEMMA PrefixPointwise ==
    ASSUME NEW p \in Path, NEW q \in Path
    PROVE  IsPrefix(p, q) <=> Len(p) <= Len(q) /\ \A i \in 1 .. Len(p) : p[i] = q[i]
BY DEF Path, IsPrefix

\* What lies below p is p and a path from there.
LEMMA PrefixSplit ==
    ASSUME NEW p \in Path, NEW q \in Path, IsPrefix(p, q)
    PROVE  /\ SubSeq(q, Len(p) + 1, Len(q)) \in Path
           /\ q = p \o SubSeq(q, Len(p) + 1, Len(q))
BY LawsApply, SameOperators, Laws!PrefixSplit

\* A path from p leads below p, and is found again there.
LEMMA PrefixConcat ==
    ASSUME NEW p \in Path, NEW r \in Path
    PROVE  /\ p \o r \in Path
           /\ Len(p \o r) = Len(p) + Len(r)
           /\ IsPrefix(p, p \o r)
           /\ SubSeq(p \o r, Len(p) + 1, Len(p \o r)) = r
BY LawsApply, SameOperators, Laws!PrefixConcat

\* What lies above a prefix of d lies above d.
LEMMA PrefixTransitive ==
    ASSUME NEW p \in Path, NEW q \in Path, NEW d \in Path, IsPrefix(p, q), IsPrefix(q, d)
    PROVE  IsPrefix(p, d)
BY LawsApply, SameOperators, Laws!PrefixTransitive

\* Of two paths above the same node one lies above the other.
LEMMA PrefixesComparable ==
    ASSUME NEW p \in Path, NEW q \in Path, NEW d \in Path, IsPrefix(p, d), IsPrefix(q, d)
    PROVE  Comparable(p, q)
BY LawsApply, SameOperators, Laws!PrefixesComparable DEF Comparable, Laws!Comparable

\* The ancestors of a node are the paths strictly above it.
LEMMA AncestorsArePrefixes ==
    ASSUME NEW q \in Path, NEW a
    PROVE  a \in Ancestors(q) <=> a \in Path /\ IsPrefix(a, q) /\ Len(a) < Len(q)
BY LawsApply, SameOperators, Laws!AncestorsArePrefixes

\* What lies at or below p is no ancestor of p.
LEMMA PrefixNotBelow ==
    ASSUME NEW p \in Path, NEW d \in Path, IsPrefix(p, d)
    PROVE  d \notin Ancestors(p)
BY LawsApply, SameOperators, Laws!PrefixNotBelow

\* The member of an object lies below it.
LEMMA MemberPath ==
    ASSUME NEW p \in Path, NEW k \in Key
    PROVE  Append(p, k) \in Path /\ IsPrefix(p, Append(p, k))
BY LawsApply, SameOperators, Laws!MemberPath

\* The member names of an object are keys.
LEMMA FieldsAreKeys ==
    ASSUME NEW v, IsTree(v)
    PROVE  Fields(v) \subseteq Key
BY LawsApply, SameOperators, Laws!FieldsAreKeys

\* A node below an object belongs to one of its members.
LEMMA FirstField ==
    ASSUME NEW v, IsTree(v), NEW d \in DOMAIN v, d # <<>>, NEW p \in Path
    PROVE  /\ d[1] \in Fields(v) /\ Append(p, d[1]) \in Path
           /\ p \o d \in Path /\ IsPrefix(Append(p, d[1]), p \o d)
BY LawsApply, SameOperators, Laws!FirstField

\* The document of an empty database is one.
LEMMA EmptyDocIsDoc == IsDoc(EmptyDoc)
BY LawsApply, SameOperators, Laws!EmptyDocIsDoc

\* Set, Update and Delete leave a document.
LEMMA ApplyIsDoc ==
    ASSUME NEW t, IsDoc(t), NEW r, IsMutation(r)
    PROVE  IsDoc(Apply(t, r))
BY LawsApply, SameOperators, Laws!ApplyIsDoc

\* A mutation writes at paths.
LEMMA WrittenArePaths ==
    ASSUME NEW r, IsMutation(r)
    PROVE  Written(r) \subseteq Path /\ Touched(r) \subseteq Path
BY LawsApply, SameOperators, Laws!TouchedArePaths

\* Trees with the same nodes below q have the same subtree there.
LEMMA SameSubtree ==
    ASSUME NEW t, NEW u, NEW q \in Path, DOMAIN t \in SUBSET Path, DOMAIN u \in SUBSET Path,
           \A d \in Path : IsPrefix(q, d) =>
              /\ d \in DOMAIN t <=> d \in DOMAIN u
              /\ d \in DOMAIN t => t[d] = u[d]
    PROVE  At(t, q) = At(u, q)
BY LawsApply, SameOperators, Laws!SameSubtree

-----------------------------------------------------------------------------
(* What a mutation makes of one node. *)

\* r gives the node at p its value, whatever stood there before: it writes at or
\* above p, or makes an object of what stands on its way.
Writes(r, p) == \E q \in Written(r) : IsPrefix(q, p)
Determines(r, p) == Writes(r, p) \/ (r.op # "delete" /\ IsPrefix(p, r.path))

\* Two documents have the same node at p, or both have none.
Agree(t, u, p) == (p \in DOMAIN t <=> p \in DOMAIN u) /\ (p \in DOMAIN t => t[p] = u[p])

\* The value Set or Update stores: Set makes {} of a root that is no object.
Stored(r) == IF r.op = "put" /\ r.path = <<>> /\ r.val[<<>>] # Obj THEN EmptyDoc ELSE r.val

\* The nodes of a graft are those of the value ...
LEMMA GraftNew ==
    ASSUME NEW t, NEW p \in Path, NEW v, DOMAIN v \subseteq Path, NEW r \in DOMAIN v
    PROVE  p \o r \in DOMAIN Graft(t, p, v) /\ Graft(t, p, v)[p \o r] = v[r]
<1>1. SubSeq(p \o r, Len(p) + 1, Len(p \o r)) = r
  BY PrefixConcat
<1> QED BY <1>1 DEF Graft

\* ... the way to it ...
LEMMA GraftWay ==
    ASSUME NEW t, NEW p \in Path, NEW v, DOMAIN v \subseteq Path, NEW d \in Ancestors(p)
    PROVE  d \in DOMAIN Graft(t, p, v) /\ Graft(t, p, v)[d] = Obj
<1>1. \A r \in DOMAIN v : d # p \o r
  BY PrefixConcat, PrefixNotBelow
<1> QED BY <1>1 DEF Graft

\* ... and the rest as it was.
LEMMA GraftRest ==
    ASSUME NEW t, NEW p \in Path, NEW v, NEW d \in Path,
           \A r \in DOMAIN v : d # p \o r, d \notin Ancestors(p)
    PROVE  Agree(Graft(t, p, v), t, d)
BY DEF Graft, Agree

\* Set and Update prune the nodes they write and graft the value they store.
LEMMA ApplyGrafts ==
    ASSUME NEW t, NEW r, IsMutation(r), r.op # "delete"
    PROVE  Apply(t, r) = Graft(Prune(t, Written(r)), r.path, Stored(r))
<1>1. CASE r.op = "put"
  BY <1>1 DEF Apply, SetAt, Stored, Written
<1>2. CASE r.op = "patch"
  BY <1>2 DEF Apply, UpdateAt, Stored, Written
<1> QED BY <1>1, <1>2 DEF IsMutation

\* What is stored is a tree.
LEMMA StoredIsTree ==
    ASSUME NEW r, IsMutation(r)
    PROVE  IsTree(Stored(r)) /\ DOMAIN Stored(r) \subseteq Path /\ Fields(Stored(r)) \subseteq Key
BY EmptyDocIsDoc, FieldsAreKeys DEF IsMutation, Stored, IsDoc, IsTree

\* What a mutation writes lies at or below its path.
LEMMA WrittenBelowPath ==
    ASSUME NEW r, IsMutation(r), NEW q \in Touched(r)
    PROVE  q \in Path /\ IsPrefix(r.path, q)
<1>1. r.path \in Path /\ IsTree(r.val)
  BY DEF IsMutation
<1>2. IsPrefix(r.path, r.path)
  BY <1>1, PrefixPointwise DEF Path
<1>3. \A k \in Fields(r.val) : Append(r.path, k) \in Path /\ IsPrefix(r.path, Append(r.path, k))
  BY <1>1, FieldsAreKeys, MemberPath
<1> QED BY <1>1, <1>2, <1>3 DEF Touched, Written

\* A node strictly above the path, or at the path of an Update, becomes an object.
LEMMA NodeOnTheWay ==
    ASSUME NEW t, NEW r, IsMutation(r), NEW p \in Path,
           Determines(r, p), ~ Writes(r, p)
    PROVE  p \in DOMAIN Apply(t, r) /\ Apply(t, r)[p] = Obj
<1> DEFINE k == Prune(t, Written(r))
<1>1. r.op # "delete" /\ IsPrefix(p, r.path) /\ r.path \in Path
  BY DEF Determines, IsMutation
<1>2. Apply(t, r) = Graft(k, r.path, Stored(r)) /\ DOMAIN Stored(r) \subseteq Path
  BY <1>1, ApplyGrafts, StoredIsTree
<1>3. CASE p = r.path
  <2>1. r.op = "patch"
    <3>1. ~ IsPrefix(p, p) \/ r.path \notin Written(r)
      BY <1>3 DEF Writes
    <3>2. IsPrefix(p, p)
      BY PrefixPointwise DEF Path
    <3> QED BY <1>1, <3>1, <3>2 DEF IsMutation, Written
  <2>2. PICK d \in DOMAIN Stored(r) : d = <<>> /\ Stored(r)[d] = Obj
    BY <2>1 DEF IsMutation, Stored, IsTree
  <2>3. p = r.path \o d
    BY <1>3, <2>2 DEF Path
  <2> HIDE DEF k
  <2>4. r.path \o d \in DOMAIN Graft(k, r.path, Stored(r))
        /\ Graft(k, r.path, Stored(r))[r.path \o d] = Stored(r)[d]
    BY <1>1, <1>2, GraftNew
  <2> QED BY <1>2, <2>2, <2>3, <2>4
<1>4. CASE p # r.path
  <2>1. Len(p) < Len(r.path)
    <3>1. Len(p) \in Nat /\ Len(r.path) \in Nat
      BY <1>1 DEF Path
    <3>2. Len(p) <= Len(r.path) /\ \A i \in 1 .. Len(p) : p[i] = r.path[i]
      BY <1>1, PrefixPointwise
    <3>3. Len(p) # Len(r.path)
      BY <1>1, <1>4, <3>2 DEF Path
    <3> QED BY <3>1, <3>2, <3>3
  <2>2. p \in Ancestors(r.path)
    BY <1>1, <2>1, AncestorsArePrefixes
  <2> HIDE DEF k
  <2> QED BY <1>1, <1>2, <2>2, GraftWay
<1> QED BY <1>3, <1>4

\* What Set and Update store is what the tree holds at and below the nodes they write.
LEMMA NodeStored ==
    ASSUME NEW t, NEW r, IsMutation(r), r.op # "delete", NEW s \in Path, Writes(r, r.path \o s)
    PROVE  /\ r.path \o s \in DOMAIN Apply(t, r) <=> s \in DOMAIN Stored(r)
           /\ s \in DOMAIN Stored(r) => Apply(t, r)[r.path \o s] = Stored(r)[s]
<1> DEFINE k == Prune(t, Written(r))
           p == r.path \o s
<1>1. r.path \in Path /\ p \in Path /\ IsPrefix(r.path, p)
      /\ SubSeq(p, Len(r.path) + 1, Len(p)) = s
  BY PrefixConcat DEF IsMutation
<1>2. Apply(t, r) = Graft(k, r.path, Stored(r)) /\ DOMAIN Stored(r) \subseteq Path
  BY ApplyGrafts, StoredIsTree
<1>3. p \notin DOMAIN k
  BY DEF Prune, Writes
<1>4. p \notin Ancestors(r.path)
  BY <1>1, PrefixNotBelow
<1>5. ASSUME NEW d \in DOMAIN Stored(r), p = r.path \o d
      PROVE  d = s
  BY <1>1, <1>2, <1>5, PrefixConcat
<1> HIDE DEF k, p
<1>6. CASE s \in DOMAIN Stored(r)
  <2>1. p = r.path \o s
    BY DEF p
  <2> QED BY <1>1, <1>2, <1>6, <2>1, GraftNew
<1>7. CASE s \notin DOMAIN Stored(r)
  <2>1. \A d \in DOMAIN Stored(r) : p # r.path \o d
    BY <1>5, <1>7
  <2>2. Agree(Apply(t, r), k, p)
    BY <1>1, <1>2, <1>4, <2>1, GraftRest
  <2> QED BY <1>3, <1>7, <2>2 DEF Agree, p
<1> QED BY <1>6, <1>7

\* Delete leaves no node at or below its path, but an empty root.
LEMMA NodeDeleted ==
    ASSUME NEW t, NEW r, IsMutation(r), r.op = "delete", NEW p \in Path, Writes(r, p)
    PROVE  /\ p \in DOMAIN Apply(t, r) <=> p = <<>>
           /\ p = <<>> => Apply(t, r)[p] = Obj
<1>1. IsPrefix(r.path, p) /\ r.path \in Path
  BY DEF Writes, Written, IsMutation
<1>2. CASE r.path = <<>>
  BY <1>2 DEF Apply, DeleteAt, EmptyDoc
<1>3. CASE r.path # <<>>
  <2>1. p # <<>>
    BY <1>1, <1>3 DEF IsPrefix, Path
  <2> QED BY <1>1, <1>3, <2>1 DEF Apply, DeleteAt, Prune
<1> QED BY <1>2, <1>3

\* A node a mutation does not determine stays as it was.
LEMMA NodeUntouched ==
    ASSUME NEW t, NEW r, IsMutation(r), NEW p \in Path, ~ Determines(r, p)
    PROVE  Agree(Apply(t, r), t, p)
<1> DEFINE k == Prune(t, Written(r))
<1>1. ~ Writes(r, p) /\ r.path \in Path
  BY DEF Determines, IsMutation
<1>2. Agree(k, t, p)
  BY <1>1 DEF Prune, Writes, Agree
<1>3. CASE r.op = "delete"
  <2>1. ~ IsPrefix(r.path, p)
    BY <1>1, <1>3 DEF Writes, Written
  <2>2. r.path # <<>>
    BY <2>1 DEF IsPrefix, Path
  <2> QED BY <1>2, <1>3, <2>2 DEF Apply, DeleteAt, Written
<1>4. CASE r.op # "delete"
  <2>1. Apply(t, r) = Graft(k, r.path, Stored(r)) /\ DOMAIN Stored(r) \subseteq Path
        /\ IsTree(Stored(r))
    BY <1>4, ApplyGrafts, StoredIsTree
  <2>2. ~ IsPrefix(p, r.path)
    BY <1>4 DEF Determines
  <2>3. p \notin Ancestors(r.path)
    BY <1>1, <2>2, AncestorsArePrefixes
  <2>4. ASSUME NEW d \in DOMAIN Stored(r), p = r.path \o d
        PROVE  FALSE
    <3>0. d \in Path
      BY <2>1
    <3>1. d # <<>>
      <4>1. IsPrefix(p, p) /\ r.path \o <<>> = r.path
        BY <1>1, PrefixPointwise DEF Path
      <4> QED BY <2>2, <2>4, <4>1
    <3>2. CASE r.op = "put"
      <4>1. IsPrefix(r.path, p)
        BY <1>1, <2>4, <3>0, PrefixConcat
      <4> QED BY <1>1, <3>2, <4>1 DEF Writes, Written
    <3>3. CASE r.op = "patch"
      <4>1. Stored(r) = r.val
        BY <3>3 DEF Stored
      <4>2. d[1] \in Fields(r.val) /\ IsPrefix(Append(r.path, d[1]), p)
        BY <1>1, <2>1, <2>4, <3>1, <4>1, FirstField
      <4> QED BY <1>1, <3>3, <4>2 DEF Writes, Written
    <3> QED BY <1>4, <3>2, <3>3 DEF IsMutation
  <2>5. \A d \in DOMAIN Stored(r) : p # r.path \o d
    BY <2>4
  <2> HIDE DEF k
  <2>6. Agree(Apply(t, r), k, p)
    BY <1>1, <2>1, <2>3, <2>5, GraftRest
  <2> QED BY <1>2, <2>6 DEF Agree
<1> QED BY <1>3, <1>4

\* What a mutation writes lies at or below its path, so a node it writes does, too.
LEMMA WritesBelowPath ==
    ASSUME NEW r, IsMutation(r), NEW p \in Path, Writes(r, p)
    PROVE  /\ IsPrefix(r.path, p) /\ r.path \in Path
           /\ \E s \in Path : p = r.path \o s
<1>1. PICK q \in Written(r) : IsPrefix(q, p)
  BY DEF Writes
<1>2. q \in Touched(r)
  BY <1>1 DEF Touched
<1>3. q \in Path /\ IsPrefix(r.path, q) /\ r.path \in Path
  BY <1>2, WrittenBelowPath DEF IsMutation
<1>4. IsPrefix(r.path, p)
  BY <1>1, <1>3, PrefixTransitive
<1> QED BY <1>3, <1>4, PrefixSplit

\* A node a mutation determines is the same whatever the tree was.
LEMMA NodeDetermined ==
    ASSUME NEW t, NEW r, IsMutation(r), NEW p \in Path, Determines(r, p)
    PROVE  Agree(Apply(t, r), Apply(EmptyDoc, r), p)
<1>1. CASE ~ Writes(r, p)
  BY <1>1, NodeOnTheWay DEF Agree
<1>2. CASE Writes(r, p) /\ r.op = "delete"
  BY <1>2, NodeDeleted DEF Agree
<1>3. CASE Writes(r, p) /\ r.op # "delete"
  <2>1. PICK s \in Path : p = r.path \o s
    BY <1>3, WritesBelowPath
  <2>2. \A x : /\ p \in DOMAIN Apply(x, r) <=> s \in DOMAIN Stored(r)
               /\ s \in DOMAIN Stored(r) => Apply(x, r)[p] = Stored(r)[s]
    BY <1>3, <2>1, NodeStored
  <2> QED BY <2>2 DEF Agree
<1> QED BY <1>1, <1>2, <1>3

\* What determines a node at or below x has a path comparable to x.
LEMMA DeterminedComparable ==
    ASSUME NEW r, IsMutation(r), NEW x \in Path, NEW p \in Path, IsPrefix(x, p), Determines(r, p)
    PROVE  Comparable(x, r.path)
<1>1. r.path \in Path
  BY DEF IsMutation
<1>2. CASE Writes(r, p)
  BY <1>1, <1>2, WritesBelowPath, PrefixesComparable
<1>3. CASE IsPrefix(p, r.path)
  BY <1>1, <1>3, PrefixTransitive DEF Comparable
<1> QED BY <1>2, <1>3 DEF Determines

\* A mutation that writes a node conflicts with whatever determines it.
LEMMA WritesConflicts ==
    ASSUME NEW r, IsMutation(r), NEW s, IsMutation(s), NEW p \in Path,
           Writes(r, p), Determines(s, p)
    PROVE  Disturbs(r, s) \/ Disturbs(s, r)
<1>1. PICK q \in Written(r) : q \in Path /\ IsPrefix(q, p) /\ q \in Touched(r)
  BY WrittenArePaths DEF Writes, Touched
<1>2. CASE Writes(s, p)
  <2>1. PICK d \in Written(s) : d \in Path /\ IsPrefix(d, p)
    BY <1>2, WrittenArePaths DEF Writes
  <2>2. Comparable(q, d)
    BY <1>1, <2>1, PrefixesComparable
  <2> QED BY <1>1, <2>2 DEF Disturbs
<1>3. CASE IsPrefix(p, s.path)
  <2>1. PICK d \in Touched(s) : d \in Path /\ IsPrefix(s.path, d)
    <3>1. Touched(s) # {}
      BY DEF Touched
    <3> QED BY <3>1, WrittenBelowPath
  <2>2. s.path \in Path
    BY DEF IsMutation
  <2>3. IsPrefix(q, d)
    <3>1. IsPrefix(q, s.path)
      BY <1>1, <1>3, <2>2, PrefixTransitive
    <3> QED BY <1>1, <2>1, <2>2, <3>1, PrefixTransitive
  <2> QED BY <1>1, <2>1, <2>3 DEF Disturbs, Comparable
<1> QED BY <1>2, <1>3 DEF Determines

\* Where two mutations that do not conflict determine the same node, both make an
\* object of it.
LEMMA NoConflict ==
    ASSUME NEW r, IsMutation(r), NEW s, IsMutation(s), ~ Conflict(r, s), NEW p \in Path,
           Determines(r, p), Determines(s, p)
    PROVE  ~ Writes(r, p) /\ ~ Writes(s, p)
BY WritesConflicts DEF Conflict

-----------------------------------------------------------------------------
(* Events and the tree they share objects with. *)

\* Two mutations of the same nodes.
SameWrites(r, s) == r.op = s.op /\ r.path = s.path /\ Written(r) = Written(s)

\* The nodes at which a mutation's objects may be shared with the tree.
SharePoints(e) ==
    CASE e.op = "put"    -> {<<>>}
      [] e.op = "patch"  -> {q \in Path : Len(q) = 1}
      [] e.op = "delete" -> {}

\* The objects an event shares with tree t are the same in both.
InStep(e, t) ==
    \A l \in e.shared :
        /\ e.path \o l \in DOMAIN t /\ t[e.path \o l] = Obj
        /\ \A q \in Path : IsPrefix(l, q) =>
              /\ q \in DOMAIN e.val <=> e.path \o q \in DOMAIN t
              /\ q \in DOMAIN e.val => e.val[q] = t[e.path \o q]

\* An event on its way while t is in memory.
IsEvent(e, t) ==
    /\ e = [op |-> e.op, path |-> e.path, val |-> e.val, shared |-> e.shared]
    /\ IsMutation(e)
    /\ e.shared \subseteq DOMAIN e.val /\ e.shared \subseteq SharePoints(e)
    /\ InStep(e, t)

\* Mutations of the same nodes determine the same nodes.
LEMMA SameWritesDetermine ==
    ASSUME NEW r, NEW s, SameWrites(r, s), NEW p
    PROVE  (Determines(r, p) <=> Determines(s, p)) /\ (Writes(r, p) <=> Writes(s, p))
BY DEF SameWrites, Determines, Writes

\* Prefixing two paths with a third changes nothing in how they relate.
LEMMA ConcatPrefix ==
    ASSUME NEW p \in Path, NEW a \in Path, NEW q \in Path, IsPrefix(a, q)
    PROVE  /\ p \o a \in Path /\ p \o q \in Path /\ IsPrefix(p \o a, p \o q)
           /\ a \in Ancestors(q) => p \o a \in Ancestors(p \o q)
<1>1. /\ p \o a \in Path /\ p \o q \in Path
      /\ Len(p \o a) = Len(p) + Len(a) /\ Len(p \o q) = Len(p) + Len(q)
      /\ Len(p) \in Nat /\ Len(a) \in Nat /\ Len(q) \in Nat
  BY PrefixConcat DEF Path
<1>2. Len(a) <= Len(q) /\ \A i \in 1 .. Len(a) : a[i] = q[i]
  BY PrefixPointwise
<1>3. \A i \in 1 .. Len(p) + Len(a) : (p \o a)[i] = (p \o q)[i]
  BY <1>1, <1>2 DEF Path
<1>4. IsPrefix(p \o a, p \o q)
  <2>1. ASSUME NEW x \in Path, NEW y \in Path, Len(x) <= Len(y), \A i \in 1 .. Len(x) : x[i] = y[i]
        PROVE  IsPrefix(x, y)
    BY <2>1, PrefixPointwise
  <2>2. Len(p \o a) <= Len(p \o q) /\ \A i \in 1 .. Len(p \o a) : (p \o a)[i] = (p \o q)[i]
    BY <1>1, <1>2, <1>3
  <2> QED BY <1>1, <2>1, <2>2
<1>5. a \in Ancestors(q) => Len(p \o a) < Len(p \o q)
  BY <1>1, AncestorsArePrefixes
<1> QED BY <1>1, <1>4, <1>5, AncestorsArePrefixes

\* The nodes of a subtree are the nodes of the tree below it.
LEMMA AtNodes ==
    ASSUME NEW t, DOMAIN t \subseteq Path, NEW p \in Path
    PROVE  DOMAIN At(t, p) = {s \in Path : p \o s \in DOMAIN t}
<1>1. ASSUME NEW s \in DOMAIN At(t, p)
      PROVE  s \in Path /\ p \o s \in DOMAIN t
  BY PrefixSplit DEF At
<1>2. ASSUME NEW s \in Path, p \o s \in DOMAIN t
      PROVE  s \in DOMAIN At(t, p)
  <2>1. IsPrefix(p, p \o s) /\ SubSeq(p \o s, Len(p) + 1, Len(p \o s)) = s
    BY PrefixConcat
  <2> QED BY <1>2, <2>1 DEF At
<1> QED BY <1>1, <1>2

\* The nodes at and below the objects of S.
Under(S, q) == \E l \in S : IsPrefix(l, q)

\* The objects an event still shares once r is made.
StillShared(e, r) == {l \in e.shared : \A q \in Written(r) : ~ IsPrefix(q, e.path \o l)}

\* An edited event has the tree's nodes where it shares them, and its own elsewhere.
LEMMA EditedNodes ==
    ASSUME NEW e, NEW t, IsEvent(e, t), NEW r, NEW u, DOMAIN u \subseteq Path
    PROVE  LET f == Edited(e, r, u)
               S == StillShared(e, r)
           IN  /\ f = [op |-> e.op, path |-> e.path, val |-> f.val, shared |-> S]
               /\ DOMAIN f.val \subseteq Path
               /\ \A q \in Path : Under(S, q) =>
                     /\ q \in DOMAIN f.val <=> e.path \o q \in DOMAIN u
                     /\ q \in DOMAIN f.val => f.val[q] = u[e.path \o q]
               /\ \A q \in Path : ~ Under(S, q) => Agree(f.val, e.val, q)
<1> DEFINE S == StillShared(e, r)
           own == {q \in DOMAIN e.val : \A l \in S : ~ IsPrefix(l, q)}
           tree == UNION {{l \o q : q \in DOMAIN At(u, e.path \o l)} : l \in S}
           val == [q \in own \cup tree |-> IF q \in own THEN e.val[q] ELSE u[e.path \o q]]
           f == Edited(e, r, u)
<1>1. /\ e.path \in Path /\ DOMAIN e.val \subseteq Path /\ S \subseteq Path
      /\ e = [op |-> e.op, path |-> e.path, val |-> e.val, shared |-> e.shared]
  BY DEF IsEvent, IsMutation, IsTree, StillShared
<1>2. f = [op |-> e.op, path |-> e.path, val |-> val, shared |-> S]
  <2>1. f = [e EXCEPT !.shared = S, !.val = val]
    BY DEF Edited, StillShared
  <2> HIDE DEF val, S, f
  <2> QED BY <1>1, <2>1
<1>3. ASSUME NEW q
      PROVE  q \in tree <=> q \in Path /\ Under(S, q) /\ e.path \o q \in DOMAIN u
  <2>1. ASSUME q \in tree
        PROVE  q \in Path /\ Under(S, q) /\ e.path \o q \in DOMAIN u
    <3>1. PICK l \in S : \E s \in DOMAIN At(u, e.path \o l) : q = l \o s
      BY <2>1
    <3>2. PICK s \in DOMAIN At(u, e.path \o l) : q = l \o s
      BY <3>1
    <3>3. l \in Path /\ e.path \o l \in Path
      BY <1>1, PrefixConcat
    <3>4. s \in Path /\ (e.path \o l) \o s \in DOMAIN u
      BY <3>2, <3>3, AtNodes
    <3>5. q \in Path /\ IsPrefix(l, q)
      BY <3>2, <3>3, <3>4, PrefixConcat
    <3>6. (e.path \o l) \o s = e.path \o q
      BY <1>1, <3>2, <3>3, <3>4 DEF Path
    <3> QED BY <3>4, <3>5, <3>6 DEF Under
  <2>2. ASSUME q \in Path, Under(S, q), e.path \o q \in DOMAIN u
        PROVE  q \in tree
    <3>1. PICK l \in S : IsPrefix(l, q)
      BY <2>2 DEF Under
    <3>2. l \in Path /\ e.path \o l \in Path
      BY <1>1, PrefixConcat
    <3>3. PICK s \in Path : q = l \o s
      BY <2>2, <3>1, <3>2, PrefixSplit
    <3>4. (e.path \o l) \o s = e.path \o q
      BY <1>1, <3>2, <3>3 DEF Path
    <3>5. (e.path \o l) \o s \in DOMAIN u
      BY <2>2, <3>4
    <3>6. DOMAIN At(u, e.path \o l) = {x \in Path : (e.path \o l) \o x \in DOMAIN u}
      BY <3>2, AtNodes
    <3>7. s \in DOMAIN At(u, e.path \o l)
      BY <3>5, <3>6
    <3> QED BY <3>3, <3>7
  <2> QED BY <2>1, <2>2
<1>4. \A q : q \in own <=> q \in DOMAIN e.val /\ ~ Under(S, q)
  BY DEF Under
<1>5. DOMAIN val = own \cup tree
  OBVIOUS
<1>6. \A q \in own : val[q] = e.val[q]
  OBVIOUS
<1>7. \A q \in tree : q \notin own => val[q] = u[e.path \o q]
  OBVIOUS
<1>8. f.val = val
  BY <1>2
<1> HIDE DEF val, own, tree, f, S
<1>9. DOMAIN val \subseteq Path
  BY <1>1, <1>3, <1>4, <1>5
<1>10. \A q \in Path : Under(S, q) =>
          /\ q \in DOMAIN val <=> e.path \o q \in DOMAIN u
          /\ q \in DOMAIN val => val[q] = u[e.path \o q]
  BY <1>3, <1>4, <1>5, <1>7
<1>11. \A q \in Path : ~ Under(S, q) => Agree(val, e.val, q)
  BY <1>3, <1>4, <1>5, <1>6 DEF Agree
<1>12. /\ f = [op |-> e.op, path |-> e.path, val |-> f.val, shared |-> S]
       /\ DOMAIN f.val \subseteq Path
       /\ \A q \in Path : Under(S, q) =>
             /\ q \in DOMAIN f.val <=> e.path \o q \in DOMAIN u
             /\ q \in DOMAIN f.val => f.val[q] = u[e.path \o q]
       /\ \A q \in Path : ~ Under(S, q) => Agree(f.val, e.val, q)
  BY <1>2, <1>8, <1>9, <1>10, <1>11
<1> QED BY <1>12 DEF f, S

\* What two mutations of the same nodes make of a node, if they store the same there.
LEMMA SameResult ==
    ASSUME NEW e, IsMutation(e), NEW f, IsMutation(f), SameWrites(e, f),
           NEW p \in Path, Determines(e, p), <<>> \in DOMAIN e.val => e.val[<<>>] = f.val[<<>>],
           \A s \in Path : p = e.path \o s => Agree(e.val, f.val, s)
    PROVE  Agree(Apply(EmptyDoc, e), Apply(EmptyDoc, f), p)
<1>1. Determines(f, p) /\ (Writes(e, p) <=> Writes(f, p)) /\ f.op = e.op /\ f.path = e.path
  BY SameWritesDetermine DEF SameWrites
<1>2. CASE ~ Writes(e, p)
  BY <1>1, <1>2, NodeOnTheWay DEF Agree
<1>3. CASE Writes(e, p) /\ e.op = "delete"
  BY <1>1, <1>3, NodeDeleted DEF Agree
<1>4. CASE Writes(e, p) /\ e.op # "delete"
  <2>1. PICK s \in Path : p = e.path \o s
    BY <1>4, WritesBelowPath
  <2>2. Agree(e.val, f.val, s)
    BY <2>1
  <2>3. e.val[<<>>] = f.val[<<>>]
    BY DEF IsMutation, IsTree
  <2>4. Agree(Stored(e), Stored(f), s)
    BY <1>1, <2>2, <2>3 DEF Stored, Agree
  <2>5. /\ p \in DOMAIN Apply(EmptyDoc, e) <=> s \in DOMAIN Stored(e)
        /\ s \in DOMAIN Stored(e) => Apply(EmptyDoc, e)[p] = Stored(e)[s]
    BY <1>4, <2>1, NodeStored
  <2>6. /\ p \in DOMAIN Apply(EmptyDoc, f) <=> s \in DOMAIN Stored(f)
        /\ s \in DOMAIN Stored(f) => Apply(EmptyDoc, f)[p] = Stored(f)[s]
    <3>1. p = f.path \o s /\ Writes(f, p) /\ f.op # "delete"
      BY <1>1, <1>4, <2>1
    <3> QED BY <3>1, NodeStored
  <2> QED BY <2>4, <2>5, <2>6 DEF Agree
<1> QED BY <1>2, <1>3, <1>4

\* The objects an event still shares stay objects of the tree.
LEMMA StillObjects ==
    ASSUME NEW t, NEW e, IsEvent(e, t), NEW r, IsMutation(r), NEW l \in StillShared(e, r)
    PROVE  /\ l \in e.shared /\ l \in Path /\ e.path \o l \in Path
           /\ e.path \o l \in DOMAIN Apply(t, r) /\ Apply(t, r)[e.path \o l] = Obj
<1> DEFINE p == e.path \o l
<1>1. l \in e.shared /\ l \in Path /\ e.path \in Path
  BY DEF StillShared, IsEvent, IsMutation, IsTree
<1>2. p \in Path
  BY <1>1, PrefixConcat
<1>3. ~ Writes(r, p)
  BY DEF StillShared, Writes
<1>4. p \in DOMAIN t /\ t[p] = Obj
  BY <1>1 DEF IsEvent, InStep
<1>5. CASE Determines(r, p)
  BY <1>1, <1>2, <1>3, <1>5, NodeOnTheWay
<1>6. CASE ~ Determines(r, p)
  <2> HIDE DEF p
  <2>1. Agree(Apply(t, r), t, p)
    BY <1>2, <1>6, NodeUntouched
  <2>2. p \in DOMAIN Apply(t, r) /\ Apply(t, r)[p] = Obj
    BY <1>4, <2>1 DEF Agree
  <2> QED BY <1>1, <1>2, <2>2 DEF p
<1> QED BY <1>5, <1>6

\* A mutation turns the events on their way into events of the new tree, of the same
\* nodes, and leaves what they make of the nodes it does not determine.
LEMMA EditedEvent ==
    ASSUME NEW t, IsDoc(t), NEW e, IsEvent(e, t), NEW r, IsMutation(r)
    PROVE  LET u == Apply(t, r)
               f == Edited(e, r, u)
           IN  /\ IsEvent(f, u) /\ SameWrites(e, f)
               /\ \A p \in Path : Determines(e, p) /\ ~ Determines(r, p) =>
                     Agree(Apply(EmptyDoc, e), Apply(EmptyDoc, f), p)
<1> DEFINE u == Apply(t, r)
           f == Edited(e, r, u)
           S == StillShared(e, r)
<1>1. /\ IsTree(u) /\ DOMAIN u \subseteq Path
      /\ \A q \in DOMAIN u : u[q] \in Leaf \cup {Obj} /\ \A a \in Ancestors(q) : a \in DOMAIN u /\ u[a] = Obj
  BY ApplyIsDoc DEF IsDoc, IsTree
<1>2. /\ e.path \in Path /\ DOMAIN e.val \subseteq Path /\ <<>> \in DOMAIN e.val
      /\ \A q \in DOMAIN e.val : e.val[q] \in Leaf \cup {Obj}
                                 /\ \A a \in Ancestors(q) : a \in DOMAIN e.val /\ e.val[a] = Obj
      /\ e.op \in {"put", "patch", "delete"} /\ (e.op = "patch" => e.val[<<>>] = Obj)
      /\ e.shared \subseteq SharePoints(e) /\ e.shared \subseteq DOMAIN e.val /\ InStep(e, t)
  BY DEF IsEvent, IsMutation, IsTree
<1>3. \A l \in S : /\ l \in e.shared /\ l \in Path /\ e.path \o l \in Path
                   /\ e.path \o l \in DOMAIN u /\ u[e.path \o l] = Obj
  BY StillObjects
<1>4. /\ f = [op |-> e.op, path |-> e.path, val |-> f.val, shared |-> S]
      /\ DOMAIN f.val \subseteq Path
      /\ \A q \in Path : Under(S, q) =>
            /\ q \in DOMAIN f.val <=> e.path \o q \in DOMAIN u
            /\ q \in DOMAIN f.val => f.val[q] = u[e.path \o q]
      /\ \A q \in Path : ~ Under(S, q) => Agree(f.val, e.val, q)
  BY <1>1, EditedNodes
<1>5. f.op = e.op /\ f.path = e.path /\ f.shared = S
  BY <1>4
<1> HIDE DEF u, f, S
<1>6. \A l \in S : Under(S, l) /\ l \in DOMAIN f.val
  <2>1. \A l \in S : IsPrefix(l, l)
    BY <1>3, PrefixPointwise DEF Path
  <2> QED BY <1>3, <1>4, <2>1 DEF Under
<1>7. <<>> \in DOMAIN f.val /\ f.val[<<>>] = e.val[<<>>]
  <2>0. <<>> \in Path
    BY DEF Path
  <2>1. CASE Under(S, <<>>)
    <3>1. PICK l \in S : IsPrefix(l, <<>>)
      BY <2>1 DEF Under
    <3>2. l = <<>>
      BY <1>3, <3>1 DEF IsPrefix, Path
    <3>3. l \in DOMAIN f.val /\ f.val[l] = u[e.path \o l] /\ u[e.path \o l] = Obj
      BY <1>3, <1>4, <1>6
    <3>4. e.val[l] = t[e.path \o l] /\ t[e.path \o l] = Obj
      <4>1. l \in e.shared /\ l \in Path /\ IsPrefix(l, l) /\ l \in DOMAIN e.val
        BY <1>2, <1>3, PrefixPointwise DEF Path
      <4> QED BY <1>2, <4>1 DEF InStep
    <3> QED BY <3>2, <3>3, <3>4
  <2>2. CASE ~ Under(S, <<>>)
    BY <1>2, <1>4, <2>0, <2>2 DEF Agree
  <2> QED BY <2>1, <2>2
<1>8. ASSUME NEW q \in DOMAIN f.val
      PROVE  f.val[q] \in Leaf \cup {Obj}
  <2>1. CASE Under(S, q)
    BY <1>1, <1>4, <1>8, <2>1
  <2>2. CASE ~ Under(S, q)
    BY <1>2, <1>4, <1>8, <2>2 DEF Agree
  <2> QED BY <2>1, <2>2
<1>9. ASSUME NEW q \in DOMAIN f.val, NEW a \in Ancestors(q)
      PROVE  a \in DOMAIN f.val /\ f.val[a] = Obj
  <2>1. q \in Path /\ a \in Path /\ IsPrefix(a, q)
    BY <1>4, <1>9, AncestorsArePrefixes
  <2>2. CASE Under(S, a)
    <3>1. PICK l \in S : IsPrefix(l, a)
      BY <2>2 DEF Under
    <3>2. IsPrefix(l, q)
      BY <1>3, <2>1, <3>1, PrefixTransitive
    <3>3. e.path \o q \in DOMAIN u
      BY <1>4, <2>1, <3>2 DEF Under
    <3>4. e.path \o a \in Ancestors(e.path \o q)
      BY <1>2, <1>9, <2>1, ConcatPrefix
    <3> QED BY <1>1, <1>4, <2>1, <2>2, <3>3, <3>4
  <2>3. CASE ~ Under(S, a) /\ ~ Under(S, q)
    <3>1. q \in DOMAIN e.val
      BY <1>4, <2>1, <2>3 DEF Agree
    <3>2. a \in DOMAIN e.val /\ e.val[a] = Obj
      BY <1>2, <1>9, <3>1
    <3> QED BY <1>4, <2>1, <2>3, <3>2 DEF Agree
  <2>4. CASE ~ Under(S, a) /\ Under(S, q)
    <3>1. PICK l \in S : IsPrefix(l, q)
      BY <2>4 DEF Under
    <3>2. l \in Path /\ l \in DOMAIN e.val /\ ~ IsPrefix(l, a)
      BY <1>2, <1>3, <2>4 DEF Under
    <3>3. IsPrefix(a, l)
      BY <2>1, <3>1, <3>2, PrefixesComparable DEF Comparable
    <3>4. Len(a) < Len(l)
      <4>1. Len(a) \in Nat /\ Len(l) \in Nat /\ Len(a) <= Len(l)
        BY <2>1, <3>2, <3>3, PrefixPointwise DEF Path
      <4>2. ASSUME Len(a) = Len(l)
            PROVE  FALSE
        <5>1. \A i \in 1 .. Len(l) : l[i] = a[i]
          BY <2>1, <3>2, <3>3, <4>2, PrefixPointwise
        <5> QED BY <2>1, <3>2, <4>1, <4>2, <5>1, PrefixPointwise
      <4> QED BY <4>1, <4>2
    <3>5. a \in Ancestors(l)
      BY <2>1, <3>2, <3>3, <3>4, AncestorsArePrefixes
    <3>6. a \in DOMAIN e.val /\ e.val[a] = Obj
      BY <1>2, <3>2, <3>5
    <3> QED BY <1>4, <2>1, <2>4, <3>6 DEF Agree
  <2> QED BY <2>2, <2>3, <2>4
<1>10. IsMutation(f)
  <2>1. f.val \in [DOMAIN f.val -> Leaf \cup {Obj}]
    <3>1. f.val = [q \in DOMAIN f.val |-> f.val[q]]
      <4>1. f.val = [q \in DOMAIN f.val |-> IF q \in {d \in DOMAIN e.val : \A l \in S : ~ IsPrefix(l, d)}
                                            THEN e.val[q] ELSE u[e.path \o q]]
        <5>1. e = [op |-> e.op, path |-> e.path, val |-> e.val, shared |-> e.shared]
          BY DEF IsEvent
        <5> QED BY <5>1 DEF f, u, S, Edited, StillShared
      <4> QED BY <4>1
    <3> QED BY <1>8, <3>1
  <2>2. IsTree(f.val)
    BY <1>4, <1>7, <1>9, <2>1 DEF IsTree
  <2> QED BY <1>2, <1>5, <1>7, <2>2 DEF IsMutation
<1>11. IsEvent(f, u)
  <2>1. f = [op |-> f.op, path |-> f.path, val |-> f.val, shared |-> f.shared]
    BY <1>4, <1>5
  <2>2. f.shared \subseteq DOMAIN f.val
    BY <1>5, <1>6
  <2>3. f.shared \subseteq SharePoints(f)
    BY <1>2, <1>3, <1>5 DEF SharePoints
  <2>4. InStep(f, u)
    BY <1>3, <1>4, <1>5 DEF InStep, Under
  <2> QED BY <1>10, <2>1, <2>2, <2>3, <2>4 DEF IsEvent
<1>12. SameWrites(e, f)
  <2>1. CASE e.op = "patch"
    <3>1. ASSUME NEW q \in Path, Len(q) = 1
          PROVE  q \in DOMAIN e.val <=> q \in DOMAIN f.val
      <4>1. CASE Under(S, q)
        <5>1. PICK l \in S : IsPrefix(l, q)
          BY <4>1 DEF Under
        <5>2. l \in Path /\ Len(l) = 1
          BY <1>2, <1>3, <2>1 DEF SharePoints
        <5>3. l = q
          BY <3>1, <5>1, <5>2, PrefixPointwise DEF Path
        <5> QED BY <1>2, <1>3, <1>6, <5>3
      <4>2. CASE ~ Under(S, q)
        BY <1>4, <3>1, <4>2 DEF Agree
      <4> QED BY <4>1, <4>2
    <3>2. {d \in DOMAIN e.val : Len(d) = 1} = {d \in DOMAIN f.val : Len(d) = 1}
      BY <1>2, <1>4, <3>1
    <3>3. Fields(e.val) = Fields(f.val)
      BY <3>2 DEF Fields
    <3> QED BY <1>5, <3>3 DEF SameWrites, Written
  <2>2. CASE e.op # "patch"
    BY <1>5, <2>2 DEF SameWrites, Written
  <2> QED BY <2>1, <2>2
<1>13. ASSUME NEW p \in Path, Determines(e, p), ~ Determines(r, p)
       PROVE  Agree(Apply(EmptyDoc, e), Apply(EmptyDoc, f), p)
  <2>1. Agree(u, t, p)
    BY <1>13, NodeUntouched DEF u
  <2>2. ASSUME NEW s \in Path, p = e.path \o s
        PROVE  Agree(e.val, f.val, s)
    <3>1. CASE Under(S, s)
      <4>1. PICK l \in S : IsPrefix(l, s)
        BY <3>1 DEF Under
      <4>2. /\ s \in DOMAIN e.val <=> p \in DOMAIN t
            /\ s \in DOMAIN e.val => e.val[s] = t[p]
        BY <1>2, <1>3, <2>2, <4>1 DEF InStep
      <4>3. /\ s \in DOMAIN f.val <=> p \in DOMAIN u
            /\ s \in DOMAIN f.val => f.val[s] = u[p]
        BY <1>4, <2>2, <3>1
      <4> QED BY <2>1, <4>2, <4>3 DEF Agree
    <3>2. CASE ~ Under(S, s)
      BY <1>4, <3>2 DEF Agree
    <3> QED BY <3>1, <3>2
  <2>3. IsMutation(e) /\ (<<>> \in DOMAIN e.val => e.val[<<>>] = f.val[<<>>])
    BY <1>7 DEF IsEvent
  <2> QED BY <1>10, <1>12, <1>13, <2>2, <2>3, SameResult
<1> QED BY <1>11, <1>12, <1>13 DEF u, f

\* The event of a mutation, when it is made.
LEMMA PublishedEvent ==
    ASSUME NEW t, IsDoc(t), NEW r, IsMutation(r)
    PROVE  /\ IsEvent(Published(r), Apply(t, r)) /\ SameWrites(Published(r), r)
           /\ Apply(EmptyDoc, Published(r)) = Apply(EmptyDoc, r)
<1> DEFINE u == Apply(t, r)
           f == Published(r)
<1>1. f.op = r.op /\ f.path = r.path /\ f.val = r.val /\ f.shared = Shared(r)
  BY DEF Published
<1>2. f = [op |-> f.op, path |-> f.path, val |-> f.val, shared |-> f.shared]
  BY DEF Published
<1>3. /\ r.path \in Path /\ DOMAIN r.val \subseteq Path /\ IsTree(r.val) /\ <<>> \in DOMAIN r.val
      /\ r.op \in {"put", "patch", "delete"}
  BY DEF IsMutation, IsTree
<1> HIDE DEF f, u
<1>4. SameWrites(f, r)
  BY <1>1 DEF SameWrites, Written
<1>5. Apply(EmptyDoc, f) = Apply(EmptyDoc, r)
  BY <1>1 DEF Apply
<1>6. IsMutation(f)
  BY <1>1 DEF IsMutation
<1>7. Shared(r) \subseteq DOMAIN r.val /\ Shared(r) \subseteq SharePoints(f)
      /\ \A l \in Shared(r) : r.val[l] = Obj /\ r.op # "delete"
  BY <1>1, <1>3 DEF Shared, SharePoints
<1>8. ASSUME NEW l \in Shared(r), NEW q \in Path, IsPrefix(l, q)
      PROVE  /\ q \in DOMAIN r.val <=> r.path \o q \in DOMAIN u
             /\ q \in DOMAIN r.val => r.val[q] = u[r.path \o q]
  <2>1. Writes(r, r.path \o q)
    <3>1. CASE r.op = "put"
      <4>1. IsPrefix(r.path, r.path \o q)
        BY <1>3, PrefixConcat
      <4> QED BY <3>1, <4>1 DEF Writes, Written
    <3>2. CASE r.op = "patch"
      <4>1. l \in DOMAIN r.val /\ l \in Path /\ Len(l) = 1
        BY <1>3, <1>7, <3>2 DEF Shared
      <4>2. l[1] \in Fields(r.val) /\ Append(r.path, l[1]) \in Path
            /\ IsPrefix(Append(r.path, l[1]), r.path \o l)
        <5>1. l # <<>>
          BY <4>1
        <5> QED BY <1>3, <4>1, <5>1, FirstField
      <4>3. IsPrefix(r.path \o l, r.path \o q) /\ r.path \o l \in Path /\ r.path \o q \in Path
        BY <1>3, <1>8, <4>1, ConcatPrefix
      <4>4. IsPrefix(Append(r.path, l[1]), r.path \o q)
        BY <4>2, <4>3, PrefixTransitive
      <4> QED BY <3>2, <4>2, <4>4 DEF Writes, Written
    <3> QED BY <1>3, <1>7, <1>8, <3>1, <3>2
  <2>2. Stored(r) = r.val
    <3>1. CASE r.op = "put"
      BY <1>7, <1>8, <3>1 DEF Stored, Shared
    <3>2. CASE r.op # "put"
      BY <3>2 DEF Stored
    <3> QED BY <3>1, <3>2
  <2>3. r.op # "delete"
    BY <1>7, <1>8
  <2> QED BY <2>1, <2>2, <2>3, NodeStored DEF u
<1>9. InStep(f, u)
  <2>1. ASSUME NEW l \in Shared(r)
        PROVE  r.path \o l \in DOMAIN u /\ u[r.path \o l] = Obj
    <3>1. l \in Path /\ l \in DOMAIN r.val /\ r.val[l] = Obj /\ IsPrefix(l, l)
      BY <1>3, <1>7, <2>1, PrefixPointwise DEF Path
    <3> QED BY <1>8, <2>1, <3>1
  <2> QED BY <1>1, <1>8, <2>1 DEF InStep
<1>10. IsEvent(f, u)
  BY <1>1, <1>2, <1>6, <1>7, <1>9 DEF IsEvent
<1> QED BY <1>4, <1>5, <1>10 DEF f, u

\* Mutations of the same nodes conflict with the same mutations.
LEMMA SameWritesConflict ==
    ASSUME NEW e, NEW r, SameWrites(e, r), NEW s
    PROVE  Conflict(e, s) <=> Conflict(r, s)
BY DEF SameWrites, Conflict, Disturbs, Touched

\* What e makes of the node at p is what tree t has there.
Stands(e, t, p) == Agree(Apply(EmptyDoc, e), t, p)

\* What an event makes of a node still stands after a mutation that does not determine
\* the node, or that does not conflict with it.
LEMMA StandsEdited ==
    ASSUME NEW t, IsDoc(t), NEW e, IsEvent(e, t), NEW r, IsMutation(r),
           NEW p \in Path, Determines(e, p),
           Determines(r, p) => ~ Conflict(e, r),
           ~ Determines(r, p) => Stands(e, t, p)
    PROVE  Stands(Edited(e, r, Apply(t, r)), Apply(t, r), p)
<1> DEFINE u == Apply(t, r)
           f == Edited(e, r, u)
<1>1. /\ IsEvent(f, u) /\ SameWrites(e, f)
      /\ ~ Determines(r, p) => Agree(Apply(EmptyDoc, e), Apply(EmptyDoc, f), p)
  BY EditedEvent
<1>2. IsMutation(e) /\ IsMutation(f)
  BY <1>1 DEF IsEvent
<1> HIDE DEF f
<1>3. ASSUME ~ Determines(r, p)
      PROVE  Stands(f, u, p)
  BY <1>1, <1>3, NodeUntouched DEF Stands, Agree
<1>4. ASSUME Determines(r, p)
      PROVE  Stands(f, u, p)
  <2>1. ~ Writes(e, p) /\ ~ Writes(r, p)
    BY <1>2, <1>4, NoConflict
  <2>2. Determines(f, p) /\ ~ Writes(f, p)
    BY <1>1, <2>1, SameWritesDetermine
  <2>3. p \in DOMAIN u /\ u[p] = Obj
    BY <1>4, <2>1, NodeOnTheWay
  <2>4. p \in DOMAIN Apply(EmptyDoc, f) /\ Apply(EmptyDoc, f)[p] = Obj
    BY <1>2, <2>2, NodeOnTheWay
  <2> QED BY <2>3, <2>4 DEF Stands, Agree
<1> QED BY <1>3, <1>4 DEF f

\* What a mutation makes of the nodes it determines stands when it is made.
LEMMA StandsPublished ==
    ASSUME NEW t, IsDoc(t), NEW r, IsMutation(r), NEW p \in Path, Determines(r, p)
    PROVE  Stands(Published(r), Apply(t, r), p)
BY PublishedEvent, NodeDetermined DEF Stands, Agree

\* The nodes a client with prefix p watches.
Below(p) == {q \in Path : IsPrefix(p, q)}

\* A client that starts from a snapshot has the subtree it watches.
LEMMA SnapshotAgrees ==
    ASSUME NEW t, IsDoc(t), NEW p \in Path, NEW v,
           v = IF p \in DOMAIN t THEN SetAt(EmptyDoc, p, At(t, p)) ELSE EmptyDoc
    PROVE  IsDoc(v) /\ \A d \in Below(p) : Agree(v, t, d)
<1>0. /\ DOMAIN t \subseteq Path /\ <<>> \in DOMAIN t /\ t[<<>>] = Obj
      /\ \A q \in DOMAIN t : t[q] \in Leaf \cup {Obj} /\ \A a \in Ancestors(q) : a \in DOMAIN t /\ t[a] = Obj
  BY DEF IsDoc, IsTree
<1>1. CASE p \in DOMAIN t
  <2> DEFINE s == At(t, p)
             r == [op |-> "put", path |-> p, val |-> s]
  <2>1. DOMAIN s = {q \in Path : p \o q \in DOMAIN t}
    BY <1>0, AtNodes
  <2>2. \A q \in DOMAIN s : s[q] = t[p \o q]
    BY DEF At
  <2>3. s = [q \in DOMAIN s |-> s[q]]
    BY DEF At
  <2>4. <<>> \in DOMAIN s /\ s[<<>>] = t[p]
    <3>1. p \o <<>> = p /\ <<>> \in Path
      BY DEF Path
    <3> HIDE DEF s
    <3> QED BY <1>1, <2>1, <2>2, <3>1
  <2> HIDE DEF s
  <2>5. IsTree(s)
    <3>1. ASSUME NEW q \in DOMAIN s, NEW a \in Ancestors(q)
          PROVE  a \in DOMAIN s /\ s[a] = Obj
      <4>1. q \in Path /\ a \in Path /\ IsPrefix(a, q)
        BY <2>1, <3>1, AncestorsArePrefixes
      <4>2. p \o a \in Ancestors(p \o q)
        BY <3>1, <4>1, ConcatPrefix
      <4>3. p \o a \in DOMAIN t /\ t[p \o a] = Obj
        BY <1>0, <2>1, <3>1, <4>2
      <4> QED BY <2>1, <2>2, <4>1, <4>3
    <3>2. \A q \in DOMAIN s : s[q] \in Leaf \cup {Obj}
      BY <1>0, <2>1, <2>2
    <3>3. s \in [DOMAIN s -> Leaf \cup {Obj}]
      BY <2>3, <3>2
    <3>4. DOMAIN s \in SUBSET Path
      BY <2>1
    <3> QED BY <2>4, <3>1, <3>3, <3>4 DEF IsTree
  <2>6. IsMutation(r) /\ r.op # "delete" /\ r.path = p /\ r.val = s
    BY <2>5 DEF IsMutation
  <2>7. v = Apply(EmptyDoc, r)
    BY <1>1 DEF Apply, s
  <2>8. Stored(r) = s
    <3>1. p = <<>> => s[<<>>] = Obj
      BY <1>0, <2>4
    <3> QED BY <3>1 DEF Stored
  <2> HIDE DEF r
  <2>9. ASSUME NEW d \in Below(p)
        PROVE  Agree(v, t, d)
    <3>1. d \in Path /\ IsPrefix(p, d)
      BY <2>9 DEF Below
    <3>2. PICK q \in Path : d = p \o q
      BY <3>1, PrefixSplit
    <3>3. Writes(r, d)
      BY <3>1, <2>6 DEF Writes, Written, r
    <3>4. /\ d \in DOMAIN v <=> q \in DOMAIN s
          /\ q \in DOMAIN s => v[d] = s[q]
      BY <2>6, <2>7, <2>8, <3>2, <3>3, NodeStored
    <3> QED BY <2>1, <2>2, <3>2, <3>4 DEF Agree
  <2> QED BY <2>6, <2>7, <2>9, EmptyDocIsDoc, ApplyIsDoc
<1>2. CASE p \notin DOMAIN t
  <2>1. v = EmptyDoc /\ p # <<>>
    BY <1>0, <1>2
  <2>2. ASSUME NEW d \in Below(p)
        PROVE  d \notin DOMAIN t /\ d # <<>>
    <3>1. d \in Path /\ IsPrefix(p, d)
      BY <2>2 DEF Below
    <3>2. d # <<>>
      BY <2>1, <3>1 DEF IsPrefix, Path
    <3>3. CASE d = p
      BY <1>2, <3>2, <3>3
    <3>4. CASE d # p
      <4>1. Len(p) < Len(d)
        <5>1. Len(p) \in Nat /\ Len(d) \in Nat
          BY <3>1 DEF Path
        <5>2. Len(p) <= Len(d) /\ \A i \in 1 .. Len(p) : p[i] = d[i]
          BY <3>1, PrefixPointwise
        <5>3. Len(p) # Len(d)
          BY <3>1, <3>4, <5>2 DEF Path
        <5> QED BY <5>1, <5>2, <5>3
      <4>2. p \in Ancestors(d)
        BY <3>1, <4>1, AncestorsArePrefixes
      <4> QED BY <1>0, <1>2, <3>2, <4>2
    <3> QED BY <3>3, <3>4
  <2> QED BY <2>1, <2>2, EmptyDocIsDoc DEF Agree, EmptyDoc
<1> QED BY <1>1, <1>2

-----------------------------------------------------------------------------
(* The inductive invariant. *)

\* What a writer that is in a call was asked for is a mutation.
CallInv ==
    /\ pc \in [Writer -> {"idle", "call", "publish"}] /\ DOMAIN req = Writer
    /\ \A w \in Writer : pc[w] # "idle" => IsMutation(req[w])

\* What is owed or buffered are events of the tree as it is.
EventInv ==
    /\ \A w \in Publishing : IsEvent(event[w], mem) /\ SameWrites(event[w], req[w])
    /\ \A c \in Client : \A i \in 1 .. Len(chan[c]) : IsEvent(chan[c][i], mem)

\* The channel of a client is a sequence of at most Cap events.
Entries(s) == {s[i] : i \in DOMAIN s}
IsBuffer(s) == s \in Seq(Entries(s)) /\ Len(s) <= Cap

\* Only who is inside Publish has clients left to offer its event to, and these are
\* subscribed and watch something of it.
HubInv ==
    /\ DOMAIN chan = Client /\ \A c \in Client : IsBuffer(chan[c])
    /\ \A w \in Writer : todo[w] # {} => w \in inside
    /\ \A w \in Writer : \A c \in todo[w] : c \in subs /\ Comparable(Prefix[c], req[w].path)

\* A client has nothing before its snapshot; the histories have their types.
StreamInv ==
    /\ DOMAIN view = Client
    /\ \A c \in Client : conn[c] \in {"off", "subscribed"} => view[c] = EmptyDoc
    /\ raced \in [Client -> BOOLEAN] /\ missed \in [Client -> BOOLEAN]
    /\ older \in [Writer -> SUBSET Writer] /\ overtaken \in [Writer -> SUBSET Client]

\* The event of w's mutation has yet to be offered to c.
Due(w, c) ==
    /\ w \in Publishing /\ Comparable(Prefix[c], req[w].path)
    /\ w \in inside => c \in todo[w]

\* A younger mutation that conflicts with w's and determines p is due to c, too.
Younger(w, c, p) ==
    \E v \in Writer :
        /\ v # w /\ w \in older[v] /\ Due(v, c)
        /\ Conflict(req[w], req[v]) /\ Determines(req[v], p)

\* What is due to a client stands in memory, unless a younger mutation undid it.
DueStands ==
    \A c \in Client, w \in Writer : Due(w, c) /\ c \notin overtaken[w] =>
        \A p \in Below(Prefix[c]) : Determines(req[w], p) =>
            Stands(event[w], mem, p) \/ Younger(w, c, p)

\* A mutation that is due to c determines p.
DueFor(c, p) == \E w \in Writer : Due(w, c) /\ Determines(req[w], p)

\* An event behind the first i in the channel of c determines p.
Behind(c, i, p) == \E j \in i + 1 .. Len(chan[c]) : Determines(chan[c][j], p)

\* A connection that is subscribed, has missed nothing and got nothing too late.
Faithful(c) == c \in subs /\ ~ missed[c] /\ ~ raced[c]

\* What is in a channel stands in memory, unless something behind it undid it.
Buffered(c) ==
    Faithful(c) => \A i \in 1 .. Len(chan[c]), p \in Below(Prefix[c]) :
        Determines(chan[c][i], p) =>
            Stands(chan[c][i], mem, p) \/ Behind(c, i, p) \/ DueFor(c, p)

\* A client has what is in memory, but for what is on its way to it.
Viewed(c) ==
    Faithful(c) /\ conn[c] = "live" => \A p \in Below(Prefix[c]) :
        Agree(view[c], mem, p) \/ Behind(c, 0, p) \/ DueFor(c, p)

\* What the rest of the invariant needs of each part of the state.
TypeInv == TypeOK /\ CallInv /\ EventInv /\ HubInv /\ StreamInv

\* The inductive invariant.
IInv == TypeInv /\ DueStands /\ \A c \in Client : Buffered(c) /\ Viewed(c)

-----------------------------------------------------------------------------
(* The types. *)

\* The database of TreeStore applies mutations as the clients do.
LEMMA SameDatabase == Db!EmptyDoc = EmptyDoc /\ \A t, r : Db!Apply(t, r) = Apply(t, r)
<1>1. Db!EmptyDoc = EmptyDoc
  BY DEF Db!EmptyDoc, EmptyDoc
<1>2. \A t, p, v : Db!Graft(t, p, v) = Graft(t, p, v)
  BY DEF Db!Graft, Graft, Db!Ancestors, Ancestors
<1>3. \A t, P : Db!Prune(t, P) = Prune(t, P)
  BY DEF Db!Prune, Prune, Db!IsPrefix, IsPrefix
<1>4. \A t, p, v : Db!SetAt(t, p, v) = SetAt(t, p, v)
  BY <1>1, <1>2, <1>3 DEF Db!SetAt, SetAt
<1>5. \A t, p, v : Db!UpdateAt(t, p, v) = UpdateAt(t, p, v)
  BY <1>2, <1>3 DEF Db!UpdateAt, UpdateAt, Db!Fields, Fields
<1>6. \A t, p : Db!DeleteAt(t, p) = DeleteAt(t, p)
  BY <1>1, <1>3 DEF Db!DeleteAt, DeleteAt
<1> QED BY <1>1, <1>4, <1>5, <1>6 DEF Db!Apply, Apply

\* The hub compares paths as JsonTree does.
LEMMA SameHub == \A p, q : TheHub!Comparable(p, q) = Comparable(p, q)
BY DEF TheHub!Comparable, Comparable, TheHub!IsPrefix, IsPrefix

\* Who is publishing after a step, and what is asked for then.
LEMMA RequestStep ==
    ASSUME CallInv, NEW w \in Writer, Request(w)
    PROVE  CallInv' /\ w \notin Publishing /\ Publishing' = Publishing
           /\ \A v \in Publishing : req'[v] = req[v]
<1>1. PICK r : IsMutation(r) /\ req' = [req EXCEPT ![w] = r]
               /\ pc[w] = "idle" /\ pc' = [pc EXCEPT ![w] = "call"]
  <2>1. PICK c \in Requests : Db!Call(w, c) \/ \E k \in PushKey : Db!CallPush(w, c, k)
    BY DEF Request
  <2>2. CASE Db!Call(w, c)
    BY <2>1, <2>2, RequestsAreCalls DEF Db!Call
  <2>3. CASE \E k \in PushKey : Db!CallPush(w, c, k)
    <3>1. PICK k \in PushKey : Db!CallPush(w, c, k)
      BY <2>3
    <3> DEFINE r == [op |-> "put", path |-> Append(c.path, k), val |-> c.val]
    <3>2. c.path \in Path /\ IsTree(c.val) /\ k \in Key
      BY <2>1, <3>1, RequestsAreCalls, PushKeysAreKeys DEF Db!CallPush
    <3>3. IsMutation(r)
      BY <3>2, MemberPath DEF IsMutation
    <3> HIDE DEF r
    <3>4. req' = [req EXCEPT ![w] = r] /\ pc[w] = "idle" /\ pc' = [pc EXCEPT ![w] = "call"]
      BY <3>1 DEF Db!CallPush, r
    <3> QED BY <3>3, <3>4
  <2> QED BY <2>1, <2>2, <2>3
<1>2. CallInv'
  BY <1>1 DEF CallInv
<1> QED BY <1>1, <1>2 DEF Publishing, CallInv

\* A mutation that is saved is the one its writer publishes next.
LEMMA WriteStep ==
    ASSUME CallInv, NEW w \in Writer, Write(w)
    PROVE  CallInv' /\ w \notin Publishing /\ Publishing' = Publishing \cup {w}
           /\ req' = req /\ IsMutation(req[w]) /\ mem' = Apply(mem, req[w])
<1>1. /\ pc[w] = "call" /\ pc' = [pc EXCEPT ![w] = "publish"] /\ req' = req
      /\ mem' = Apply(mem, req[w])
  BY SameDatabase DEF Write, Db!Write
<1> QED BY <1>1 DEF CallInv, Publishing

\* A mutation whose save fails is in memory and is not published.
LEMMA FailStep ==
    ASSUME CallInv, NEW w \in Writer, Fail(w)
    PROVE  CallInv' /\ w \notin Publishing /\ Publishing' = Publishing
           /\ (\A v \in Publishing : req'[v] = req[v])
           /\ IsMutation(req[w]) /\ mem' = Apply(mem, req[w])
<1>1. /\ pc[w] = "call" /\ pc' = [pc EXCEPT ![w] = "idle"] /\ req' = [req EXCEPT ![w] = NoReq]
      /\ mem' = Apply(mem, req[w])
  BY SameDatabase DEF Fail, Db!Fail
<1> QED BY <1>1 DEF CallInv, Publishing

\* A writer that has published is done with its call.
LEMMA EndPublishStep ==
    ASSUME CallInv, NEW w \in Writer, EndPublish(w)
    PROVE  CallInv' /\ w \in Publishing /\ Publishing' = Publishing \ {w} /\ mem' = mem
           /\ \A v \in Writer \ {w} : req'[v] = req[v]
<1>1. /\ pc[w] = "publish" /\ pc' = [pc EXCEPT ![w] = "idle"]
      /\ req' = [req EXCEPT ![w] = NoReq] /\ mem' = mem
  BY DEF EndPublish, Db!Publish
<1> QED BY <1>1 DEF CallInv, Publishing

\* Nobody publishes after a restart.
LEMMA RestartStep ==
    ASSUME Restart
    PROVE  CallInv' /\ Publishing' = {} /\ mem' = disk /\ disk' = disk
BY DEF Restart, Db!Restart, CallInv, Publishing

\* The steps of the hub and of the streams leave the calls alone.
LEMMA DatabaseKept ==
    ASSUME CallInv, UNCHANGED dbVars
    PROVE  CallInv' /\ Publishing' = Publishing /\ req' = req /\ mem' = mem
BY DEF dbVars, CallInv, Publishing

\* Every step keeps what the calls are.
LEMMA NextCallInv == CallInv /\ [Next]_vars => CallInv'
<1> SUFFICES ASSUME CallInv, [Next]_vars PROVE CallInv'
  OBVIOUS
<1>1. ASSUME NEW w \in Writer, Request(w) \/ Write(w) \/ Fail(w) \/ EndPublish(w)
      PROVE  CallInv'
  BY <1>1, RequestStep, WriteStep, FailStep, EndPublishStep
<1>2. CASE UNCHANGED dbVars
  BY <1>2, DatabaseKept
<1>3. CASE Restart
  BY <1>3, RestartStep
<1>4. ASSUME NEW w \in Writer, StartPublish(w)
      PROVE  CallInv'
  BY <1>2, <1>4 DEF StartPublish
<1>5. ASSUME NEW w \in Writer, NEW c \in Client, Deliver(w, c)
      PROVE  CallInv'
  BY <1>2, <1>5 DEF Deliver
<1>6. ASSUME NEW c \in Client, Connect(c) \/ Snapshot(c) \/ Forward(c) \/ Close(c) \/ Disconnect(c)
      PROVE  CallInv'
  BY <1>2, <1>6 DEF Connect, Snapshot, Forward, Close, Disconnect
<1>7. CASE UNCHANGED vars
  BY <1>2, <1>7 DEF vars
<1> QED BY <1>1, <1>3, <1>4, <1>5, <1>6, <1>7 DEF Next

\* A function on 1 .. n is a sequence of its values.
LEMMA SeqOfEntries ==
    ASSUME NEW s, NEW n \in Nat, DOMAIN s = 1 .. n, s = [i \in DOMAIN s |-> s[i]]
    PROVE  s \in Seq(Entries(s)) /\ Len(s) = n
<1> DEFINE R == Entries(s)
<1>1. \A i \in 1 .. n : s[i] \in R
  BY DEF Entries
<1> HIDE DEF R
<1>2. s \in [1 .. n -> R]
  BY <1>1
<1>3. s \in Seq(R) /\ Len(s) = n
  BY <1>2
<1> QED BY <1>3 DEF R

\* Any sequence that is short enough is a buffer.
LEMMA SeqIsBuffer ==
    ASSUME NEW S, NEW s \in Seq(S), Len(s) <= Cap
    PROVE  IsBuffer(s)
<1>1. PICK n \in Nat : DOMAIN s = 1 .. n /\ s = [i \in DOMAIN s |-> s[i]]
  <2>1. Len(s) \in Nat /\ DOMAIN s = 1 .. Len(s) /\ s = [i \in DOMAIN s |-> s[i]]
    OBVIOUS
  <2> QED BY <2>1
<1> QED BY <1>1, SeqOfEntries DEF IsBuffer

\* The empty channel is one.
LEMMA EmptyBuffer == IsBuffer(<<>>)
BY HubConstants DEF IsBuffer

\* Taking the first event shifts the others.
LEMMA TailBuffer ==
    ASSUME NEW s, IsBuffer(s), s # <<>>
    PROVE  /\ IsBuffer(Tail(s)) /\ Head(s) = s[1] /\ 1 \in 1 .. Len(s)
           /\ Len(s) \in Nat /\ Len(Tail(s)) = Len(s) - 1
           /\ \A i \in 1 .. Len(Tail(s)) : Tail(s)[i] = s[i + 1] /\ i + 1 \in 1 .. Len(s)
<1> DEFINE S == Entries(s)
<1>0. s \in Seq(S) /\ Len(s) <= Cap
  BY DEF IsBuffer
<1> HIDE DEF S
<1>1. /\ Tail(s) \in Seq(S) /\ Head(s) = s[1] /\ 1 \in 1 .. Len(s)
      /\ Len(s) \in Nat /\ Len(Tail(s)) = Len(s) - 1
      /\ \A i \in 1 .. Len(Tail(s)) : Tail(s)[i] = s[i + 1] /\ i + 1 \in 1 .. Len(s)
  BY <1>0
<1>2. Len(Tail(s)) <= Cap
  BY <1>0, <1>1, HubConstants
<1> QED BY <1>1, <1>2, SeqIsBuffer

\* Appending to a channel with room keeps the events that are in it.
LEMMA AppendBuffer ==
    ASSUME NEW s, IsBuffer(s), Len(s) # Cap, NEW e
    PROVE  /\ IsBuffer(Append(s, e)) /\ Len(s) \in Nat /\ Len(Append(s, e)) = Len(s) + 1
           /\ \A i \in 1 .. Len(s) : Append(s, e)[i] = s[i]
           /\ Append(s, e)[Len(s) + 1] = e
<1> DEFINE S == Entries(s) \cup {e}
<1>1. s \in Seq(S) /\ e \in S /\ Len(s) <= Cap
  BY DEF IsBuffer, Entries
<1> HIDE DEF S
<1>2. /\ Append(s, e) \in Seq(S) /\ Len(s) \in Nat /\ Len(Append(s, e)) = Len(s) + 1
      /\ \A i \in 1 .. Len(s) : Append(s, e)[i] = s[i]
      /\ Append(s, e)[Len(s) + 1] = e
  BY <1>1
<1>3. Len(Append(s, e)) <= Cap
  BY <1>1, <1>2, HubConstants
<1> QED BY <1>2, <1>3, SeqIsBuffer

\* Editing the events of a channel keeps their number.
LEMMA EditedBuffer ==
    ASSUME NEW s, IsBuffer(s), NEW f, f = [i \in DOMAIN s |-> f[i]]
    PROVE  IsBuffer(f) /\ Len(f) = Len(s) /\ DOMAIN s = 1 .. Len(s) /\ Len(s) \in Nat
<1>1. DOMAIN s = 1 .. Len(s) /\ Len(s) \in Nat /\ Len(s) <= Cap
  BY DEF IsBuffer
<1>2. f \in [1 .. Len(s) -> Entries(f)]
  <2>1. DOMAIN f = 1 .. Len(s) /\ f = [i \in 1 .. Len(s) |-> f[i]]
    BY <1>1
  <2>2. \A i \in 1 .. Len(s) : f[i] \in Entries(f)
    BY <2>1 DEF Entries
  <2> QED BY <2>1, <2>2
<1>3. f \in Seq(Entries(f)) /\ Len(f) = Len(s)
  BY <1>1, <1>2
<1> QED BY <1>1, <1>3 DEF IsBuffer

\* A mutation edits every event that is buffered, in place.
LEMMA EditedBuffers ==
    ASSUME TypeInv, NEW r, IsMutation(r), mem' = Apply(mem, r), EditEvents(r)
    PROVE  /\ DOMAIN chan' = Client
           /\ \A c \in Client :
                 /\ IsBuffer(chan'[c]) /\ Len(chan'[c]) = Len(chan[c]) /\ Len(chan[c]) \in Nat
                 /\ \A i \in 1 .. Len(chan[c]) :
                       chan'[c][i] = Edited(chan[c][i], r, mem') /\ IsEvent(chan'[c][i], mem')
<1>1. chan' = [c \in Client |-> [i \in DOMAIN chan[c] |-> Edited(chan[c][i], r, mem')]]
  BY DEF EditEvents
<1>2. ASSUME NEW c \in Client
      PROVE  /\ IsBuffer(chan'[c]) /\ Len(chan'[c]) = Len(chan[c]) /\ Len(chan[c]) \in Nat
             /\ \A i \in 1 .. Len(chan[c]) :
                   chan'[c][i] = Edited(chan[c][i], r, mem') /\ IsEvent(chan'[c][i], mem')
  <2>1. PICK f : f = chan'[c]
    OBVIOUS
  <2>2. PICK s : s = chan[c]
    OBVIOUS
  <2>3. IsBuffer(s)
    BY <2>2 DEF TypeInv, HubInv
  <2>4. f = [i \in DOMAIN s |-> Edited(s[i], r, mem')]
    BY <1>1, <2>1, <2>2
  <2>5. DOMAIN f = DOMAIN s /\ f = [i \in DOMAIN s |-> f[i]]
        /\ \A i \in DOMAIN s : f[i] = Edited(s[i], r, mem')
    BY <2>4
  <2>6. IsBuffer(f) /\ Len(f) = Len(s) /\ DOMAIN s = 1 .. Len(s) /\ Len(s) \in Nat
    BY <2>3, <2>5, EditedBuffer
  <2>7. ASSUME NEW i \in 1 .. Len(s)
        PROVE  IsEvent(f[i], mem')
    <3>1. IsEvent(s[i], mem) /\ IsDoc(mem)
      BY <2>2, <2>7 DEF TypeInv, EventInv, TypeOK
    <3>2. IsEvent(Edited(s[i], r, Apply(mem, r)), Apply(mem, r))
      BY <3>1, EditedEvent
    <3> QED BY <2>5, <2>6, <2>7, <3>2
  <2> QED BY <2>1, <2>2, <2>5, <2>6, <2>7
<1> QED BY <1>1, <1>2

\* The documents, the connections and the calls keep their types.
LEMMA NextTypeOK == TypeInv /\ [Next]_vars => TypeOK'
<1> SUFFICES ASSUME TypeInv, [Next]_vars PROVE TypeOK'
  OBVIOUS
<1>0. TypeOK /\ CallInv /\ EventInv /\ HubInv /\ StreamInv
  BY DEF TypeInv
<1>1. ASSUME NEW w \in Writer, Request(w)
      PROVE  TypeOK'
  BY <1>0, <1>1, RequestStep DEF Request, Db!Call, Db!CallPush, TypeOK, hubVars, history
<1>2. ASSUME NEW w \in Writer, Write(w)
      PROVE  TypeOK'
  <2>1. /\ Publishing' = Publishing \cup {w} /\ IsMutation(req[w]) /\ mem' = Apply(mem, req[w])
        /\ disk' = mem'
    BY <1>0, <1>2, WriteStep DEF Write, Db!Write
  <2>2. IsDoc(mem')
    BY <1>0, <2>1, ApplyIsDoc DEF TypeOK
  <2>3. \A c \in Client : IsBuffer(chan'[c])
    BY <1>2, <2>1, EditedBuffers DEF Write
  <2>4. DOMAIN event' = Publishing' /\ UNCHANGED <<subs, inside, todo, conn, view>>
    BY <1>0, <1>2, <2>1 DEF Write, TypeOK
  <2> QED BY <1>0, <2>1, <2>2, <2>3, <2>4 DEF TypeOK, IsBuffer
<1>3. ASSUME NEW w \in Writer, Fail(w)
      PROVE  TypeOK'
  <2>1. /\ Publishing' = Publishing /\ IsMutation(req[w]) /\ mem' = Apply(mem, req[w])
        /\ disk' = disk
    BY <1>0, <1>3, FailStep DEF Fail, Db!Fail
  <2>2. IsDoc(mem')
    BY <1>0, <2>1, ApplyIsDoc DEF TypeOK
  <2>3. \A c \in Client : IsBuffer(chan'[c])
    BY <1>3, <2>1, EditedBuffers DEF Fail
  <2>4. DOMAIN event' = Publishing' /\ UNCHANGED <<subs, inside, todo, conn, view>>
    BY <1>0, <1>3, <2>1 DEF Fail, TypeOK
  <2> QED BY <1>0, <2>1, <2>2, <2>3, <2>4 DEF TypeOK, IsBuffer
<1>4. ASSUME NEW w \in Writer, StartPublish(w)
      PROVE  TypeOK'
  <2>1. /\ Publishing' = Publishing /\ UNCHANGED <<mem, disk, subs, chan, conn, view, event>>
        /\ w \in Publishing
        /\ inside' = inside \cup {w}
    BY <1>0, <1>4, DatabaseKept DEF StartPublish, TheHub!Enter, dbVars, Publishing
  <2>2. todo' = [todo EXCEPT ![w] = {s \in subs : TheHub!Matches(Prefix[s], event[w].path)}]
    BY <1>4 DEF StartPublish, TheHub!Enter
  <2>3. todo' \in [Writer -> SUBSET Client]
    BY <1>0, <2>2 DEF TypeOK
  <2> QED BY <1>0, <2>1, <2>3 DEF TypeOK
<1>5. ASSUME NEW w \in Writer, EndPublish(w)
      PROVE  TypeOK'
  <2>1. /\ Publishing' = Publishing \ {w} /\ UNCHANGED <<mem, disk, subs, chan, todo, conn, view>>
        /\ inside' = inside \ {w}
        /\ event' = Restrict(event, DOMAIN event \ {w})
    BY <1>0, <1>5, EndPublishStep DEF EndPublish, TheHub!Leave, Db!Publish
  <2>2. DOMAIN event' = Publishing'
    BY <1>0, <2>1 DEF Restrict, TypeOK
  <2> QED BY <1>0, <2>1, <2>2 DEF TypeOK
<1>6. ASSUME NEW w \in Writer, NEW c \in Client, Deliver(w, c)
      PROVE  TypeOK'
  <2>1. /\ Publishing' = Publishing /\ UNCHANGED <<mem, disk, subs, inside, conn, view, event>>
        /\ todo' = [todo EXCEPT ![w] = @ \ {c}]
        /\ chan' = [chan EXCEPT ![c] = IF TheHub!Full(c) THEN @ ELSE Append(@, event[w])]
    BY <1>0, <1>6, DatabaseKept DEF Deliver, TheHub!Offer, dbVars
  <2>2. IsBuffer(chan[c])
    BY <1>0 DEF HubInv
  <2>3. Len(chan'[c]) <= Cap
    <3>1. CASE TheHub!Full(c)
      BY <1>0, <2>1, <2>2, <3>1 DEF HubInv, IsBuffer
    <3>2. CASE ~ TheHub!Full(c)
      <4>1. chan'[c] = Append(chan[c], event[w]) /\ Len(chan[c]) # Cap
        BY <1>0, <2>1, <3>2 DEF HubInv, TheHub!Full
      <4> QED BY <2>2, <4>1, AppendBuffer DEF IsBuffer
    <3> QED BY <3>1, <3>2
  <2>4. todo' \in [Writer -> SUBSET Client]
    BY <1>0, <2>1 DEF TypeOK
  <2>5. \A d \in Client : d # c => chan'[d] = chan[d]
    BY <1>0, <2>1 DEF HubInv
  <2>6. \A d \in Client : Len(chan'[d]) <= Cap
    BY <1>0, <2>3, <2>5 DEF TypeOK
  <2> QED BY <1>0, <2>1, <2>4, <2>6 DEF TypeOK
<1>7. ASSUME NEW c \in Client, Connect(c)
      PROVE  TypeOK'
  <2>1. /\ Publishing' = Publishing /\ UNCHANGED <<mem, disk, inside, todo, view, event>>
        /\ subs' = subs \cup {c} /\ conn' = [conn EXCEPT ![c] = "subscribed"]
        /\ chan' = [chan EXCEPT ![c] = <<>>]
    BY <1>0, <1>7, DatabaseKept DEF Connect, TheHub!Subscribe, dbVars
  <2>2. \A d \in Client : Len(chan'[d]) <= Cap
    BY <1>0, <2>1, EmptyBuffer DEF TypeOK, HubInv, IsBuffer
  <2>3. conn' \in [Client -> {"off", "subscribed", "live", "closing"}]
        /\ subs' = {d \in Client : conn'[d] # "off"}
    BY <1>0, <2>1 DEF TypeOK
  <2> QED BY <1>0, <2>1, <2>2, <2>3 DEF TypeOK
<1>8. ASSUME NEW c \in Client, Snapshot(c)
      PROVE  TypeOK'
  <2>1. /\ Publishing' = Publishing /\ UNCHANGED <<mem, disk, subs, chan, inside, todo, event>>
        /\ conn[c] = "subscribed" /\ conn' = [conn EXCEPT ![c] = "live"]
        /\ view' = [view EXCEPT ![c] =
              IF Prefix[c] \in DOMAIN mem THEN SetAt(@, Prefix[c], At(mem, Prefix[c])) ELSE @]
    BY <1>0, <1>8, DatabaseKept DEF Snapshot, dbVars, hubVars
  <2>2. IsDoc(view'[c])
    <3>1. view[c] = EmptyDoc /\ Prefix[c] \in Path /\ IsDoc(mem)
      BY <1>0, <2>1, HubConstants DEF StreamInv, TypeOK
    <3>2. view'[c] = IF Prefix[c] \in DOMAIN mem
                     THEN SetAt(EmptyDoc, Prefix[c], At(mem, Prefix[c])) ELSE EmptyDoc
      BY <1>0, <2>1, <3>1 DEF StreamInv
    <3> QED BY <3>1, <3>2, SnapshotAgrees
  <2>3. \A d \in Client : IsDoc(view'[d])
    BY <1>0, <2>1, <2>2 DEF TypeOK, StreamInv
  <2>4. conn' \in [Client -> {"off", "subscribed", "live", "closing"}]
        /\ subs' = {d \in Client : conn'[d] # "off"}
    BY <1>0, <2>1 DEF TypeOK
  <2> QED BY <1>0, <2>1, <2>3, <2>4 DEF TypeOK
<1>9. ASSUME NEW c \in Client, Forward(c)
      PROVE  TypeOK'
  <2>1. /\ Publishing' = Publishing /\ UNCHANGED <<mem, disk, subs, inside, todo, conn, event>>
        /\ chan[c] # <<>> /\ chan' = [chan EXCEPT ![c] = Tail(@)]
        /\ view' = [view EXCEPT ![c] = Apply(@, Head(chan[c]))]
    BY <1>0, <1>9, DatabaseKept DEF Forward, TheHub!Receive, dbVars
  <2>2. IsBuffer(chan[c])
    BY <1>0 DEF HubInv
  <2>3. /\ IsBuffer(Tail(chan[c])) /\ Head(chan[c]) = chan[c][1] /\ 1 \in 1 .. Len(chan[c])
    BY <2>1, <2>2, TailBuffer
  <2>4. IsDoc(Apply(view[c], Head(chan[c])))
    BY <1>0, <2>3, ApplyIsDoc DEF EventInv, IsEvent, TypeOK
  <2>5. \A d \in Client : Len(chan'[d]) <= Cap
    BY <1>0, <2>1, <2>3 DEF TypeOK, HubInv, IsBuffer
  <2>6. \A d \in Client : IsDoc(view'[d])
    BY <1>0, <2>1, <2>4 DEF TypeOK, StreamInv
  <2> QED BY <1>0, <2>1, <2>5, <2>6 DEF TypeOK
<1>10. ASSUME NEW c \in Client, Close(c)
       PROVE  TypeOK'
  BY <1>0, <1>10, DatabaseKept DEF Close, TypeOK, dbVars, hubVars
<1>11. ASSUME NEW c \in Client, Disconnect(c)
       PROVE  TypeOK'
  <2>1. /\ Publishing' = Publishing /\ UNCHANGED <<mem, disk, chan, inside, todo, event>>
        /\ subs' = subs \ {c} /\ conn' = [conn EXCEPT ![c] = "off"]
        /\ view' = [view EXCEPT ![c] = EmptyDoc]
    BY <1>0, <1>11, DatabaseKept DEF Disconnect, TheHub!Unsubscribe, dbVars
  <2>2. \A d \in Client : IsDoc(view'[d])
    BY <1>0, <2>1, EmptyDocIsDoc DEF TypeOK, StreamInv
  <2>3. conn' \in [Client -> {"off", "subscribed", "live", "closing"}]
        /\ subs' = {d \in Client : conn'[d] # "off"}
    BY <1>0, <2>1 DEF TypeOK
  <2> QED BY <1>0, <2>1, <2>2, <2>3 DEF TypeOK
<1>12. CASE Restart
  <2>1. Publishing' = {} /\ IsDoc(mem') /\ IsDoc(disk')
    BY <1>0, <1>12, RestartStep DEF TypeOK
  <2>2. /\ subs' = {} /\ inside' = {} /\ DOMAIN event' = {}
        /\ conn' = [c \in Client |-> "off"] /\ todo' = [w \in Writer |-> {}]
        /\ \A c \in Client : view'[c] = EmptyDoc /\ chan'[c] = <<>>
    BY <1>12 DEF Restart, NoEvents
  <2> QED BY <2>1, <2>2, EmptyDocIsDoc, EmptyBuffer DEF TypeOK, IsBuffer
<1>13. CASE UNCHANGED vars
  BY <1>0, <1>13, DatabaseKept DEF vars, TypeOK, dbVars, hubVars, history
<1> QED BY <1>1, <1>2, <1>3, <1>4, <1>5, <1>6, <1>7, <1>8, <1>9, <1>10, <1>11, <1>12, <1>13 DEF Next

\* What is on its way stays what it is: nothing is published but the event of a
\* mutation, and the events are edited as the tree is.
LEMMA NextEventInv == TypeInv /\ [Next]_vars => EventInv'
<1> SUFFICES ASSUME TypeInv, [Next]_vars PROVE EventInv'
  OBVIOUS
<1>0. TypeOK /\ CallInv /\ EventInv /\ HubInv /\ StreamInv /\ IsDoc(mem)
  BY DEF TypeInv, TypeOK
<1>k. ASSUME mem' = mem, Publishing' \subseteq Publishing,
             \A v \in Publishing' : event'[v] = event[v] /\ req'[v] = req[v],
             \A c \in Client : \A i \in 1 .. Len(chan'[c]) : IsEvent(chan'[c][i], mem)
      PROVE  EventInv'
  BY <1>0, <1>k DEF EventInv
<1>e. \A v \in Publishing : v \in Writer /\ v \in DOMAIN event
  BY <1>0 DEF TypeOK, Publishing
<1>1. ASSUME NEW w \in Writer, Request(w)
      PROVE  EventInv'
  <2>1. mem' = mem /\ event' = event /\ chan' = chan
    BY <1>1 DEF Request, Db!Call, Db!CallPush, hubVars
  <2> QED BY <1>0, <1>1, <1>k, <2>1, RequestStep DEF EventInv
<1>2. ASSUME NEW w \in Writer, Write(w)
      PROVE  EventInv'
  <2>1. /\ Publishing' = Publishing \cup {w} /\ w \notin Publishing /\ req' = req
        /\ IsMutation(req[w]) /\ mem' = Apply(mem, req[w])
    BY <1>0, <1>2, WriteStep
  <2>2. \A c \in Client : \A i \in 1 .. Len(chan'[c]) : IsEvent(chan'[c][i], mem')
    <3>1. EditEvents(req[w])
      BY <1>2 DEF Write
    <3> QED BY <2>1, <3>1, EditedBuffers
  <2>3. event' = [v \in DOMAIN event \cup {w} |->
                     IF v = w THEN Published(req[w]) ELSE Edited(event[v], req[w], mem')]
    BY <1>2 DEF Write
  <2>4. IsEvent(event'[w], mem') /\ SameWrites(event'[w], req'[w])
    BY <1>0, <2>1, <2>3, PublishedEvent
  <2>5. ASSUME NEW v \in Publishing
        PROVE  IsEvent(event'[v], mem') /\ SameWrites(event'[v], req'[v])
    <3>1. event'[v] = Edited(event[v], req[w], Apply(mem, req[w])) /\ v # w
      BY <1>e, <2>1, <2>3
    <3>2. IsEvent(event[v], mem) /\ SameWrites(event[v], req[v])
      BY <1>0 DEF EventInv
    <3> QED BY <1>0, <2>1, <3>1, <3>2, EditedEvent DEF SameWrites
  <2> QED BY <2>1, <2>2, <2>4, <2>5 DEF EventInv
<1>3. ASSUME NEW w \in Writer, Fail(w)
      PROVE  EventInv'
  <2>1. /\ Publishing' = Publishing /\ (\A v \in Publishing : req'[v] = req[v])
        /\ IsMutation(req[w]) /\ mem' = Apply(mem, req[w])
    BY <1>0, <1>3, FailStep
  <2>2. \A c \in Client : \A i \in 1 .. Len(chan'[c]) : IsEvent(chan'[c][i], mem')
    <3>1. EditEvents(req[w])
      BY <1>3 DEF Fail
    <3> QED BY <2>1, <3>1, EditedBuffers
  <2>3. event' = [v \in DOMAIN event |-> Edited(event[v], req[w], mem')]
    BY <1>3 DEF Fail
  <2>4. ASSUME NEW v \in Publishing
        PROVE  IsEvent(event'[v], mem') /\ SameWrites(event'[v], req'[v])
    <3>1. event'[v] = Edited(event[v], req[w], Apply(mem, req[w])) /\ req'[v] = req[v]
      BY <1>e, <2>1, <2>3
    <3>2. IsEvent(event[v], mem) /\ SameWrites(event[v], req[v])
      BY <1>0 DEF EventInv
    <3> QED BY <1>0, <2>1, <3>1, <3>2, EditedEvent DEF SameWrites
  <2> QED BY <2>1, <2>2, <2>4 DEF EventInv
<1>4. ASSUME NEW w \in Writer, StartPublish(w)
      PROVE  EventInv'
  <2>1. event' = event /\ chan' = chan /\ UNCHANGED dbVars
    BY <1>4 DEF StartPublish, TheHub!Enter
  <2> QED BY <1>0, <1>k, <2>1, DatabaseKept DEF EventInv
<1>5. ASSUME NEW w \in Writer, EndPublish(w)
      PROVE  EventInv'
  <2>1. event' = Restrict(event, DOMAIN event \ {w}) /\ chan' = chan
    BY <1>5 DEF EndPublish, TheHub!Leave
  <2>2. Publishing' = Publishing \ {w} /\ mem' = mem /\ \A v \in Writer \ {w} : req'[v] = req[v]
    BY <1>0, <1>5, EndPublishStep
  <2>3. \A v \in Publishing' : event'[v] = event[v] /\ req'[v] = req[v]
    BY <1>e, <2>1, <2>2 DEF Restrict
  <2> QED BY <1>0, <1>k, <2>1, <2>2, <2>3 DEF EventInv
<1>6. ASSUME NEW w \in Writer, NEW c \in Client, Deliver(w, c)
      PROVE  EventInv'
  <2>1. /\ event' = event /\ UNCHANGED dbVars /\ w \in DOMAIN event
        /\ chan' = [chan EXCEPT ![c] = IF TheHub!Full(c) THEN @ ELSE Append(@, event[w])]
    BY <1>6 DEF Deliver, TheHub!Offer
  <2>2. IsEvent(event[w], mem)
    BY <1>0, <2>1 DEF EventInv, TypeOK
  <2>3. \A d \in Client : d # c => chan'[d] = chan[d]
    BY <1>0, <2>1 DEF HubInv
  <2>4. \A i \in 1 .. Len(chan'[c]) : IsEvent(chan'[c][i], mem)
    <3>1. CASE TheHub!Full(c)
      BY <1>0, <2>1, <3>1 DEF HubInv, EventInv
    <3>2. CASE ~ TheHub!Full(c)
      <4>1. chan'[c] = Append(chan[c], event[w]) /\ Len(chan[c]) # Cap /\ IsBuffer(chan[c])
        BY <1>0, <2>1, <3>2 DEF HubInv, TheHub!Full
      <4>2. /\ Len(chan[c]) \in Nat /\ Len(chan'[c]) = Len(chan[c]) + 1
            /\ \A i \in 1 .. Len(chan[c]) : chan'[c][i] = chan[c][i]
            /\ chan'[c][Len(chan[c]) + 1] = event[w]
        BY <4>1, AppendBuffer
      <4>3. \A i \in 1 .. Len(chan'[c]) : i \in 1 .. Len(chan[c]) \/ i = Len(chan[c]) + 1
        BY <4>2
      <4> QED BY <1>0, <2>2, <4>2, <4>3 DEF EventInv
    <3> QED BY <3>1, <3>2
  <2>5. \A d \in Client : \A i \in 1 .. Len(chan'[d]) : IsEvent(chan'[d][i], mem)
    BY <1>0, <2>3, <2>4 DEF EventInv
  <2> QED BY <1>0, <1>k, <2>1, <2>5, DatabaseKept
<1>7. ASSUME NEW c \in Client, Connect(c)
      PROVE  EventInv'
  <2>1. event' = event /\ UNCHANGED dbVars /\ chan' = [chan EXCEPT ![c] = <<>>]
    BY <1>7 DEF Connect, TheHub!Subscribe
  <2>2. \A d \in Client : \A i \in 1 .. Len(chan'[d]) : IsEvent(chan'[d][i], mem)
    BY <1>0, <2>1 DEF EventInv, HubInv
  <2> QED BY <1>0, <1>k, <2>1, <2>2, DatabaseKept
<1>8. ASSUME NEW c \in Client, Forward(c)
      PROVE  EventInv'
  <2>1. event' = event /\ UNCHANGED dbVars /\ chan[c] # <<>> /\ chan' = [chan EXCEPT ![c] = Tail(@)]
    BY <1>8 DEF Forward, TheHub!Receive
  <2>2. chan'[c] = Tail(chan[c]) /\ \A d \in Client : d # c => chan'[d] = chan[d]
    BY <1>0, <2>1 DEF HubInv
  <2>3. \A i \in 1 .. Len(chan'[c]) : chan'[c][i] = chan[c][i + 1] /\ i + 1 \in 1 .. Len(chan[c])
    BY <1>0, <2>1, <2>2, TailBuffer DEF HubInv
  <2>4. \A d \in Client : \A i \in 1 .. Len(chan'[d]) : IsEvent(chan'[d][i], mem)
    BY <1>0, <2>2, <2>3 DEF EventInv
  <2> QED BY <1>0, <1>k, <2>1, <2>4, DatabaseKept
<1>9. ASSUME NEW c \in Client, Snapshot(c) \/ Close(c) \/ Disconnect(c)
      PROVE  EventInv'
  <2>1. event' = event /\ UNCHANGED dbVars /\ chan' = chan
    BY <1>9 DEF Snapshot, Close, Disconnect, TheHub!Unsubscribe, hubVars
  <2> QED BY <1>0, <1>k, <2>1, DatabaseKept DEF EventInv
<1>10. CASE Restart
  <2>1. Publishing' = {} /\ \A c \in Client : chan'[c] = <<>>
    BY <1>10, RestartStep DEF Restart
  <2> QED BY <2>1 DEF EventInv
<1>11. CASE UNCHANGED vars
  <2>1. event' = event /\ UNCHANGED dbVars /\ chan' = chan
    BY <1>11 DEF vars, hubVars
  <2> QED BY <1>0, <1>k, <2>1, DatabaseKept DEF EventInv
<1> QED BY <1>1, <1>2, <1>3, <1>4, <1>5, <1>6, <1>7, <1>8, <1>9, <1>10, <1>11 DEF Next

\* An event concerns only clients whose path is comparable to its own.
LEMMA MatchesComparable ==
    ASSUME NEW p \in Path, NEW q, TheHub!Matches(p, q)
    PROVE  Comparable(p, q)
<1>1. IsPrefix(p, p)
  BY PrefixPointwise DEF Path
<1> QED BY <1>1, SameHub DEF TheHub!Matches, Comparable

\* A client that subscribes or leaves finds nobody in the middle of publishing.
LEMMA NextHubInv == TypeInv /\ [Next]_vars => HubInv'
<1> SUFFICES ASSUME TypeInv, [Next]_vars PROVE HubInv'
  OBVIOUS
<1>0. TypeOK /\ CallInv /\ EventInv /\ HubInv /\ StreamInv
  BY DEF TypeInv
<1>b. ASSUME NEW c \in Client, NEW s, chan' = [chan EXCEPT ![c] = s], IsBuffer(s)
      PROVE  DOMAIN chan' = Client /\ \A d \in Client : IsBuffer(chan'[d])
  BY <1>0, <1>b DEF HubInv
<1>k. ASSUME todo' = todo, inside' = inside, subs' = subs, \A v \in Publishing : req'[v] = req[v],
             DOMAIN chan' = Client /\ \A d \in Client : IsBuffer(chan'[d])
      PROVE  HubInv'
  <2>1. \A v \in Writer : todo[v] # {} => v \in Publishing
    BY <1>0 DEF HubInv, TypeOK
  <2> QED BY <1>0, <1>k, <2>1 DEF HubInv
<1>1. ASSUME NEW w \in Writer, Request(w)
      PROVE  HubInv'
  BY <1>0, <1>1, <1>k, RequestStep DEF Request, hubVars, HubInv
<1>2. ASSUME NEW w \in Writer, Write(w)
      PROVE  HubInv'
  <2>1. req' = req /\ IsMutation(req[w]) /\ mem' = Apply(mem, req[w]) /\ EditEvents(req[w])
    BY <1>0, <1>2, WriteStep DEF Write
  <2>2. DOMAIN chan' = Client /\ \A d \in Client : IsBuffer(chan'[d])
    BY <2>1, EditedBuffers
  <2> QED BY <1>2, <1>k, <2>1, <2>2 DEF Write
<1>3. ASSUME NEW w \in Writer, Fail(w)
      PROVE  HubInv'
  <2>1. /\ (\A v \in Publishing : req'[v] = req[v])
        /\ IsMutation(req[w]) /\ mem' = Apply(mem, req[w]) /\ EditEvents(req[w])
    BY <1>0, <1>3, FailStep DEF Fail
  <2>2. DOMAIN chan' = Client /\ \A d \in Client : IsBuffer(chan'[d])
    BY <2>1, EditedBuffers
  <2> QED BY <1>3, <1>k, <2>1, <2>2 DEF Fail
<1>4. ASSUME NEW w \in Writer, StartPublish(w)
      PROVE  HubInv'
  <2>1. /\ UNCHANGED <<req, subs, chan>> /\ inside' = inside \cup {w} /\ w \in Publishing
        /\ todo' = [todo EXCEPT ![w] = {s \in subs : TheHub!Matches(Prefix[s], event[w].path)}]
    BY <1>4 DEF StartPublish, TheHub!Enter, dbVars, Publishing
  <2>2. event[w].path = req[w].path
    BY <1>0, <2>1 DEF EventInv, SameWrites
  <2>3. \A c \in todo'[w] : c \in subs /\ Comparable(Prefix[c], req[w].path)
    <3>1. todo'[w] = {s \in subs : TheHub!Matches(Prefix[s], req[w].path)}
      BY <1>0, <2>1, <2>2 DEF TypeOK
    <3>2. \A c \in subs : Prefix[c] \in Path
      BY <1>0, HubConstants DEF TypeOK
    <3> QED BY <3>1, <3>2, MatchesComparable
  <2>4. \A v \in Writer : v # w => todo'[v] = todo[v]
    BY <1>0, <2>1 DEF TypeOK
  <2> QED BY <1>0, <2>1, <2>3, <2>4 DEF HubInv
<1>5. ASSUME NEW w \in Writer, EndPublish(w)
      PROVE  HubInv'
  <2>1. /\ UNCHANGED <<subs, chan, todo>> /\ inside' = inside \ {w} /\ todo[w] = {}
        /\ \A v \in Writer \ {w} : req'[v] = req[v]
    BY <1>0, <1>5, EndPublishStep DEF EndPublish, TheHub!Leave
  <2> QED BY <1>0, <2>1 DEF HubInv
<1>6. ASSUME NEW w \in Writer, NEW c \in Client, Deliver(w, c)
      PROVE  HubInv'
  <2>1. /\ UNCHANGED <<req, subs, inside>> /\ todo' = [todo EXCEPT ![w] = @ \ {c}]
        /\ chan' = [chan EXCEPT ![c] = IF TheHub!Full(c) THEN @ ELSE Append(@, event[w])]
    BY <1>6 DEF Deliver, TheHub!Offer, dbVars
  <2>2. IsBuffer(IF TheHub!Full(c) THEN chan[c] ELSE Append(chan[c], event[w]))
    BY <1>0, AppendBuffer DEF HubInv, TheHub!Full
  <2>3. DOMAIN chan' = Client /\ \A d \in Client : IsBuffer(chan'[d])
    BY <1>0, <1>b, <2>1, <2>2 DEF HubInv
  <2>4. \A v \in Writer : todo'[v] \subseteq todo[v]
    BY <1>0, <2>1 DEF TypeOK
  <2> QED BY <1>0, <2>1, <2>3, <2>4 DEF HubInv
<1>7. ASSUME NEW c \in Client, Connect(c)
      PROVE  HubInv'
  <2>1. /\ UNCHANGED <<req, inside, todo>> /\ inside = {} /\ chan' = [chan EXCEPT ![c] = <<>>]
    BY <1>7 DEF Connect, TheHub!Subscribe, dbVars
  <2>2. \A v \in Writer : todo[v] = {}
    BY <1>0, <2>1 DEF HubInv
  <2> QED BY <1>0, <1>b, <2>1, <2>2, EmptyBuffer DEF HubInv
<1>8. ASSUME NEW c \in Client, Forward(c)
      PROVE  HubInv'
  <2>1. UNCHANGED <<req, subs, inside, todo>> /\ chan[c] # <<>> /\ chan' = [chan EXCEPT ![c] = Tail(@)]
    BY <1>8 DEF Forward, TheHub!Receive, dbVars
  <2>2. IsBuffer(Tail(chan[c]))
    BY <1>0, <2>1, TailBuffer DEF HubInv
  <2>3. DOMAIN chan' = Client /\ \A d \in Client : IsBuffer(chan'[d])
    BY <1>0, <1>b, <2>1, <2>2 DEF HubInv
  <2> QED BY <1>k, <2>1, <2>3
<1>9. ASSUME NEW c \in Client, Disconnect(c)
      PROVE  HubInv'
  <2>1. UNCHANGED <<req, chan, inside, todo>> /\ inside = {}
    BY <1>9 DEF Disconnect, TheHub!Unsubscribe, dbVars
  <2>2. \A v \in Writer : todo[v] = {}
    BY <1>0, <2>1 DEF HubInv
  <2> QED BY <1>0, <2>1, <2>2 DEF HubInv
<1>10. CASE Restart
  BY <1>10, EmptyBuffer DEF Restart, HubInv
<1>11. ASSUME UNCHANGED <<req, hubVars>>
       PROVE  HubInv'
  BY <1>0, <1>11, <1>k DEF HubInv, hubVars
<1>12. ASSUME NEW c \in Client, Snapshot(c) \/ Close(c)
       PROVE  HubInv'
  BY <1>11, <1>12 DEF Snapshot, Close, dbVars
<1>13. CASE UNCHANGED vars
  BY <1>11, <1>13 DEF vars, dbVars
<1> QED BY <1>1, <1>2, <1>3, <1>4, <1>5, <1>6, <1>7, <1>8, <1>9, <1>10, <1>12, <1>13 DEF Next

\* The histories and the views keep their types; a view starts empty.
LEMMA NextStreamInv == TypeInv /\ [Next]_vars => StreamInv'
<1> SUFFICES ASSUME TypeInv, [Next]_vars PROVE StreamInv'
  OBVIOUS
<1>0. TypeOK /\ StreamInv
  BY DEF TypeInv
<1>1. ASSUME NEW w \in Writer, Request(w)
      PROVE  StreamInv'
  BY <1>0, <1>1 DEF Request, history, StreamInv
<1>2. ASSUME NEW w \in Writer, Write(w)
      PROVE  StreamInv'
  BY <1>0, <1>2 DEF Write, Publishing, StreamInv
<1>o. ASSUME NEW r, NEW E \in SUBSET Writer, NEW C \in SUBSET Client, Overtake(r, E, C)
      PROVE  overtaken' \in [Writer -> SUBSET Client]
  BY <1>0, <1>o DEF Overtake, StreamInv
<1>3. ASSUME NEW w \in Writer, Fail(w)
      PROVE  StreamInv'
  <2>1. Overtake(req[w], Publishing, Client) /\ UNCHANGED <<conn, view, older, raced>>
        /\ missed' = [c \in Client |->
                         missed[c] \/ (c \in subs /\ Comparable(Prefix[c], req[w].path))]
    BY <1>3 DEF Fail
  <2>2. overtaken' \in [Writer -> SUBSET Client]
    BY <1>o, <2>1 DEF Publishing
  <2>3. missed' \in [Client -> BOOLEAN]
    BY <2>1, Zenon
  <2> QED BY <1>0, <2>1, <2>2, <2>3 DEF StreamInv
<1>4. ASSUME NEW w \in Writer, StartPublish(w)
      PROVE  StreamInv'
  <2>1. Overtake(req[w], older[w], Client \ todo'[w]) /\ UNCHANGED <<conn, view, older, raced>>
        /\ missed' = [c \in Client |->
                         missed[c] \/ (c \in subs /\ RootDiffers(Prefix[c], req[w].path))]
    BY <1>4 DEF StartPublish
  <2>2. overtaken' \in [Writer -> SUBSET Client]
    BY <1>0, <1>o, <2>1 DEF StreamInv
  <2>3. missed' \in [Client -> BOOLEAN]
    BY <2>1, Zenon
  <2> QED BY <1>0, <2>1, <2>2, <2>3 DEF StreamInv
<1>5. ASSUME NEW w \in Writer, EndPublish(w)
      PROVE  StreamInv'
  BY <1>0, <1>5 DEF EndPublish, StreamInv
<1>6. ASSUME NEW w \in Writer, NEW c \in Client, Deliver(w, c)
      PROVE  StreamInv'
  <2>1. /\ Overtake(req[w], older[w], {c}) /\ UNCHANGED <<conn, view, older>>
        /\ raced' = [raced EXCEPT ![c] = @ \/ c \in overtaken[w]]
        /\ missed' = [missed EXCEPT ![c] = @ \/ TheHub!Full(c)]
    BY <1>6 DEF Deliver
  <2>2. overtaken' \in [Writer -> SUBSET Client]
    BY <1>0, <1>o, <2>1 DEF StreamInv
  <2>3. raced' \in [Client -> BOOLEAN] /\ missed' \in [Client -> BOOLEAN]
    BY <1>0, <2>1 DEF StreamInv, TheHub!Full
  <2> QED BY <1>0, <2>1, <2>2, <2>3 DEF StreamInv
<1>7. ASSUME NEW c \in Client, Connect(c)
      PROVE  StreamInv'
  <2>1. /\ UNCHANGED <<view, older, overtaken, raced, missed>> /\ conn[c] = "off"
        /\ conn' = [conn EXCEPT ![c] = "subscribed"]
    BY <1>7 DEF Connect, history
  <2>2. \A d \in Client : conn'[d] \in {"off", "subscribed"} => conn[d] \in {"off", "subscribed"}
    BY <1>0, <2>1 DEF TypeOK
  <2> QED BY <1>0, <2>1, <2>2 DEF StreamInv
<1>8. ASSUME NEW c \in Client, Snapshot(c) \/ Forward(c) \/ Close(c)
      PROVE  StreamInv'
  <2>1. /\ UNCHANGED <<older, overtaken, raced, missed>> /\ DOMAIN view' = DOMAIN view
        /\ \A d \in Client : d # c => view'[d] = view[d] /\ conn'[d] = conn[d]
        /\ conn'[c] \in {"live", "closing"}
    BY <1>0, <1>8 DEF Snapshot, Forward, Close, history, TypeOK, StreamInv
  <2> QED BY <1>0, <2>1 DEF StreamInv
<1>9. ASSUME NEW c \in Client, Disconnect(c)
      PROVE  StreamInv'
  <2>1. /\ UNCHANGED <<older, overtaken>> /\ DOMAIN view' = DOMAIN view
        /\ \A d \in Client : d # c => view'[d] = view[d] /\ conn'[d] = conn[d]
        /\ view'[c] = EmptyDoc
        /\ raced' = [raced EXCEPT ![c] = FALSE] /\ missed' = [missed EXCEPT ![c] = FALSE]
    BY <1>0, <1>9 DEF Disconnect, TypeOK, StreamInv
  <2> QED BY <1>0, <2>1 DEF StreamInv
<1>10. CASE Restart
  BY <1>10 DEF Restart, StreamInv
<1>11. CASE UNCHANGED vars
  BY <1>0, <1>11 DEF vars, history, StreamInv
<1> QED BY <1>1, <1>2, <1>3, <1>4, <1>5, <1>6, <1>7, <1>8, <1>9, <1>10, <1>11 DEF Next

-----------------------------------------------------------------------------
(* What is due to a client stands in memory, or a younger mutation undid   *)
(* it and is due, too, or has been offered already.                        *)

\* A client that a step has not overtaken was not overtaken before it, and what is
\* told of r then is not told before a conflicting older event is.
LEMMA OvertakeStep ==
    ASSUME StreamInv, NEW r, NEW E \in SUBSET Writer, NEW C \in SUBSET Client, Overtake(r, E, C),
           NEW w \in Writer, NEW c \in Client, c \notin overtaken'[w]
    PROVE  c \notin overtaken[w] /\ (w \in E /\ Conflict(req[w], r) => c \notin C)
BY DEF Overtake, Pending, StreamInv

\* What is due after a write was due before it, but for the mutation written.
LEMMA DueWrite ==
    ASSUME TypeInv, NEW w \in Writer, Write(w), NEW c \in Client
    PROVE  /\ \A v \in Writer \ {w} : Due(v, c)' <=> Due(v, c)
           /\ ~ Due(w, c)
           /\ Comparable(Prefix[c], req[w].path) => Due(w, c)'
<1>1. /\ w \notin Publishing /\ Publishing' = Publishing \cup {w} /\ req' = req
      /\ todo' = todo /\ inside' = inside /\ w \notin inside
  BY WriteStep DEF TypeInv, TypeOK, Write
<1> QED BY <1>1 DEF Due

\* A call that fails changes nothing of what is due.
LEMMA DueFail ==
    ASSUME TypeInv, NEW w \in Writer, Fail(w), NEW c \in Client, NEW v \in Writer
    PROVE  (Due(v, c)' <=> Due(v, c)) /\ ~ Due(w, c)
<1>1. /\ w \notin Publishing /\ Publishing' = Publishing /\ \A x \in Publishing : req'[x] = req[x]
      /\ todo' = todo /\ inside' = inside
  BY FailStep DEF TypeInv, Fail
<1> QED BY <1>1 DEF Due

\* Neither does a new call.
LEMMA DueRequest ==
    ASSUME TypeInv, NEW w \in Writer, Request(w), NEW c \in Client, NEW v \in Writer
    PROVE  Due(v, c)' <=> Due(v, c)
<1>1. /\ w \notin Publishing /\ Publishing' = Publishing /\ \A x \in Publishing : req'[x] = req[x]
      /\ todo' = todo /\ inside' = inside
  BY RequestStep DEF TypeInv, Request, hubVars
<1> QED BY <1>1 DEF Due

\* Nor does a step of the streams.
LEMMA DueKept ==
    ASSUME TypeInv, UNCHANGED <<dbVars, todo, inside>>, NEW c \in Client, NEW v \in Writer
    PROVE  Due(v, c)' <=> Due(v, c)
BY DatabaseKept DEF TypeInv, Due

\* Starting to publish settles who will be told; the others no longer are owed anything.
LEMMA DueStart ==
    ASSUME TypeInv, NEW w \in Writer, StartPublish(w), NEW c \in Client
    PROVE  /\ \A v \in Writer \ {w} : Due(v, c)' <=> Due(v, c)
           /\ Due(w, c)' => Due(w, c)
           /\ Due(w, c)' <=> Due(w, c) /\ c \in todo'[w]
<1>1. /\ w \notin inside /\ inside' = inside \cup {w} /\ UNCHANGED dbVars
      /\ todo' = [todo EXCEPT ![w] = {s \in subs : TheHub!Matches(Prefix[s], event[w].path)}]
  BY DEF StartPublish, TheHub!Enter
<1>2. \A v \in Writer \ {w} : todo'[v] = todo[v]
  BY <1>1 DEF TypeInv, TypeOK
<1>3. Publishing' = Publishing /\ req' = req
  BY <1>1, DatabaseKept DEF TypeInv
<1> QED BY <1>1, <1>2, <1>3 DEF Due

\* A writer leaves Publish when it owes nothing any more.
LEMMA DueEnd ==
    ASSUME TypeInv, NEW w \in Writer, EndPublish(w), NEW c \in Client
    PROVE  (\A v \in Writer : Due(v, c)' <=> Due(v, c)) /\ ~ Due(w, c)
<1>1. /\ w \in inside /\ todo[w] = {} /\ inside' = inside \ {w} /\ todo' = todo
      /\ Publishing' = Publishing \ {w} /\ \A v \in Writer \ {w} : req'[v] = req[v]
  BY EndPublishStep DEF TypeInv, EndPublish, TheHub!Leave
<1> QED BY <1>1 DEF Due

\* An offer settles what a writer owed to one client, and nothing else.
LEMMA DueDeliver ==
    ASSUME TypeInv, NEW w \in Writer, NEW d \in Client, Deliver(w, d), NEW c \in Client
    PROVE  /\ \A v \in Writer : Due(v, c)' <=> Due(v, c) /\ (v # w \/ c # d)
           /\ Due(w, d)
<1>1. /\ d \in todo[w] /\ todo' = [todo EXCEPT ![w] = @ \ {d}] /\ inside' = inside
      /\ UNCHANGED dbVars
  BY DEF Deliver, TheHub!Offer
<1>2. todo'[w] = todo[w] \ {d} /\ \A v \in Writer \ {w} : todo'[v] = todo[v]
  BY <1>1 DEF TypeInv, TypeOK
<1>3. Publishing' = Publishing /\ req' = req
  BY <1>1, DatabaseKept DEF TypeInv
<1>4. w \in inside /\ w \in Publishing /\ Comparable(Prefix[d], req[w].path)
  BY <1>1 DEF TypeInv, TypeOK, HubInv
<1> QED BY <1>1, <1>2, <1>3, <1>4 DEF Due

\* A writer that is due is publishing, an event of the tree as it is.
LEMMA DueIsEvent ==
    ASSUME TypeInv, NEW w \in Writer, NEW c \in Client, Due(w, c)
    PROVE  /\ w \in Publishing /\ IsEvent(event[w], mem) /\ SameWrites(event[w], req[w])
           /\ IsMutation(req[w]) /\ w \in DOMAIN event
BY DEF Due, TypeInv, TypeOK, EventInv, CallInv, Publishing

\* Every step keeps DueStands: a write undoes an older mutation only where its own
\* event is due, and who is told of the younger one first has overtaken the older.
LEMMA NextDueStands == TypeInv /\ DueStands /\ [Next]_vars => DueStands'
<1> SUFFICES ASSUME TypeInv, DueStands, [Next]_vars PROVE DueStands'
  OBVIOUS
<1>0. TypeOK /\ CallInv /\ EventInv /\ HubInv /\ StreamInv /\ IsDoc(mem)
  BY DEF TypeInv, TypeOK
<1>k. ASSUME mem' = mem,
             \A v \in Writer, c \in Client :
                Due(v, c)' => Due(v, c) /\ event'[v] = event[v] /\ req'[v] = req[v],
             \A w \in Writer, c \in Client : Due(w, c)' /\ c \notin overtaken'[w] =>
                /\ c \notin overtaken[w]
                /\ \A v \in Writer :
                      v # w /\ w \in older[v] /\ Due(v, c) /\ Conflict(req[w], req[v]) =>
                         w \in older'[v] /\ Due(v, c)'
      PROVE  DueStands'
  <2>1. ASSUME NEW c \in Client, NEW w \in Writer, Due(w, c)', c \notin overtaken'[w],
               NEW p \in Below(Prefix[c]), Determines(req'[w], p)
        PROVE  Stands(event'[w], mem', p) \/ Younger(w, c, p)'
    <3>1. /\ Due(w, c) /\ c \notin overtaken[w] /\ event'[w] = event[w] /\ req'[w] = req[w]
      BY <1>k, <2>1
    <3>2. Stands(event[w], mem, p) \/ Younger(w, c, p)
      BY <2>1, <3>1 DEF DueStands
    <3>3. CASE Stands(event[w], mem, p)
      BY <1>k, <3>1, <3>3
    <3>4. CASE Younger(w, c, p)
      <4>1. PICK v \in Writer : /\ v # w /\ w \in older[v] /\ Due(v, c)
                                /\ Conflict(req[w], req[v]) /\ Determines(req[v], p)
        BY <3>4 DEF Younger
      <4>2. w \in older'[v] /\ Due(v, c)'
        BY <1>k, <2>1, <4>1
      <4>3. req'[v] = req[v]
        BY <1>k, <4>2
      <4> QED BY <3>1, <4>1, <4>2, <4>3 DEF Younger
    <3> QED BY <3>2, <3>3, <3>4
  <2> QED BY <2>1 DEF DueStands
<1>1. ASSUME NEW w \in Writer, Request(w)
      PROVE  DueStands'
  <2>1. mem' = mem /\ event' = event /\ older' = older /\ overtaken' = overtaken
    BY <1>1 DEF Request, Db!Call, Db!CallPush, history
  <2>2. \A v \in Writer, c \in Client : Due(v, c)' <=> Due(v, c)
    BY <1>1, DueRequest
  <2>3. \A v \in Writer, c \in Client : Due(v, c) => req'[v] = req[v]
    BY <1>0, <1>1, RequestStep DEF Due
  <2> QED BY <1>k, <2>1, <2>2, <2>3
<1>2. ASSUME NEW w \in Writer, Write(w)
      PROVE  DueStands'
  <2>1. /\ Publishing' = Publishing \cup {w} /\ w \notin Publishing /\ req' = req
        /\ IsMutation(req[w]) /\ mem' = Apply(mem, req[w])
    BY <1>0, <1>2, WriteStep
  <2>2. /\ event' = [v \in DOMAIN event \cup {w} |->
                        IF v = w THEN Published(req[w]) ELSE Edited(event[v], req[w], mem')]
        /\ older' = [older EXCEPT ![w] = Publishing] /\ overtaken' = overtaken
    BY <1>2 DEF Write
  <2>3. ASSUME NEW c \in Client, NEW v \in Writer, Due(v, c)', c \notin overtaken'[v],
               NEW p \in Below(Prefix[c]), Determines(req'[v], p)
        PROVE  Stands(event'[v], mem', p) \/ Younger(v, c, p)'
    <3>0. p \in Path /\ Prefix[c] \in Path /\ IsPrefix(Prefix[c], p)
      BY <2>3, HubConstants DEF Below
    <3>1. CASE v = w
      <4>1. event'[v] = Published(req[w]) /\ Determines(req[w], p)
        BY <2>1, <2>2, <2>3, <3>1
      <4>2. Stands(Published(req[w]), Apply(mem, req[w]), p)
        BY <1>0, <2>1, <3>0, <4>1, StandsPublished
      <4> QED BY <2>1, <4>1, <4>2
    <3>2. CASE v # w
      <4>1. Due(v, c)
        BY <1>2, <2>3, <3>2, DueWrite
      <4>2. /\ v \in Publishing /\ IsEvent(event[v], mem) /\ SameWrites(event[v], req[v])
            /\ v \in DOMAIN event
        BY <4>1, DueIsEvent
      <4>3. event'[v] = Edited(event[v], req[w], Apply(mem, req[w]))
        BY <2>1, <2>2, <3>2, <4>2
      <4>4. Determines(req[v], p) /\ Determines(event[v], p)
        BY <2>1, <2>3, <4>2, SameWritesDetermine
      <4>5. Stands(event[v], mem, p) \/ Younger(v, c, p)
        BY <2>2, <2>3, <4>1, <4>4 DEF DueStands
      <4>6. CASE Younger(v, c, p)
        <5>1. PICK x \in Writer : /\ x # v /\ v \in older[x] /\ Due(x, c)
                                  /\ Conflict(req[v], req[x]) /\ Determines(req[x], p)
          BY <4>6 DEF Younger
        <5>2. x # w /\ Due(x, c)'
          BY <1>2, <5>1, DueWrite
        <5>3. v \in older'[x]
          BY <1>0, <2>2, <5>1, <5>2 DEF StreamInv
        <5> QED BY <2>1, <5>1, <5>2, <5>3 DEF Younger
      <4>7. CASE Determines(req[w], p) /\ Conflict(req[v], req[w])
        <5>1. Due(w, c)'
          BY <1>2, <2>1, <3>0, <4>7, DeterminedComparable, DueWrite
        <5>2. v \in older'[w]
          BY <1>0, <2>2, <4>2 DEF StreamInv
        <5> QED BY <2>1, <3>2, <4>7, <5>1, <5>2 DEF Younger
      <4>8. CASE Stands(event[v], mem, p) /\ (Determines(req[w], p) => ~ Conflict(req[v], req[w]))
        <5>1. Determines(req[w], p) => ~ Conflict(event[v], req[w])
          BY <4>2, <4>8, SameWritesConflict
        <5>2. Stands(Edited(event[v], req[w], Apply(mem, req[w])), Apply(mem, req[w]), p)
          BY <1>0, <2>1, <3>0, <4>2, <4>4, <4>8, <5>1, StandsEdited
        <5> QED BY <2>1, <4>3, <5>2
      <4> QED BY <4>5, <4>6, <4>7, <4>8
    <3> QED BY <3>1, <3>2
  <2> QED BY <2>3 DEF DueStands
<1>3. ASSUME NEW w \in Writer, Fail(w)
      PROVE  DueStands'
  <2>1. /\ Publishing' = Publishing /\ (\A v \in Publishing : req'[v] = req[v])
        /\ IsMutation(req[w]) /\ mem' = Apply(mem, req[w])
    BY <1>0, <1>3, FailStep
  <2>2. /\ event' = [v \in DOMAIN event |-> Edited(event[v], req[w], mem')]
        /\ older' = older /\ Overtake(req[w], Publishing, Client)
    BY <1>3 DEF Fail
  <2>3. ASSUME NEW c \in Client, NEW v \in Writer, Due(v, c)', c \notin overtaken'[v],
               NEW p \in Below(Prefix[c]), Determines(req'[v], p)
        PROVE  Stands(event'[v], mem', p) \/ Younger(v, c, p)'
    <3>0. p \in Path
      BY <2>3 DEF Below
    <3>1. Due(v, c)
      BY <1>3, <2>3, DueFail
    <3>2. /\ v \in Publishing /\ IsEvent(event[v], mem) /\ SameWrites(event[v], req[v])
          /\ v \in DOMAIN event
      BY <3>1, DueIsEvent
    <3>3. event'[v] = Edited(event[v], req[w], Apply(mem, req[w])) /\ req'[v] = req[v]
      BY <2>1, <2>2, <3>2
    <3>4. c \notin overtaken[v] /\ ~ Conflict(req[v], req[w])
      <4>1. Publishing \in SUBSET Writer /\ Client \in SUBSET Client
        BY DEF Publishing
      <4> QED BY <1>0, <2>2, <2>3, <3>2, <4>1, OvertakeStep
    <3>5. Determines(req[v], p) /\ Determines(event[v], p)
      BY <2>3, <3>2, <3>3, SameWritesDetermine
    <3>6. Stands(event[v], mem, p) \/ Younger(v, c, p)
      BY <3>1, <3>4, <3>5 DEF DueStands
    <3>7. CASE Younger(v, c, p)
      <4>1. PICK x \in Writer : /\ x # v /\ v \in older[x] /\ Due(x, c)
                                /\ Conflict(req[v], req[x]) /\ Determines(req[x], p)
        BY <3>7 DEF Younger
      <4>2. Due(x, c)'
        BY <1>3, <4>1, DueFail
      <4>3. req'[x] = req[x]
        BY <2>1, <4>1, DueIsEvent
      <4> QED BY <2>2, <3>3, <4>1, <4>2, <4>3 DEF Younger
    <3>8. CASE Stands(event[v], mem, p)
      <4>1. ~ Conflict(event[v], req[w])
        BY <3>2, <3>4, SameWritesConflict
      <4>2. Stands(Edited(event[v], req[w], Apply(mem, req[w])), Apply(mem, req[w]), p)
        BY <1>0, <2>1, <3>0, <3>2, <3>5, <3>8, <4>1, StandsEdited
      <4> QED BY <2>1, <3>3, <4>2
    <3> QED BY <3>6, <3>7, <3>8
  <2> QED BY <2>3 DEF DueStands
<1>4. ASSUME NEW w \in Writer, StartPublish(w)
      PROVE  DueStands'
  <2>1. /\ mem' = mem /\ req' = req /\ event' = event /\ older' = older
        /\ Overtake(req[w], older[w], Client \ todo'[w])
    BY <1>4 DEF StartPublish, dbVars
  <2>2. ASSUME NEW v \in Writer, NEW c \in Client, Due(v, c)', c \notin overtaken'[v]
        PROVE  /\ c \notin overtaken[v]
               /\ \A x \in Writer :
                     x # v /\ v \in older[x] /\ Due(x, c) /\ Conflict(req[v], req[x]) => Due(x, c)'
    <3>1. older[w] \in SUBSET Writer /\ Client \ todo'[w] \in SUBSET Client
      BY <1>0 DEF StreamInv
    <3> DEFINE E == older[w]
               C == Client \ todo'[w]
    <3>e. Overtake(req[w], E, C) /\ E \in SUBSET Writer /\ C \in SUBSET Client
      BY <2>1, <3>1
    <3> HIDE DEF E, C
    <3>o. c \notin overtaken[v] /\ (v \in E /\ Conflict(req[v], req[w]) => c \notin C)
      BY <1>0, <2>2, <3>e, OvertakeStep
    <3>2. c \notin overtaken[v] /\ (v \in older[w] /\ Conflict(req[v], req[w]) => c \in todo'[w])
      BY <3>o DEF E, C
    <3> QED BY <1>4, <3>2, DueStart
  <2> QED BY <1>4, <1>k, <2>1, <2>2, DueStart
<1>5. ASSUME NEW w \in Writer, EndPublish(w)
      PROVE  DueStands'
  <2>1. /\ mem' = mem /\ \A v \in Writer \ {w} : req'[v] = req[v]
    BY <1>0, <1>5, EndPublishStep
  <2>2. /\ older' = [p \in Writer |-> IF p = w THEN {} ELSE older[p] \ {w}]
        /\ overtaken' = [overtaken EXCEPT ![w] = {}]
        /\ event' = Restrict(event, DOMAIN event \ {w})
    BY <1>5 DEF EndPublish
  <2>3. \A v \in Writer, c \in Client : Due(v, c)' => Due(v, c) /\ v # w
    BY <1>5, DueEnd
  <2>4. \A v \in Writer, c \in Client : Due(v, c)' => event'[v] = event[v] /\ req'[v] = req[v]
    BY <2>1, <2>2, <2>3, DueIsEvent DEF Restrict
  <2>5. \A v \in Writer, c \in Client : Due(v, c) => Due(v, c)' /\ v # w
    BY <1>5, DueEnd
  <2>6. \A v \in Writer : v # w => overtaken'[v] = overtaken[v] /\ older'[v] = older[v] \ {w}
    BY <1>0, <2>2 DEF StreamInv
  <2> QED BY <1>k, <2>1, <2>3, <2>4, <2>5, <2>6
<1>6. ASSUME NEW w \in Writer, NEW d \in Client, Deliver(w, d)
      PROVE  DueStands'
  <2>1. /\ mem' = mem /\ req' = req /\ event' = event /\ older' = older
        /\ Overtake(req[w], older[w], {d})
    BY <1>6 DEF Deliver, dbVars
  <2>2. ASSUME NEW v \in Writer, NEW c \in Client, Due(v, c)', c \notin overtaken'[v]
        PROVE  /\ c \notin overtaken[v]
               /\ \A x \in Writer :
                     x # v /\ v \in older[x] /\ Due(x, c) /\ Conflict(req[v], req[x]) => Due(x, c)'
    <3>1. older[w] \in SUBSET Writer /\ {d} \in SUBSET Client
      BY <1>0 DEF StreamInv
    <3> DEFINE E == older[w]
               C == {d}
    <3>e. Overtake(req[w], E, C) /\ E \in SUBSET Writer /\ C \in SUBSET Client
      BY <2>1, <3>1
    <3> HIDE DEF E, C
    <3>o. c \notin overtaken[v] /\ (v \in E /\ Conflict(req[v], req[w]) => c \notin C)
      BY <1>0, <2>2, <3>e, OvertakeStep
    <3>2. c \notin overtaken[v] /\ (v \in older[w] /\ Conflict(req[v], req[w]) => c # d)
      BY <3>o DEF E, C
    <3> QED BY <1>6, <3>2, DueDeliver
  <2> QED BY <1>6, <1>k, <2>1, <2>2, DueDeliver
<1>7. ASSUME UNCHANGED <<dbVars, todo, inside, event, older, overtaken>>
      PROVE  DueStands'
  <2>1. mem' = mem /\ req' = req
    BY <1>7 DEF dbVars
  <2> QED BY <1>7, <1>k, <2>1, DueKept
<1>8. ASSUME NEW c \in Client, Connect(c) \/ Snapshot(c) \/ Forward(c) \/ Close(c) \/ Disconnect(c)
      PROVE  DueStands'
  BY <1>7, <1>8 DEF Connect, Snapshot, Forward, Close, Disconnect, TheHub!Subscribe,
       TheHub!Unsubscribe, TheHub!Receive, hubVars, history
<1>9. CASE Restart
  BY <1>9, RestartStep DEF DueStands, Due
<1>10. CASE UNCHANGED vars
  BY <1>7, <1>10 DEF vars, hubVars, history
<1> QED BY <1>1, <1>2, <1>3, <1>4, <1>5, <1>6, <1>8, <1>9, <1>10 DEF Next
-----------------------------------------------------------------------------
(* What a client has, and what is in its channel. *)

\* What is due to a client and stays due determines what it did.
LEMMA DueForKept ==
    ASSUME NEW c \in Client, \A w \in Writer : Due(w, c) => Due(w, c)' /\ req'[w] = req[w],
           NEW p, DueFor(c, p)
    PROVE  DueFor(c, p)'
<1>1. PICK w \in Writer : Due(w, c) /\ Determines(req[w], p)
  BY DEF DueFor
<1>2. Due(w, c)' /\ req'[w] = req[w]
  BY <1>1
<1> QED BY <1>1, <1>2 DEF DueFor

\* A step that leaves memory and a client's channel alone, and takes nothing back of
\* what is due to it.
LEMMA ClientKept ==
    ASSUME NEW c \in Client, mem' = mem, chan'[c] = chan[c],
           Faithful(c)' => Faithful(c) /\ \A p \in Below(Prefix[c]) : DueFor(c, p) => DueFor(c, p)'
    PROVE  /\ Buffered(c) => Buffered(c)'
           /\ Viewed(c) /\ view'[c] = view[c] /\ (conn'[c] = "live" => conn[c] = "live") => Viewed(c)'
<1>1. \A i, p : Behind(c, i, p) => Behind(c, i, p)'
  BY DEF Behind
<1>2. ASSUME Buffered(c), Faithful(c)',
             NEW i \in 1 .. Len(chan'[c]), NEW p \in Below(Prefix[c]), Determines(chan'[c][i], p)
      PROVE  Stands(chan'[c][i], mem', p) \/ Behind(c, i, p)' \/ DueFor(c, p)'
  <2>1. Stands(chan[c][i], mem, p) \/ Behind(c, i, p) \/ DueFor(c, p)
    BY <1>2 DEF Buffered
  <2>2. Stands(chan[c][i], mem, p) => Stands(chan'[c][i], mem', p)
    OBVIOUS
  <2> QED BY <1>1, <1>2, <2>1, <2>2
<1>3. Buffered(c) => Buffered(c)'
  BY <1>2 DEF Buffered
<1>4. ASSUME Viewed(c), view'[c] = view[c], conn[c] = "live", Faithful(c)', NEW p \in Below(Prefix[c])
      PROVE  Agree(view'[c], mem', p) \/ Behind(c, 0, p)' \/ DueFor(c, p)'
  <2>1. Agree(view[c], mem, p) \/ Behind(c, 0, p) \/ DueFor(c, p)
    BY <1>4 DEF Viewed
  <2>2. Agree(view[c], mem, p) => Agree(view'[c], mem', p)
    BY <1>4
  <2> QED BY <1>1, <1>4, <2>1, <2>2
<1>5. Viewed(c) /\ view'[c] = view[c] /\ (conn'[c] = "live" => conn[c] = "live") => Viewed(c)'
  BY <1>4 DEF Viewed
<1> QED BY <1>3, <1>5

\* A mutation whose event will be due to every client that watches what it determines.
LEMMA ClientEdited ==
    ASSUME TypeInv, NEW r, IsMutation(r), mem' = Apply(mem, r), EditEvents(r),
           NEW c \in Client, Buffered(c), Viewed(c), view' = view, conn' = conn,
           Faithful(c)' => Faithful(c) /\ \A p \in Below(Prefix[c]) :
                              DueFor(c, p) \/ Determines(r, p) => DueFor(c, p)'
    PROVE  Buffered(c)' /\ Viewed(c)'
<1>0. IsDoc(mem)
  BY DEF TypeInv, TypeOK
<1>1. /\ Len(chan'[c]) = Len(chan[c])
      /\ \A i \in 1 .. Len(chan[c]) :
            /\ chan'[c][i] = Edited(chan[c][i], r, mem')
            /\ IsEvent(chan[c][i], mem)
  BY EditedBuffers DEF TypeInv, EventInv
<1>2. ASSUME NEW i \in 1 .. Len(chan[c])
      PROVE  SameWrites(chan[c][i], chan'[c][i])
  BY <1>0, <1>1, EditedEvent
<1>3. ASSUME NEW i \in 1 .. Len(chan[c]), NEW p
      PROVE  Determines(chan[c][i], p) <=> Determines(chan'[c][i], p)
  BY <1>2, SameWritesDetermine
<1>4. ASSUME NEW i \in Nat, NEW p, Behind(c, i, p)
      PROVE  Behind(c, i, p)'
  <2>1. PICK j \in i + 1 .. Len(chan[c]) : Determines(chan[c][j], p)
    BY <1>4 DEF Behind
  <2>2. j \in 1 .. Len(chan[c])
    BY <2>1
  <2>3. Determines(chan'[c][j], p)
    BY <1>3, <2>1, <2>2
  <2> QED BY <1>1, <2>1, <2>3 DEF Behind
<1>5. ASSUME Faithful(c)', NEW i \in 1 .. Len(chan'[c]), NEW p \in Below(Prefix[c]),
             Determines(chan'[c][i], p)
      PROVE  Stands(chan'[c][i], mem', p) \/ Behind(c, i, p)' \/ DueFor(c, p)'
  <2>1. i \in 1 .. Len(chan[c]) /\ i \in Nat /\ p \in Path
    BY <1>1, <1>5 DEF Below
  <2>2. Determines(chan[c][i], p)
    BY <1>3, <1>5, <2>1
  <2>3. Stands(chan[c][i], mem, p) \/ Behind(c, i, p) \/ DueFor(c, p)
    BY <1>5, <2>1, <2>2 DEF Buffered
  <2>4. CASE Stands(chan[c][i], mem, p) /\ ~ Determines(r, p)
    <3>1. Stands(Edited(chan[c][i], r, Apply(mem, r)), Apply(mem, r), p)
      BY <1>0, <1>1, <2>1, <2>2, <2>4, StandsEdited
    <3> QED BY <1>1, <2>1, <3>1
  <2> QED BY <1>4, <1>5, <2>1, <2>3, <2>4
<1>6. ASSUME Faithful(c)', conn'[c] = "live", NEW p \in Below(Prefix[c])
      PROVE  Agree(view'[c], mem', p) \/ Behind(c, 0, p)' \/ DueFor(c, p)'
  <2>1. Agree(view[c], mem, p) \/ Behind(c, 0, p) \/ DueFor(c, p)
    BY <1>6 DEF Viewed
  <2>2. CASE Agree(view[c], mem, p) /\ ~ Determines(r, p)
    <3>1. Agree(Apply(mem, r), mem, p)
      BY <2>2, NodeUntouched DEF Below
    <3> QED BY <2>2, <3>1 DEF Agree
  <2> QED BY <1>4, <1>6, <2>1, <2>2
<1>7. Buffered(c)'
  BY <1>5 DEF Buffered
<1> QED BY <1>6, <1>7 DEF Viewed

\* A client that reads an event applies it to what it has.
LEMMA ForwardStep ==
    ASSUME TypeInv, NEW c \in Client, Buffered(c), Viewed(c), Forward(c)
    PROVE  Buffered(c)' /\ Viewed(c)'
<1> DEFINE e == chan[c][1]
<1>0. /\ conn[c] = "live" /\ chan[c] # <<>> /\ chan' = [chan EXCEPT ![c] = Tail(@)]
      /\ view' = [view EXCEPT ![c] = Apply(@, Head(chan[c]))]
      /\ UNCHANGED <<dbVars, conn, subs, inside, todo, missed, raced>>
  BY DEF Forward, TheHub!Receive, history
<1>1. IsBuffer(chan[c]) /\ c \in DOMAIN chan /\ c \in DOMAIN view
  BY DEF TypeInv, HubInv, StreamInv
<1>2. chan'[c] = Tail(chan[c]) /\ view'[c] = Apply(view[c], Head(chan[c]))
  BY <1>0, <1>1
<1>3. /\ Head(chan[c]) = e /\ 1 \in 1 .. Len(chan[c])
      /\ Len(chan[c]) \in Nat /\ Len(chan'[c]) = Len(chan[c]) - 1
      /\ \A i \in 1 .. Len(chan'[c]) : chan'[c][i] = chan[c][i + 1] /\ i + 1 \in 1 .. Len(chan[c])
  BY <1>0, <1>1, <1>2, TailBuffer
<1>4. IsMutation(e)
  BY <1>3 DEF TypeInv, EventInv, IsEvent
<1> HIDE DEF e
<1>5. ASSUME NEW i \in Nat, NEW p, Behind(c, i + 1, p)
      PROVE  Behind(c, i, p)'
  <2>1. PICK j \in i + 1 + 1 .. Len(chan[c]) : Determines(chan[c][j], p)
    BY <1>5 DEF Behind
  <2>2. j - 1 \in i + 1 .. Len(chan'[c]) /\ j - 1 \in 1 .. Len(chan'[c]) /\ (j - 1) + 1 = j
    BY <1>3, <2>1
  <2>3. Determines(chan'[c][j - 1], p)
    BY <1>3, <2>1, <2>2
  <2> QED BY <2>2, <2>3 DEF Behind
<1>6. \A p : DueFor(c, p) => DueFor(c, p)'
  <2>1. \A w \in Writer : Due(w, c) => Due(w, c)' /\ req'[w] = req[w]
    BY <1>0, DueKept DEF dbVars
  <2> QED BY <2>1, DueForKept
<1>7. mem' = mem /\ (Faithful(c)' => Faithful(c))
  BY <1>0 DEF dbVars, Faithful
<1>8. ASSUME Faithful(c)', NEW i \in 1 .. Len(chan'[c]), NEW p \in Below(Prefix[c]),
             Determines(chan'[c][i], p)
      PROVE  Stands(chan'[c][i], mem', p) \/ Behind(c, i, p)' \/ DueFor(c, p)'
  <2>1. i \in Nat /\ i + 1 \in 1 .. Len(chan[c]) /\ chan'[c][i] = chan[c][i + 1]
    BY <1>3, <1>8
  <2>2. Stands(chan[c][i + 1], mem, p) \/ Behind(c, i + 1, p) \/ DueFor(c, p)
    BY <1>7, <1>8, <2>1 DEF Buffered
  <2> QED BY <1>5, <1>6, <1>7, <2>1, <2>2
<1>9. ASSUME Faithful(c)', NEW p \in Below(Prefix[c])
      PROVE  Agree(view'[c], mem', p) \/ Behind(c, 0, p)' \/ DueFor(c, p)'
  <2>0. p \in Path /\ view'[c] = Apply(view[c], e)
    BY <1>2, <1>3, <1>9 DEF Below
  <2>1. CASE Determines(e, p)
    <3>1. Stands(e, mem, p) \/ Behind(c, 1, p) \/ DueFor(c, p)
      BY <1>3, <1>7, <1>9, <2>1 DEF Buffered, e
    <3>2. Behind(c, 1, p) => Behind(c, 0, p)'
      BY <1>5
    <3>3. ASSUME Stands(e, mem, p)
          PROVE  Agree(view'[c], mem', p)
      <4>1. Agree(Apply(view[c], e), Apply(EmptyDoc, e), p)
        BY <1>4, <2>0, <2>1, NodeDetermined
      <4> QED BY <1>7, <2>0, <3>3, <4>1 DEF Stands, Agree
    <3> QED BY <1>6, <3>1, <3>2, <3>3
  <2>2. CASE ~ Determines(e, p)
    <3>1. Agree(view[c], mem, p) \/ Behind(c, 0, p) \/ DueFor(c, p)
      BY <1>0, <1>7, <1>9 DEF Viewed
    <3>2. Behind(c, 0, p) => Behind(c, 0, p)'
      <4>1. ASSUME Behind(c, 0, p)
            PROVE  Behind(c, 1, p)
        <5>1. PICK j \in 0 + 1 .. Len(chan[c]) : Determines(chan[c][j], p)
          BY <4>1 DEF Behind
        <5>2. j # 1
          BY <2>2, <5>1 DEF e
        <5>3. j \in 1 + 1 .. Len(chan[c])
          BY <5>1, <5>2
        <5> QED BY <5>1, <5>3 DEF Behind
      <4> QED BY <1>5, <4>1
    <3>3. Agree(Apply(view[c], e), view[c], p)
      BY <1>4, <2>0, <2>2, NodeUntouched
    <3>4. Agree(view[c], mem, p) => Agree(view'[c], mem', p)
      BY <1>7, <2>0, <3>3 DEF Agree
    <3> QED BY <1>6, <3>1, <3>2, <3>4
  <2> QED BY <2>1, <2>2
<1>10. Buffered(c)'
  BY <1>8 DEF Buffered
<1> QED BY <1>9, <1>10 DEF Viewed

\* An event that is sent stands in memory, or is undone by one that is due or behind it.
LEMMA DeliverStep ==
    ASSUME TypeInv, DueStands, NEW w \in Writer, NEW c \in Client, Deliver(w, c),
           Buffered(c), Viewed(c)
    PROVE  Buffered(c)' /\ Viewed(c)'
<1> DEFINE n == Len(chan[c])
<1>0. /\ w \in DOMAIN event /\ TheHub!Offer(w, c, event[w])
      /\ raced' = [raced EXCEPT ![c] = @ \/ c \in overtaken[w]]
      /\ missed' = [missed EXCEPT ![c] = @ \/ TheHub!Full(c)]
      /\ UNCHANGED <<dbVars, conn, view, event, subs>>
  BY DEF Deliver, TheHub!Offer
<1>1. IsBuffer(chan[c]) /\ c \in DOMAIN chan /\ c \in DOMAIN missed /\ c \in DOMAIN raced
      /\ raced[c] \in BOOLEAN /\ missed[c] \in BOOLEAN
  BY DEF TypeInv, HubInv, StreamInv
<1> SUFFICES ASSUME Faithful(c)' PROVE Buffered(c)' /\ Viewed(c)'
  BY DEF Buffered, Viewed
<1>2. c \notin overtaken[w] /\ Len(chan[c]) # Cap /\ Faithful(c)
  <2>1. missed'[c] = (missed[c] \/ TheHub!Full(c)) /\ raced'[c] = (raced[c] \/ c \in overtaken[w])
    BY <1>0, <1>1
  <2>2. ~ missed'[c] /\ ~ raced'[c] /\ c \in subs
    BY <1>0 DEF Faithful
  <2>3. ~ missed[c] /\ ~ TheHub!Full(c) /\ ~ raced[c] /\ c \notin overtaken[w]
    BY <2>1, <2>2
  <2> QED BY <2>2, <2>3 DEF TheHub!Full, Faithful
<1>3. chan'[c] = Append(chan[c], event[w])
  BY <1>0, <1>1, <1>2 DEF TheHub!Offer, TheHub!Full
<1>4. /\ n \in Nat /\ Len(chan'[c]) = n + 1 /\ \A i \in 1 .. n : chan'[c][i] = chan[c][i]
      /\ chan'[c][n + 1] = event[w]
  BY <1>1, <1>2, <1>3, AppendBuffer
<1>5. /\ \A v \in Writer : Due(v, c)' <=> Due(v, c) /\ v # w
      /\ Due(w, c)
  BY DueDeliver
<1>6. mem' = mem /\ req' = req
  BY <1>0 DEF dbVars
<1>7. SameWrites(event[w], req[w])
  BY <1>5, DueIsEvent
<1> HIDE DEF n
<1>8. ASSUME NEW i \in 0 .. n, NEW p, Behind(c, i, p) \/ DueFor(c, p)
      PROVE  Behind(c, i, p)' \/ DueFor(c, p)'
  <2>1. ASSUME Behind(c, i, p)
        PROVE  Behind(c, i, p)'
    <3>1. PICK j \in i + 1 .. n : Determines(chan[c][j], p)
      BY <2>1 DEF Behind, n
    <3>2. j \in i + 1 .. Len(chan'[c]) /\ chan'[c][j] = chan[c][j]
      BY <1>4, <3>1
    <3> QED BY <3>1, <3>2 DEF Behind
  <2>2. ASSUME DueFor(c, p)
        PROVE  Behind(c, i, p)' \/ DueFor(c, p)'
    <3>1. PICK v \in Writer : Due(v, c) /\ Determines(req[v], p)
      BY <2>2 DEF DueFor
    <3>2. CASE v = w
      <4>1. Determines(event[w], p)
        BY <1>7, <3>1, <3>2, SameWritesDetermine
      <4>2. n + 1 \in i + 1 .. Len(chan'[c]) /\ Determines(chan'[c][n + 1], p)
        BY <1>4, <4>1
      <4> QED BY <4>2 DEF Behind
    <3>3. CASE v # w
      BY <1>5, <1>6, <3>1, <3>3 DEF DueFor
    <3> QED BY <3>2, <3>3
  <2> QED BY <1>8, <2>1, <2>2
<1>9. ASSUME NEW i \in 1 .. Len(chan'[c]), NEW p \in Below(Prefix[c]), Determines(chan'[c][i], p)
      PROVE  Stands(chan'[c][i], mem', p) \/ Behind(c, i, p)' \/ DueFor(c, p)'
  <2>1. CASE i = n + 1
    <3>1. chan'[c][i] = event[w] /\ Determines(req[w], p)
      BY <1>4, <1>7, <1>9, <2>1, SameWritesDetermine
    <3>2. Stands(event[w], mem, p) \/ Younger(w, c, p)
      BY <1>2, <1>5, <3>1 DEF DueStands
    <3>3. Younger(w, c, p) => DueFor(c, p)'
      BY <1>5, <1>6 DEF Younger, DueFor
    <3> QED BY <1>6, <3>1, <3>2, <3>3
  <2>2. CASE i # n + 1
    <3>1. i \in 1 .. n /\ i \in 0 .. n /\ chan'[c][i] = chan[c][i]
      BY <1>4, <2>2
    <3>2. Stands(chan[c][i], mem, p) \/ Behind(c, i, p) \/ DueFor(c, p)
      BY <1>2, <1>9, <3>1 DEF Buffered, n
    <3> QED BY <1>6, <1>8, <3>1, <3>2
  <2> QED BY <2>1, <2>2
<1>10. ASSUME conn'[c] = "live", NEW p \in Below(Prefix[c])
      PROVE  Agree(view'[c], mem', p) \/ Behind(c, 0, p)' \/ DueFor(c, p)'
  <2>1. Agree(view[c], mem, p) \/ Behind(c, 0, p) \/ DueFor(c, p)
    BY <1>0, <1>2, <1>10 DEF Viewed
  <2>2. 0 \in 0 .. n
    BY <1>4
  <2> QED BY <1>0, <1>6, <1>8, <2>1, <2>2
<1>11. Buffered(c)'
  BY <1>9 DEF Buffered
<1> QED BY <1>10, <1>11 DEF Viewed

\* A writer that starts to publish will tell every client of its mutation that is
\* subscribed and watches something of it, but for the root.
LEMMA StartStep ==
    ASSUME TypeInv, NEW w \in Writer, StartPublish(w), NEW c \in Client, Faithful(c)'
    PROVE  Faithful(c) /\ \A p : DueFor(c, p) => DueFor(c, p)'
<1>0. /\ w \in Publishing /\ UNCHANGED <<dbVars, subs, raced>>
      /\ todo' = [todo EXCEPT ![w] = {s \in subs : TheHub!Matches(Prefix[s], event[w].path)}]
      /\ missed' = [d \in Client |->
                        missed[d] \/ (d \in subs /\ RootDiffers(Prefix[d], req[w].path))]
  BY DEF StartPublish, TheHub!Enter, Publishing
<1>1. c \in subs /\ ~ missed[c] /\ ~ raced[c] /\ ~ RootDiffers(Prefix[c], req[w].path)
  BY <1>0 DEF Faithful
<1>2. ASSUME Due(w, c)
      PROVE  c \in todo'[w]
  <2>1. event[w].path = req[w].path
    BY <1>2, DueIsEvent DEF SameWrites
  <2>2. Comparable(Prefix[c], req[w].path)
    BY <1>2 DEF Due
  <2>3. TheHub!Matches(Prefix[c], req[w].path)
    BY <1>1, <2>2, SameHub DEF TheHub!Matches, RootDiffers
  <2>4. w \in DOMAIN todo
    BY DEF TypeInv, TypeOK
  <2> QED BY <1>0, <1>1, <2>1, <2>3, <2>4
<1>3. \A v \in Writer : Due(v, c) => Due(v, c)' /\ req'[v] = req[v]
  BY <1>0, <1>2, DueStart DEF dbVars
<1> QED BY <1>1, <1>3, DueForKept DEF Faithful

\* Every step keeps what a client has and what is in its channel true to memory.
LEMMA NextClients ==
    ASSUME TypeInv, DueStands, [Next]_vars, NEW c \in Client, Buffered(c), Viewed(c)
    PROVE  Buffered(c)' /\ Viewed(c)'
<1>0. TypeOK /\ CallInv /\ EventInv /\ HubInv /\ StreamInv /\ IsDoc(mem)
      /\ Prefix[c] \in Path /\ DOMAIN chan = Client /\ DOMAIN view = Client
      /\ DOMAIN conn = Client /\ DOMAIN raced = Client /\ DOMAIN missed = Client
  BY HubConstants DEF TypeInv, TypeOK, HubInv, StreamInv
<1>1. ASSUME NEW w \in Writer, Request(w)
      PROVE  Buffered(c)' /\ Viewed(c)'
  <2>1. /\ mem' = mem /\ chan' = chan /\ view' = view /\ conn' = conn
        /\ subs' = subs /\ missed' = missed /\ raced' = raced
    BY <1>1 DEF Request, Db!Call, Db!CallPush, hubVars, history
  <2>2. \A v \in Writer : Due(v, c) => Due(v, c)' /\ req'[v] = req[v]
    BY <1>0, <1>1, DueRequest, RequestStep DEF Due
  <2>3. \A p : DueFor(c, p) => DueFor(c, p)'
    BY <2>2, DueForKept
  <2>4. Faithful(c)' => Faithful(c)
    BY <2>1 DEF Faithful
  <2> QED BY <2>1, <2>3, <2>4, ClientKept
<1>2. ASSUME NEW w \in Writer, Write(w)
      PROVE  Buffered(c)' /\ Viewed(c)'
  <2>1. /\ req' = req /\ IsMutation(req[w]) /\ mem' = Apply(mem, req[w])
        /\ EditEvents(req[w]) /\ view' = view /\ conn' = conn
        /\ subs' = subs /\ missed' = missed /\ raced' = raced
    BY <1>0, <1>2, WriteStep DEF Write
  <2>2. Faithful(c)' => Faithful(c)
    BY <2>1 DEF Faithful
  <2>3. \A v \in Writer : Due(v, c) => Due(v, c)' /\ req'[v] = req[v]
    BY <1>2, <2>1, DueWrite
  <2>4. \A p : DueFor(c, p) => DueFor(c, p)'
    BY <2>3, DueForKept
  <2>5. ASSUME NEW p \in Below(Prefix[c]), Determines(req[w], p)
        PROVE  DueFor(c, p)'
    <3>1. Comparable(Prefix[c], req[w].path)
      BY <1>0, <2>1, <2>5, DeterminedComparable DEF Below
    <3>2. Due(w, c)'
      BY <1>2, <3>1, DueWrite
    <3> QED BY <2>1, <2>5, <3>2 DEF DueFor
  <2> QED BY <2>1, <2>2, <2>4, <2>5, ClientEdited
<1>3. ASSUME NEW w \in Writer, Fail(w)
      PROVE  Buffered(c)' /\ Viewed(c)'
  <2>1. /\ (\A v \in Publishing : req'[v] = req[v])
        /\ IsMutation(req[w]) /\ mem' = Apply(mem, req[w])
        /\ EditEvents(req[w]) /\ view' = view /\ conn' = conn
        /\ subs' = subs /\ raced' = raced
        /\ missed' = [d \in Client |->
                        missed[d] \/ (d \in subs /\ Comparable(Prefix[d], req[w].path))]
    BY <1>0, <1>3, FailStep DEF Fail
  <2>2. Faithful(c)' => Faithful(c) /\ ~ Comparable(Prefix[c], req[w].path)
    BY <2>1 DEF Faithful
  <2>3. \A v \in Writer : Due(v, c) => Due(v, c)' /\ req'[v] = req[v]
    BY <1>3, <2>1, DueFail DEF Due
  <2>4. \A p : DueFor(c, p) => DueFor(c, p)'
    BY <2>3, DueForKept
  <2>5. ASSUME Faithful(c)', NEW p \in Below(Prefix[c]), Determines(req[w], p)
        PROVE  FALSE
    BY <1>0, <2>1, <2>2, <2>5, DeterminedComparable DEF Below
  <2> QED BY <2>1, <2>2, <2>4, <2>5, ClientEdited
<1>4. ASSUME NEW w \in Writer, StartPublish(w)
      PROVE  Buffered(c)' /\ Viewed(c)'
  <2>1. mem' = mem /\ chan' = chan /\ view' = view /\ conn' = conn
    BY <1>4 DEF StartPublish, TheHub!Enter, dbVars
  <2> QED BY <1>4, <2>1, StartStep, ClientKept
<1>5. ASSUME NEW w \in Writer, EndPublish(w)
      PROVE  Buffered(c)' /\ Viewed(c)'
  <2>1. /\ mem' = mem /\ chan' = chan /\ view' = view /\ conn' = conn
        /\ subs' = subs /\ missed' = missed /\ raced' = raced
        /\ \A v \in Writer \ {w} : req'[v] = req[v]
    BY <1>0, <1>5, EndPublishStep DEF EndPublish, TheHub!Leave
  <2>2. \A v \in Writer : Due(v, c) => Due(v, c)' /\ req'[v] = req[v]
    BY <1>5, <2>1, DueEnd
  <2>3. \A p : DueFor(c, p) => DueFor(c, p)'
    BY <2>2, DueForKept
  <2>4. Faithful(c)' => Faithful(c)
    BY <2>1 DEF Faithful
  <2> QED BY <2>1, <2>3, <2>4, ClientKept
<1>6. ASSUME NEW w \in Writer, NEW d \in Client, Deliver(w, d)
      PROVE  Buffered(c)' /\ Viewed(c)'
  <2>1. CASE d = c
    BY <1>6, <2>1, DeliverStep
  <2>2. CASE d # c
    <3>1. /\ UNCHANGED <<dbVars, conn, view, subs>> /\ chan'[c] = chan[c]
          /\ missed'[c] = missed[c] /\ raced'[c] = raced[c]
      BY <1>0, <1>6, <2>2 DEF Deliver, TheHub!Offer
    <3>2. \A v \in Writer : Due(v, c) => Due(v, c)' /\ req'[v] = req[v]
      BY <1>6, <2>2, <3>1, DueDeliver DEF dbVars
    <3>3. \A p : DueFor(c, p) => DueFor(c, p)'
      BY <3>2, DueForKept
    <3>4. mem' = mem /\ (Faithful(c)' => Faithful(c))
      BY <3>1 DEF Faithful, dbVars
    <3> QED BY <3>1, <3>3, <3>4, ClientKept
  <2> QED BY <2>1, <2>2
<1>k. ASSUME UNCHANGED <<dbVars, inside, todo>>, chan'[c] = chan[c], view'[c] = view[c],
             conn'[c] = "live" => conn[c] = "live", c \in subs' => c \in subs,
             missed'[c] = missed[c], raced'[c] = raced[c]
      PROVE  Buffered(c)' /\ Viewed(c)'
  <2>1. \A v \in Writer : Due(v, c) => Due(v, c)' /\ req'[v] = req[v]
    BY <1>k, DueKept DEF dbVars
  <2>2. \A p : DueFor(c, p) => DueFor(c, p)'
    BY <2>1, DueForKept
  <2>3. mem' = mem /\ (Faithful(c)' => Faithful(c))
    BY <1>k DEF Faithful, dbVars
  <2> QED BY <1>k, <2>2, <2>3, ClientKept
<1>7. ASSUME NEW d \in Client, Connect(d)
      PROVE  Buffered(c)' /\ Viewed(c)'
  <2>1. /\ UNCHANGED <<dbVars, inside, todo, view, missed, raced>>
        /\ subs' = subs \cup {d} /\ chan' = [chan EXCEPT ![d] = <<>>]
        /\ conn' = [conn EXCEPT ![d] = "subscribed"]
    BY <1>7 DEF Connect, TheHub!Subscribe, history
  <2>2. CASE d = c
    <3>1. chan'[c] = <<>> /\ conn'[c] # "live"
      BY <1>0, <2>1, <2>2
    <3>2. 1 .. Len(chan'[c]) = {}
      BY <3>1
    <3> QED BY <3>1, <3>2 DEF Buffered, Viewed
  <2>3. CASE d # c
    BY <1>0, <1>k, <2>1, <2>3
  <2> QED BY <2>2, <2>3
<1>8. ASSUME NEW d \in Client, Snapshot(d)
      PROVE  Buffered(c)' /\ Viewed(c)'
  <2>1. /\ UNCHANGED <<dbVars, hubVars, missed, raced>>
        /\ conn[d] = "subscribed" /\ conn' = [conn EXCEPT ![d] = "live"]
        /\ view' = [view EXCEPT ![d] =
              IF Prefix[d] \in DOMAIN mem THEN SetAt(@, Prefix[d], At(mem, Prefix[d])) ELSE @]
    BY <1>8 DEF Snapshot, history
  <2>2. CASE d = c
    <3>1. view[c] = EmptyDoc
      BY <1>0, <2>1, <2>2 DEF StreamInv
    <3>2. view'[c] = IF Prefix[c] \in DOMAIN mem
                     THEN SetAt(EmptyDoc, Prefix[c], At(mem, Prefix[c])) ELSE EmptyDoc
      BY <1>0, <2>1, <2>2, <3>1
    <3>3. \A p \in Below(Prefix[c]) : Agree(view'[c], mem, p)
      BY <1>0, <3>2, SnapshotAgrees
    <3>4. mem' = mem /\ chan'[c] = chan[c] /\ (Faithful(c)' => Faithful(c))
      BY <2>1 DEF dbVars, hubVars, Faithful
    <3>5. \A v \in Writer : Due(v, c) => Due(v, c)' /\ req'[v] = req[v]
      BY <2>1, DueKept DEF dbVars, hubVars
    <3>6. \A p : DueFor(c, p) => DueFor(c, p)'
      BY <3>5, DueForKept
    <3>7. Buffered(c)'
      BY <3>4, <3>6, ClientKept
    <3>8. Viewed(c)'
      BY <3>3, <3>4 DEF Viewed
    <3> QED BY <3>7, <3>8
  <2>3. CASE d # c
    BY <1>0, <1>k, <2>1, <2>3 DEF hubVars
  <2> QED BY <2>2, <2>3
<1>9. ASSUME NEW d \in Client, Forward(d)
      PROVE  Buffered(c)' /\ Viewed(c)'
  <2>1. CASE d = c
    BY <1>9, <2>1, ForwardStep
  <2>2. CASE d # c
    <3>1. /\ UNCHANGED <<dbVars, conn, subs, inside, todo, missed, raced>>
          /\ chan' = [chan EXCEPT ![d] = Tail(@)]
          /\ view' = [view EXCEPT ![d] = Apply(@, Head(chan[d]))]
      BY <1>9 DEF Forward, TheHub!Receive, history
    <3> QED BY <1>0, <1>k, <2>2, <3>1
  <2> QED BY <2>1, <2>2
<1>10. ASSUME NEW d \in Client, Close(d)
      PROVE  Buffered(c)' /\ Viewed(c)'
  <2>1. /\ UNCHANGED <<dbVars, hubVars, view, missed, raced>>
        /\ conn[d] = "live" /\ conn' = [conn EXCEPT ![d] = "closing"]
    BY <1>10 DEF Close, history
  <2> QED BY <1>0, <1>k, <2>1 DEF hubVars
<1>11. ASSUME NEW d \in Client, Disconnect(d)
      PROVE  Buffered(c)' /\ Viewed(c)'
  <2>1. /\ UNCHANGED <<dbVars, chan, inside, todo>> /\ subs' = subs \ {d}
        /\ conn' = [conn EXCEPT ![d] = "off"] /\ view' = [view EXCEPT ![d] = EmptyDoc]
        /\ raced' = [raced EXCEPT ![d] = FALSE] /\ missed' = [missed EXCEPT ![d] = FALSE]
    BY <1>11 DEF Disconnect, TheHub!Unsubscribe
  <2>2. CASE d = c
    BY <2>1, <2>2 DEF Buffered, Viewed, Faithful
  <2>3. CASE d # c
    BY <1>0, <1>k, <2>1, <2>3
  <2> QED BY <2>2, <2>3
<1>12. CASE Restart
  BY <1>12 DEF Restart, Buffered, Viewed, Faithful
<1>13. CASE UNCHANGED vars
  BY <1>13, <1>k DEF vars, hubVars, history
<1> QED BY <1>1, <1>2, <1>3, <1>4, <1>5, <1>6, <1>7, <1>8, <1>9, <1>10, <1>11, <1>12, <1>13 DEF Next

-----------------------------------------------------------------------------
(* The theorems. *)

\* It holds before the first call ...
LEMMA InitIInv == Init => IInv
<1> SUFFICES ASSUME Init PROVE IInv
  OBVIOUS
<1>1. /\ mem = EmptyDoc /\ disk = EmptyDoc /\ pc = [w \in Writer |-> "idle"]
      /\ req = [w \in Writer |-> NoReq]
      /\ subs = {} /\ inside = {} /\ chan = [c \in Client |-> <<>>]
      /\ todo = [w \in Writer |-> {}]
      /\ conn = [c \in Client |-> "off"] /\ view = [c \in Client |-> EmptyDoc]
      /\ event = NoEvents /\ older = [w \in Writer |-> {}] /\ overtaken = [w \in Writer |-> {}]
      /\ raced = [c \in Client |-> FALSE] /\ missed = [c \in Client |-> FALSE]
  BY SameDatabase DEF Init, Db!Init, TheHub!HubInit
<1>2. Publishing = {}
  BY <1>1 DEF Publishing
<1>3. \A c \in Client : chan[c] = <<>> /\ IsBuffer(chan[c]) /\ Len(chan[c]) = 0 /\ 1 .. Len(chan[c]) = {}
  <2>1. Len(<<>>) = 0 /\ 1 .. 0 = {}
    OBVIOUS
  <2> QED BY <1>1, <2>1, EmptyBuffer
<1>4. TypeOK
  BY <1>1, <1>2, <1>3, EmptyDocIsDoc, HubConstants DEF TypeOK, NoEvents
<1>5. CallInv
  BY <1>1 DEF CallInv
<1>6. EventInv
  BY <1>2, <1>3 DEF EventInv
<1>7. HubInv
  BY <1>1, <1>3 DEF HubInv
<1>8. StreamInv
  <2>1. older \in [Writer -> SUBSET Writer] /\ overtaken \in [Writer -> SUBSET Client]
    BY <1>1
  <2> QED BY <1>1, <2>1 DEF StreamInv
<1>9. DueStands
  BY <1>2 DEF DueStands, Due
<1>10. \A c \in Client : Buffered(c) /\ Viewed(c)
  BY <1>1 DEF Buffered, Viewed, Faithful
<1> QED BY <1>4, <1>5, <1>6, <1>7, <1>8, <1>9, <1>10 DEF IInv, TypeInv

\* ... and every step keeps it.
LEMMA NextIInv == IInv /\ [Next]_vars => IInv'
<1> SUFFICES ASSUME IInv, [Next]_vars PROVE IInv'
  OBVIOUS
<1>1. TypeInv'
  BY NextTypeOK, NextCallInv, NextEventInv, NextHubInv, NextStreamInv DEF IInv, TypeInv
<1>2. DueStands'
  BY NextDueStands DEF IInv
<1>3. ASSUME NEW c \in Client
      PROVE  Buffered(c)' /\ Viewed(c)'
  BY NextClients DEF IInv
<1> QED BY <1>1, <1>2, <1>3 DEF IInv

\* The inductive invariant holds of every behaviour of the realtime path.
THEOREM Invariance == Spec => []IInv
BY InitIInv, NextIInv, PTL DEF Spec

\* The documents the database holds and the clients rebuild stay documents, the
\* channels stay within their capacity, and a stream that is up is subscribed.
THEOREM StreamTypeCorrect == Spec => []TypeOK
<1>1. IInv => TypeOK
  BY DEF IInv, TypeInv
<1> QED BY <1>1, Invariance, PTL

\* Whatever a client does while events are sent to it, none is offered to a channel
\* that unsubscribe has closed: the hub holds its read lock from the moment it fixes
\* whom to tell until it has told them, and unsubscribe takes the write lock.
THEOREM NothingSentOnClosed == Spec => []NoSendOnClosed
<1>1. IInv => NoSendOnClosed
  BY DEF IInv, TypeInv, HubInv, TypeOK, NoSendOnClosed
<1> QED BY <1>1, Invariance, PTL

\* A client to which nothing is on its way has what is in memory, by Viewed.
LEMMA ViewedConverges == IInv => StreamConverges
<1> SUFFICES ASSUME IInv, NEW c \in Client, Quiet(c), ~ missed[c], ~ raced[c]
             PROVE  InSync(c)
  BY DEF StreamConverges
<1>1. TypeOK /\ Viewed(c) /\ Prefix[c] \in Path
  BY HubConstants DEF IInv, TypeInv
<1>2. conn[c] = "live" /\ chan[c] = <<>> /\ Publishing = {} /\ c \in subs
  BY <1>1 DEF Quiet, TypeOK
<1>3. ASSUME NEW p \in Below(Prefix[c])
      PROVE  Agree(view[c], mem, p)
  <2>1. 0 + 1 .. Len(chan[c]) = {}
    BY <1>2
  <2>2. ~ Behind(c, 0, p)
    BY <2>1 DEF Behind
  <2>3. ~ DueFor(c, p)
    BY <1>2 DEF DueFor, Due
  <2> QED BY <1>1, <1>2, <2>2, <2>3 DEF Viewed, Faithful
<1>4. DOMAIN view[c] \in SUBSET Path /\ DOMAIN mem \in SUBSET Path
  BY <1>1 DEF TypeOK, IsDoc, IsTree
<1>5. At(view[c], Prefix[c]) = At(mem, Prefix[c])
  <2>1. PICK t : t = view[c]
    OBVIOUS
  <2>2. \A d \in Path : IsPrefix(Prefix[c], d) =>
          /\ d \in DOMAIN t <=> d \in DOMAIN mem
          /\ d \in DOMAIN t => t[d] = mem[d]
    BY <1>3, <2>1 DEF Below, Agree
  <2> QED BY <1>1, <1>4, <2>1, <2>2, SameSubtree
<1> QED BY <1>5 DEF InSync

\* Subscribing before the snapshot leaves no gap: once nothing is on its way to a client,
\* it has exactly the subtree it watches, unless an event was skipped at a full channel
\* or never sent, or reached it after a later, conflicting one.
THEOREM StreamsConverge == Spec => []StreamConverges
BY ViewedConverges, Invariance, PTL

=============================================================================
