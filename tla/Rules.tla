-------------------------------- MODULE Rules --------------------------------
(***************************************************************************)
(* rules.go, what the document in force decides.  A document is the tree   *)
(* of its nodes: a function from their paths, whose last segment may be a  *)
(* wildcard, to the texts of their two rules, <<>> for none.  check walks  *)
(* down the tree along the path of a request.  A node is looked up under   *)
(* the segment's own name, else any wildcard among its siblings is taken:  *)
(* Go walks the map in an order of its own, so that check is the set of    *)
(* the answers it may give.                                                *)
(***************************************************************************)
EXTENDS RuleStore, RuleExpr, SequencesExt

CONSTANTS
    Wild,       \* the names of wildcards
    Path,       \* the paths that requests ask for
    User        \* the users who ask, Anonymous among them

\* A document is a tree whose texts have been cut into tokens.
IsTree(doc) ==
    /\ DOMAIN doc \subseteq Seq(Text) /\ <<>> \in DOMAIN doc
    /\ \A node \in DOMAIN doc :
        /\ node # <<>> => Front(node) \in DOMAIN doc
        /\ doc[node] \in [read : Seq(Token), write : Seq(Token)]

ASSUME RulesConstants ==
    /\ \A doc \in Doc : IsTree(doc)
    /\ Wild \subseteq Text /\ Path \subseteq Seq(Text)
    /\ User \subseteq [uid : Text, email : Text]

Unbound == [x \in {} |-> ""]
Bind(f, x, seg) == [y \in DOMAIN f \cup {x} |-> IF y = x THEN seg ELSE f[y]]

Rule(doc, node, op) == IF op = "read" THEN doc[node].read ELSE doc[node].write

\* Mutant: a wildcard is preferred to a node with the segment's own name.
ChildrenWildFirst(doc, node, seg) ==
    LET wild == {x \in Wild : Append(node, x) \in DOMAIN doc}
    IN  IF wild # {} THEN wild
        ELSE IF Append(node, seg) \in DOMAIN doc THEN {seg} ELSE {}

\* The children of a node that stand for a segment.
Children(doc, node, seg) ==
    IF Append(node, seg) \in DOMAIN doc THEN {seg}
    ELSE {x \in Wild : Append(node, x) \in DOMAIN doc}

\* A walk: the node reached, the wildcards bound, whether a rule has granted, and
\* whether there was no child to go on to.
Visit(doc, op, user, node, bound) ==
    LET text == Rule(doc, node, op)
    IN  [node |-> node, bound |-> bound, over |-> FALSE,
         granted |-> text # <<>> /\ EvalExpr(text, user, bound)]

\* Mutant: the deepest node decides, whatever those above it have granted.
StepsDeepest(doc, op, user, w, seg) ==
    IF w.over THEN {w}
    ELSE IF Children(doc, w.node, seg) = {} THEN {[w EXCEPT !.over = TRUE]}
    ELSE {Visit(doc, op, user, Append(w.node, x),
                IF x = seg THEN w.bound ELSE Bind(w.bound, x, seg))
          : x \in Children(doc, w.node, seg)}

\* The walks that go on from w with one more segment.
Steps(doc, op, user, w, seg) ==
    IF w.granted \/ w.over THEN {w}
    ELSE IF Children(doc, w.node, seg) = {} THEN {[w EXCEPT !.over = TRUE]}
    ELSE {Visit(doc, op, user, Append(w.node, x),
                IF x = seg THEN w.bound ELSE Bind(w.bound, x, seg))
          : x \in Children(doc, w.node, seg)}

\* The walks down a path, after each number of its segments.
Walks(doc, path, op, user) ==
    LET W[n \in 0 .. Len(path)] ==
            IF n = 0 THEN {Visit(doc, op, user, <<>>, Unbound)}
            ELSE UNION {Steps(doc, op, user, w, path[n]) : w \in W[n - 1]}
    IN  W

check(doc, path, op, user) == {w.granted : w \in Walks(doc, path, op, user)[Len(path)]}

-----------------------------------------------------------------------------
(***************************************************************************)
(* What a document says, as the reference: the nodes that stand for a      *)
(* prefix of the path, and the meaning of their texts.                     *)
(***************************************************************************)
Matches(doc, node, path) ==
    /\ Len(node) <= Len(path)
    /\ \A i \in DOMAIN node :
        \/ node[i] = path[i]
        \/ node[i] \in Wild /\ SubSeq(node, 1, i - 1) \o <<path[i]>> \notin DOMAIN doc

\* The wildcards that stand for a segment, each for the last of those it stands for.
Binding(node, path) ==
    LET place == {i \in DOMAIN node : node[i] # path[i]}
    IN  [x \in {node[i] : i \in place} |->
            path[CHOOSE i \in place : node[i] = x /\ \A j \in place : node[j] = x => j <= i]]

Allowed(doc, path, op, user) ==
    \E node \in DOMAIN doc :
        /\ Matches(doc, node, path)
        /\ Holds(Rule(doc, node, op), user, Binding(node, path))

Texts(doc) == {doc[node].read : node \in DOMAIN doc} \cup {doc[node].write : node \in DOMAIN doc}
Grammatical(doc) == \A text \in Texts(doc) \ {<<>>} : IsExpr(text)

\* No two wildcards have the same parent.
Unambiguous(doc) ==
    \A n1, n2 \in DOMAIN doc \ {<<>>} :
        Front(n1) = Front(n2) /\ {Last(n1), Last(n2)} \subseteq Wild => n1 = n2

\* A document whose texts are expressions is read as it is written, by every walk.
ReadAsWritten ==
    [doc \in Doc |-> Grammatical(doc) =>
        \A path \in Path, op \in {"read", "write"}, user \in User :
            \A answers \in {check(doc, path, op, user)} :
                /\ TRUE \in answers <=> Allowed(doc, path, op, user)
                /\ Unambiguous(doc) => Cardinality(answers) = 1]

-----------------------------------------------------------------------------
\* The document in force grants a request exactly when a rule at the path or above it
\* holds as the grammar reads it (rules.go:5-13), where a node of the segment's own
\* name comes before a wildcard; and the answer is the same each time, unless
\* two wildcards are siblings.
CheckMeansRules == up => ReadAsWritten[root]

=============================================================================
