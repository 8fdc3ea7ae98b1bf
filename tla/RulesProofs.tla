----------------------------- MODULE RulesProofs -----------------------------
(***************************************************************************)
(* Proofs about modules RuleStore, Rules and RuleExpr, in three parts.     *)
(*                                                                         *)
(* The parser: it reads every expression of the grammar at the head of     *)
(* rules.go to its end, and the value it returns is the one the grammar    *)
(* gives the expression.  The parser's functions and the grammar's are     *)
(* recursive; RankedRecursion shows that they exist, and AllNumbers is the *)
(* induction, over a set rather than an operator.                          *)
(*                                                                         *)
(* The walk: what check reaches are the nodes that stand for a prefix of   *)
(* the path, with the wildcards' bindings, and it misses none that grants. *)
(*                                                                         *)
(* The store: the document in force survives a restart, and is one of the  *)
(* documents of the first two parts.                                       *)
(***************************************************************************)
EXTENDS Rules, FiniteSetTheorems, WellFoundedInduction, TLAPS

-----------------------------------------------------------------------------
\* A set of numbers has a least one ...
LEMMA LeastNumber ==
    ASSUME NEW T, T \subseteq Nat, T # {}
    PROVE  \E x \in T : \A y \in T : x <= y
<1> DEFINE R == OpToRel(<, Nat)
<1>1. IsWellFoundedOn(R, Nat)
    BY NatLessThanWellFounded
<1>2. \A x, y \in Nat : y < x => <<y, x>> \in R
    BY DEF OpToRel
<1> HIDE DEF R
<1>3. PICK x \in T : \A y \in T : ~ (<<y, x>> \in R)
    BY <1>1, WFMin
<1>4. \A y \in T : y \in Nat /\ x \in Nat
    OBVIOUS
<1>5. \A y \in T : ~ (y < x)
    BY <1>2, <1>3, <1>4
<1>6. \A y \in T : x <= y
    BY <1>4, <1>5
<1> QED
    BY <1>6

\* ... and has them all if it has each number below which it has them all.
LEMMA AllNumbers ==
    ASSUME NEW P, \A n \in Nat : (\A m \in Nat : m < n => m \in P) => n \in P
    PROVE  \A n \in Nat : n \in P
<1> SUFFICES ASSUME Nat \ P # {} PROVE FALSE
    OBVIOUS
<1>1. PICK x \in Nat \ P : \A y \in Nat \ P : x <= y
    BY LeastNumber
<1>2. \A m \in Nat : m < x => m \in P
    BY <1>1
<1> QED
    BY <1>2

-----------------------------------------------------------------------------
(* Recursion on arguments that have a rank: the parser's calls on later tokens, *)
(* the grammar's phrases within a phrase, the walks of fewer segments.          *)

\* The functions whose value at x is in T[x].
Typed(D, R, T) == {f \in [D -> R] : \A x \in D : f[x] \in T[x]}

\* What h makes of a function depends, at x, on its values at the arguments of lower rank.
Local(D, S, rank, h) ==
    \A f, g \in S : \A x \in D :
        (\A y \in D : rank[y] < rank[x] => f[y] = g[y]) => h[f][x] = h[g][x]

\* h has a fixed point.
LEMMA RankedRecursion ==
    ASSUME NEW D, NEW R, NEW T, NEW rank, rank \in [D -> Nat],
           NEW h, h \in [Typed(D, R, T) -> Typed(D, R, T)], NEW a, a \in Typed(D, R, T),
           Local(D, Typed(D, R, T), rank, h)
    PROVE  \E F \in Typed(D, R, T) : h[F] = F
<1> DEFINE S == Typed(D, R, T)
<1> DEFINE Good(n) == {f \in S : \A x \in D : rank[x] < n => h[f][x] = f[x]}
<1>0. /\ \A f \in S : h[f] \in S
      /\ \A f, g \in S : \A x \in D :
            (\A y \in D : rank[y] < rank[x] => f[y] = g[y]) => h[f][x] = h[g][x]
      /\ \A x \in D : rank[x] \in Nat
      /\ a \in S
    BY DEF Local
<1>1. \A f \in S : f = [x \in D |-> f[x]] /\ \A x \in D : f[x] \in R /\ f[x] \in T[x]
    BY DEF Typed
<1>2. \A f : f = [x \in D |-> f[x]] /\ (\A x \in D : f[x] \in R /\ f[x] \in T[x]) => f \in S
    BY DEF Typed
<1> HIDE DEF S
<1>3. \A n \in Nat : Good(n) # {}
    <2> DEFINE P == {n \in Nat : Good(n) # {}}
    <2>1. ASSUME NEW n \in Nat, \A m \in Nat : m < n => m \in P
          PROVE  n \in P
        <3>1. CASE n = 0
            <4>1. a \in Good(0)
                BY <1>0
            <4> QED
                BY <3>1, <4>1
        <3>2. CASE n # 0
            <4>1. n - 1 \in Nat /\ n - 1 < n /\ (n - 1) + 1 = n
                BY <3>2
            <4>2. PICK f : f \in Good(n - 1)
                BY <2>1, <4>1
            <4>3. f \in S /\ \A x \in D : rank[x] < n - 1 => h[f][x] = f[x]
                BY <4>2
            <4> DEFINE g == h[f]
            <4>4. g \in S
                BY <1>0, <4>3
            <4>5. ASSUME NEW x \in D, rank[x] < n
                  PROVE  h[g][x] = g[x]
                <5>1. \A y \in D : rank[y] < rank[x] => f[y] = g[y]
                    BY <1>0, <4>1, <4>3, <4>5
                <5>2. h[f][x] = h[g][x]
                    BY <1>0, <4>3, <4>4, <5>1
                <5> QED
                    BY <5>2
            <4> HIDE DEF g
            <4>6. g \in Good(n)
                BY <4>4, <4>5
            <4> QED
                BY <4>6
        <3> QED
            BY <3>1, <3>2
    <2> HIDE DEF P
    <2>2. \A n \in Nat : n \in P
        BY <2>1, AllNumbers
    <2> QED
        BY <2>2 DEF P
<1>4. ASSUME NEW n \in Nat, NEW m \in Nat, NEW f \in Good(n), NEW g \in Good(m),
             NEW x \in D, rank[x] < n, rank[x] < m
      PROVE  f[x] = g[x]
    <2> DEFINE P == {k \in Nat : \A y \in D : rank[y] = k /\ k < n /\ k < m => f[y] = g[y]}
    <2>1. ASSUME NEW k \in Nat, \A j \in Nat : j < k => j \in P
          PROVE  k \in P
        <3>1. ASSUME NEW y \in D, rank[y] = k, k < n, k < m
              PROVE  f[y] = g[y]
            <4>1. \A z \in D : rank[z] < rank[y] => f[z] = g[z]
                BY <1>0, <2>1, <3>1
            <4>2. h[f][y] = h[g][y]
                BY <1>0, <4>1
            <4> QED
                BY <3>1, <4>2
        <3> QED
            BY <3>1
    <2> HIDE DEF P
    <2>2. rank[x] \in P
        BY <1>0, <2>1, AllNumbers
    <2> QED
        BY <1>4, <2>2 DEF P
<1> DEFINE c(n) == CHOOSE f : f \in Good(n)
<1>5. \A n \in Nat : c(n) \in Good(n)
    BY <1>3
<1> HIDE DEF c
<1> DEFINE F == [x \in D |-> c(rank[x] + 1)[x]]
<1>6. \A x \in D : rank[x] + 1 \in Nat /\ rank[x] < rank[x] + 1
    BY <1>0
<1>7. \A n \in Nat : c(n) \in S /\ \A x \in D : rank[x] < n => h[c(n)][x] = c(n)[x]
    BY <1>5
<1>8. \A n \in Nat : \A x \in D : rank[x] < n => F[x] = c(n)[x]
    BY <1>4, <1>5, <1>6
<1>9. F \in S
    <2>1. F = [x \in D |-> F[x]]
        OBVIOUS
    <2>2. \A x \in D : F[x] \in R /\ F[x] \in T[x]
        BY <1>1, <1>6, <1>7
    <2> QED
        BY <1>2, <2>1, <2>2
<1> HIDE DEF F
<1>10. ASSUME NEW x \in D
       PROVE  h[F][x] = F[x]
    <2> DEFINE f == c(rank[x] + 1)
    <2>1. f \in S /\ h[f][x] = f[x]
        BY <1>6, <1>7
    <2>2. \A y \in D : rank[y] < rank[x] + 1 => F[y] = f[y]
        BY <1>6, <1>8
    <2>3. \A y \in D : rank[y] < rank[x] => F[y] = f[y]
        BY <1>0, <2>2
    <2>4. F[x] = f[x]
        BY <1>6, <2>2
    <2> HIDE DEF f
    <2>5. h[F][x] = h[f][x]
        BY <1>0, <1>9, <2>1, <2>3
    <2> QED
        BY <2>1, <2>4, <2>5
<1>11. h[F] = F
    <2>1. h[F] \in S
        BY <1>0, <1>9
    <2>2. F = [x \in D |-> F[x]] /\ h[F] = [x \in D |-> h[F][x]]
        BY <1>1, <1>9, <2>1
    <2> QED
        BY <1>10, <2>2
<1> QED
    BY <1>9, <1>11 DEF S

-----------------------------------------------------------------------------
(* The evaluator. *)

Bindings == UNION {[names -> Text] : names \in SUBSET Text}
Evaluation == [toks : Seq(Token), user : [uid : Text, email : Text], vars : Bindings]

Result == [v : Value, pos : Nat \ {0}]
From(i) == {r \in Result : r.pos >= i}

\* The functions that give each call a value and a position that is not before its start.
Onward == Typed(ParseCall, Result, [c \in ParseCall |-> From(c[2])])

LEMMA ValueTypes ==
    /\ Null \in Value
    /\ \A x \in BOOLEAN : Bool(x) \in Value
    /\ \A x \in Text : Str(x) \in Value /\ Str(x) # Null
    /\ \A v : Truthy(v) \in BOOLEAN
<1>1. Null \in Value /\ Bool(TRUE) \in Value /\ Bool(FALSE) \in Value
    BY TextAssumption DEF Null, Bool, Value
<1>2. \A x \in Text : Str(x) \in Value
    BY DEF Str, Value
<1>3. \A x : Str(x) # Null
    BY DEF Str, Null
<1>4. \A v : Truthy(v) \in BOOLEAN
    BY Zenon DEF Truthy
<1>5. \A x \in BOOLEAN : x = TRUE \/ x = FALSE
    OBVIOUS
<1>6. \A x \in BOOLEAN : Bool(x) \in Value
    BY <1>1, <1>5, Zenon
<1> QED
    BY <1>1, <1>2, <1>3, <1>4, <1>6, Zenon

LEMMA ResolveType ==
    ASSUME NEW p \in Evaluation, NEW name \in Text, NEW field \in Value
    PROVE  resolve(p, name, field) \in Value
<1>1. p.user \in [uid : Text, email : Text] /\ p.vars \in Bindings
    BY DEF Evaluation
<1>2. \A x \in {"uid", "email"} : p.user[x] \in Text
    BY <1>1
<1>3. \A x \in DOMAIN p.vars : p.vars[x] \in Text
    BY <1>1 DEF Bindings
<1>4. Bool(TRUE) \in Value /\ Bool(FALSE) \in Value /\ Null \in Value /\ Str("__auth__") \in Value
    BY ValueTypes, TextAssumption
<1>5. CASE name = "auth" /\ p.user # Anonymous
    BY <1>2, <1>4, <1>5, ValueTypes DEF resolve
<1>6. CASE name # "auth" \/ p.user = Anonymous
    <2>1. CASE name \in {"true", "false"}
        <3>1. (name = "true") \in BOOLEAN /\ resolve(p, name, field) = Bool(name = "true")
            BY <2>1 DEF resolve
        <3> QED
            BY <3>1, ValueTypes
    <2>2. CASE name \notin {"true", "false"}
        BY <1>3, <1>4, <1>6, <2>2, ValueTypes DEF resolve
    <2> QED
        BY <2>1, <2>2
<1> QED
    BY <1>5, <1>6

\* Where there is a token.
LEMMA PeekType ==
    ASSUME NEW p \in Evaluation, NEW i \in Nat \ {0}
    PROVE  /\ Len(p.toks) \in Nat
           /\ peek(p, i) # "eof" => /\ i <= Len(p.toks)
                                    /\ p.toks[i] \in Token /\ p.toks[i].val \in Text
                                    /\ peek(p, i) = p.toks[i].kind
           /\ peek(p, i) = "eof" => i > Len(p.toks)
<1>1. p.toks \in Seq(Token)
    BY DEF Evaluation
<1>2. Len(p.toks) \in Nat /\ \A k \in 1 .. Len(p.toks) : p.toks[k] \in Token
    BY <1>1
<1>3. \A t \in Token : t.val \in Text /\ t.kind # "eof"
    BY DEF Token
<1> QED
    BY <1>2, <1>3 DEF peek

LEMMA CallResult ==
    ASSUME NEW P \in Onward, NEW k \in {"or", "unary", "&&", "||", "."}, NEW i \in Nat \ {0},
           NEW v \in Value
    PROVE  <<k, i, v>> \in ParseCall /\ P[<<k, i, v>>] \in From(i)
<1>1. <<k, i, v>> \in ParseCall /\ <<k, i, v>>[2] = i
    BY DEF ParseCall
<1> QED
    BY <1>1 DEF Onward, Typed

\* P and Q agree on the calls that start behind the token at i, when there is one.
Agree(P, Q, p, i) == \A c \in ParseCall : i <= Len(p.toks) /\ c[2] > i => P[c] = Q[c]

LEMMA AgreeOn ==
    ASSUME NEW p \in Evaluation, NEW P \in Onward, NEW Q \in Onward, NEW i \in Nat \ {0},
           Agree(P, Q, p, i), NEW j \in Nat \ {0}, j >= i, peek(p, j) # "eof",
           NEW k \in {"or", "unary", "&&", "||", "."}, NEW m \in Nat \ {0}, m > j, NEW v \in Value
    PROVE  P[<<k, m, v>>] = Q[<<k, m, v>>] /\ P[<<k, m, v>>] \in From(m)
<1>1. j <= Len(p.toks) /\ Len(p.toks) \in Nat
    BY PeekType
<1>2. <<k, m, v>> \in ParseCall /\ <<k, m, v>>[2] = m /\ P[<<k, m, v>>] \in From(m)
    BY CallResult
<1>3. i <= Len(p.toks) /\ m > i
    BY <1>1
<1> QED
    BY <1>2, <1>3 DEF Agree

LEMMA FromTypes ==
    /\ \A i \in Nat \ {0} : \A v \in Value : \A j \in Nat \ {0} : j >= i => At(v, j) \in From(i)
    /\ \A i \in Nat \ {0} : \A r \in From(i) : r.v \in Value /\ r.pos \in Nat \ {0} /\ r.pos >= i
    /\ \A i, j \in Nat \ {0} : j >= i => From(j) \subseteq From(i)
BY DEF From, Result, At

LEMMA FieldsLocal ==
    ASSUME NEW p \in Evaluation, NEW P \in Onward, NEW Q \in Onward, NEW i \in Nat \ {0},
           NEW j \in Nat \ {0}, j >= i, Agree(P, Q, p, i), NEW v \in Value
    PROVE  Fields(P, p, j, v) = Fields(Q, p, j, v) /\ Fields(P, p, j, v) \in From(j)
<1>1. CASE peek(p, j) # "."
    BY <1>1, FromTypes DEF Fields
<1>2. CASE peek(p, j) = "." /\ peek(p, j + 1) = "ident"
    <2> DEFINE w == IF v = Null THEN Str(p.toks[j + 1].val) ELSE v
    <2>1. w \in Value
        <3>1. j + 1 \in Nat \ {0} /\ peek(p, j + 1) # "eof"
            BY <1>2
        <3>2. p.toks[j + 1].val \in Text
            BY <3>1, PeekType
        <3> QED
            BY <3>2, ValueTypes
    <2>2. /\ Fields(P, p, j, v) = P[<<".", j + 2, w>>]
          /\ Fields(Q, p, j, v) = Q[<<".", j + 2, w>>]
        BY <1>2 DEF Fields
    <2> HIDE DEF w
    <2>3. P[<<".", j + 2, w>>] = Q[<<".", j + 2, w>>] /\ P[<<".", j + 2, w>>] \in From(j + 2)
        <3>1. j + 2 \in Nat \ {0} /\ j + 2 > j /\ peek(p, j) # "eof"
            BY <1>2
        <3> QED
            BY <2>1, <3>1, AgreeOn
    <2>4. From(j + 2) \subseteq From(j)
        BY FromTypes
    <2> QED
        BY <2>2, <2>3, <2>4
<1>3. CASE peek(p, j) = "." /\ peek(p, j + 1) # "ident"
    <2>1. /\ Fields(P, p, j, v) = P[<<".", j + 1, v>>]
          /\ Fields(Q, p, j, v) = Q[<<".", j + 1, v>>]
        BY <1>3 DEF Fields
    <2>2. P[<<".", j + 1, v>>] = Q[<<".", j + 1, v>>] /\ P[<<".", j + 1, v>>] \in From(j + 1)
        <3>1. j + 1 \in Nat \ {0} /\ j + 1 > j /\ peek(p, j) # "eof"
            BY <1>3
        <3> QED
            BY <3>1, AgreeOn
    <2>3. From(j + 1) \subseteq From(j)
        BY FromTypes
    <2> QED
        BY <2>1, <2>2, <2>3
<1> QED
    BY <1>1, <1>2, <1>3

\* Behind the end of i's token both functions agree as well.
LEMMA AgreeLater ==
    ASSUME NEW p \in Evaluation, NEW P, NEW Q, NEW i \in Nat \ {0}, Agree(P, Q, p, i),
           NEW j \in Nat \ {0}, j >= i
    PROVE  Agree(P, Q, p, j)
<1>1. Len(p.toks) \in Nat
    BY PeekType
<1>2. \A c \in ParseCall : c[2] \in Nat
    BY DEF ParseCall
<1> QED
    BY <1>1, <1>2 DEF Agree

LEMMA PrimaryLocal ==
    ASSUME NEW p \in Evaluation, NEW P \in Onward, NEW Q \in Onward, NEW i \in Nat \ {0},
           Agree(P, Q, p, i)
    PROVE  parsePrimary(P, p, i) = parsePrimary(Q, p, i) /\ parsePrimary(P, p, i) \in From(i)
<1>1. /\ i + 1 \in Nat \ {0} /\ i + 1 > i /\ i + 1 >= i
      /\ From(i + 1) \subseteq From(i) /\ Null \in Value
    BY FromTypes, ValueTypes
<1>2. CASE peek(p, i) = "("
    <2> DEFINE r == P[<<"or", i + 1, Null>>]
    <2>1. r = Q[<<"or", i + 1, Null>>] /\ r \in From(i + 1)
        BY <1>1, <1>2, AgreeOn
    <2>2. /\ parsePrimary(P, p, i) = IF peek(p, r.pos) = ")" THEN At(r.v, r.pos + 1) ELSE r
          /\ parsePrimary(Q, p, i) = IF peek(p, r.pos) = ")" THEN At(r.v, r.pos + 1) ELSE r
        BY <1>2, <2>1 DEF parsePrimary
    <2> HIDE DEF r
    <2>3. r \in From(i) /\ r.v \in Value /\ r.pos \in Nat \ {0} /\ r.pos >= i
        BY <1>1, <2>1, FromTypes
    <2>4. At(r.v, r.pos + 1) \in From(i)
        BY <2>3, FromTypes
    <2> QED
        BY <2>2, <2>3, <2>4
<1>3. CASE peek(p, i) = "string"
    <2>1. p.toks[i].val \in Text
        BY <1>3, PeekType
    <2>2. At(Str(p.toks[i].val), i + 1) \in From(i)
        BY <1>1, <2>1, ValueTypes, FromTypes
    <2> QED
        BY <1>3, <2>2 DEF parsePrimary
<1>4. CASE peek(p, i) = "ident"
    <2> DEFINE f == Fields(P, p, i + 1, Null)
    <2>1. f = Fields(Q, p, i + 1, Null) /\ f \in From(i + 1)
        BY <1>1, FieldsLocal
    <2>2. /\ parsePrimary(P, p, i) = At(resolve(p, p.toks[i].val, f.v), f.pos)
          /\ parsePrimary(Q, p, i) = At(resolve(p, p.toks[i].val, f.v), f.pos)
        BY <1>4, <2>1 DEF parsePrimary
    <2> HIDE DEF f
    <2>3. f.v \in Value /\ f.pos \in Nat \ {0} /\ f.pos >= i /\ p.toks[i].val \in Text
        BY <1>1, <1>4, <2>1, FromTypes, PeekType
    <2>4. resolve(p, p.toks[i].val, f.v) \in Value
        BY <2>3, ResolveType
    <2>5. At(resolve(p, p.toks[i].val, f.v), f.pos) \in From(i)
        BY <2>3, <2>4, FromTypes
    <2> QED
        BY <2>2, <2>5
<1>5. CASE peek(p, i) \notin {"(", "string", "ident"}
    <2>1. At(Null, i) \in From(i) /\ At(Null, i + 1) \in From(i)
        BY <1>1, FromTypes
    <2> QED
        BY <1>5, <2>1 DEF parsePrimary
<1> QED
    BY <1>2, <1>3, <1>4, <1>5

LEMMA UnaryLocal ==
    ASSUME NEW p \in Evaluation, NEW P \in Onward, NEW Q \in Onward, NEW i \in Nat \ {0},
           Agree(P, Q, p, i)
    PROVE  parseUnary(P, p, i) = parseUnary(Q, p, i) /\ parseUnary(P, p, i) \in From(i)
<1>1. CASE peek(p, i) = "!"
    <2> DEFINE r == P[<<"unary", i + 1, Null>>]
    <2>1. i + 1 \in Nat \ {0} /\ i + 1 > i /\ i >= i /\ Null \in Value /\ peek(p, i) # "eof"
        BY <1>1, ValueTypes
    <2>2. r = Q[<<"unary", i + 1, Null>>] /\ r \in From(i + 1)
        BY <2>1, AgreeOn
    <2>3. /\ parseUnary(P, p, i) = At(Bool(~ Truthy(r.v)), r.pos)
          /\ parseUnary(Q, p, i) = At(Bool(~ Truthy(r.v)), r.pos)
        BY <1>1, <2>2 DEF parseUnary
    <2> HIDE DEF r
    <2>4. (~ Truthy(r.v)) \in BOOLEAN
        OBVIOUS
    <2>5. r.pos \in Nat \ {0} /\ r.pos >= i
        BY <2>1, <2>2, FromTypes
    <2>6. Bool(~ Truthy(r.v)) \in Value
        BY <2>4, ValueTypes
    <2>7. At(Bool(~ Truthy(r.v)), r.pos) \in From(i)
        BY <2>5, <2>6, FromTypes
    <2> QED
        BY <2>3, <2>7
<1>2. CASE peek(p, i) # "!"
    BY <1>2, PrimaryLocal DEF parseUnary
<1> QED
    BY <1>1, <1>2

LEMMA CmpLocal ==
    ASSUME NEW p \in Evaluation, NEW P \in Onward, NEW Q \in Onward, NEW i \in Nat \ {0},
           Agree(P, Q, p, i)
    PROVE  parseCmp(P, p, i) = parseCmp(Q, p, i) /\ parseCmp(P, p, i) \in From(i)
<1> DEFINE l == parseUnary(P, p, i)
           op == peek(p, l.pos)
           r == P[<<"unary", l.pos + 1, Null>>]
<1>1. l = parseUnary(Q, p, i) /\ l \in From(i)
    BY UnaryLocal
<1>2. /\ l.pos \in Nat \ {0} /\ l.pos >= i /\ l.pos + 1 \in Nat \ {0} /\ l.pos + 1 > l.pos
      /\ Null \in Value
    BY <1>1, FromTypes, ValueTypes
<1>3. /\ parseCmp(P, p, i) =
            IF op \in {"==", "!="} THEN At(Bool((l.v = r.v) <=> (op = "==")), r.pos) ELSE l
      /\ parseCmp(Q, p, i) =
            IF op \in {"==", "!="}
            THEN At(Bool((l.v = Q[<<"unary", l.pos + 1, Null>>].v) <=> (op = "==")),
                    Q[<<"unary", l.pos + 1, Null>>].pos)
            ELSE l
    BY <1>1 DEF parseCmp
<1> HIDE DEF l
<1>4. CASE op \in {"==", "!="}
    <2>1. r = Q[<<"unary", l.pos + 1, Null>>] /\ r \in From(l.pos + 1)
        <3>1. peek(p, l.pos) # "eof"
            BY <1>4
        <3> QED
            BY <1>2, <3>1, AgreeOn
    <2> HIDE DEF r
    <2>2. ((l.v = r.v) <=> (op = "==")) \in BOOLEAN
        BY Zenon
    <2>3. r.pos \in Nat \ {0} /\ r.pos >= i
        BY <1>2, <2>1, FromTypes
    <2> DEFINE w == Bool((l.v = r.v) <=> (op = "=="))
    <2>4. w \in Value
        BY <2>2, ValueTypes
    <2> HIDE DEF w
    <2>5. At(w, r.pos) \in From(i)
        BY <2>3, <2>4, FromTypes
    <2> QED
        BY <1>3, <1>4, <2>1, <2>5 DEF r, w
<1>5. CASE op \notin {"==", "!="}
    BY <1>1, <1>3, <1>5
<1> QED
    BY <1>4, <1>5

LEMMA AndRestLocal ==
    ASSUME NEW p \in Evaluation, NEW P \in Onward, NEW Q \in Onward, NEW i \in Nat \ {0},
           NEW j \in Nat \ {0}, j >= i, Agree(P, Q, p, i), NEW v \in Value
    PROVE  AndRest(P, p, j, v) = AndRest(Q, p, j, v) /\ AndRest(P, p, j, v) \in From(j)
<1>1. CASE peek(p, j) # "&&"
    BY <1>1, FromTypes DEF AndRest
<1>2. CASE peek(p, j) = "&&"
    <2> DEFINE r == parseCmp(P, p, j + 1)
               w == Bool(Truthy(v) /\ Truthy(r.v))
    <2>1. j + 1 \in Nat \ {0} /\ j + 1 >= i /\ j >= i /\ peek(p, j) # "eof"
        BY <1>2
    <2>2. r = parseCmp(Q, p, j + 1) /\ r \in From(j + 1)
        BY <2>1, AgreeLater, CmpLocal
    <2>3. AndRest(P, p, j, v) = P[<<"&&", r.pos, w>>] /\ AndRest(Q, p, j, v) = Q[<<"&&", r.pos, w>>]
        BY <1>2, <2>2 DEF AndRest
    <2> HIDE DEF r
    <2>4. r.pos \in Nat \ {0} /\ r.pos > j /\ r.pos >= j
        BY <2>1, <2>2, FromTypes
    <2>5. (Truthy(v) /\ Truthy(r.v)) \in BOOLEAN
        OBVIOUS
    <2>6. w \in Value
        BY <2>5, ValueTypes
    <2> HIDE DEF w
    <2>7. P[<<"&&", r.pos, w>>] = Q[<<"&&", r.pos, w>>] /\ P[<<"&&", r.pos, w>>] \in From(r.pos)
        BY <2>1, <2>4, <2>6, AgreeOn
    <2>8. From(r.pos) \subseteq From(j)
        BY <2>4, FromTypes
    <2> QED
        BY <2>3, <2>7, <2>8
<1> QED
    BY <1>1, <1>2

LEMMA AndLocal ==
    ASSUME NEW p \in Evaluation, NEW P \in Onward, NEW Q \in Onward, NEW i \in Nat \ {0},
           Agree(P, Q, p, i)
    PROVE  parseAnd(P, p, i) = parseAnd(Q, p, i) /\ parseAnd(P, p, i) \in From(i)
<1> DEFINE l == parseCmp(P, p, i)
<1>1. l = parseCmp(Q, p, i) /\ l \in From(i)
    BY CmpLocal
<1>2. parseAnd(P, p, i) = AndRest(P, p, l.pos, l.v) /\ parseAnd(Q, p, i) = AndRest(Q, p, l.pos, l.v)
    BY <1>1 DEF parseAnd
<1> HIDE DEF l
<1>3. l.pos \in Nat \ {0} /\ l.pos >= i /\ l.v \in Value /\ From(l.pos) \subseteq From(i)
    BY <1>1, FromTypes
<1>4. /\ AndRest(P, p, l.pos, l.v) = AndRest(Q, p, l.pos, l.v)
      /\ AndRest(P, p, l.pos, l.v) \in From(l.pos)
    BY <1>3, AndRestLocal
<1> QED
    BY <1>2, <1>3, <1>4

LEMMA OrRestLocal ==
    ASSUME NEW p \in Evaluation, NEW P \in Onward, NEW Q \in Onward, NEW i \in Nat \ {0},
           NEW j \in Nat \ {0}, j >= i, Agree(P, Q, p, i), NEW v \in Value
    PROVE  OrRest(P, p, j, v) = OrRest(Q, p, j, v) /\ OrRest(P, p, j, v) \in From(j)
<1>1. CASE peek(p, j) # "||"
    BY <1>1, FromTypes DEF OrRest
<1>2. CASE peek(p, j) = "||"
    <2> DEFINE r == parseAnd(P, p, j + 1)
               w == Bool(Truthy(v) \/ Truthy(r.v))
    <2>1. j + 1 \in Nat \ {0} /\ j + 1 >= i /\ j >= i /\ peek(p, j) # "eof"
        BY <1>2
    <2>2. r = parseAnd(Q, p, j + 1) /\ r \in From(j + 1)
        BY <2>1, AgreeLater, AndLocal
    <2>3. OrRest(P, p, j, v) = P[<<"||", r.pos, w>>] /\ OrRest(Q, p, j, v) = Q[<<"||", r.pos, w>>]
        BY <1>2, <2>2 DEF OrRest
    <2> HIDE DEF r
    <2>4. r.pos \in Nat \ {0} /\ r.pos > j /\ r.pos >= j
        BY <2>1, <2>2, FromTypes
    <2>5. (Truthy(v) \/ Truthy(r.v)) \in BOOLEAN
        OBVIOUS
    <2>6. w \in Value
        BY <2>5, ValueTypes
    <2> HIDE DEF w
    <2>7. P[<<"||", r.pos, w>>] = Q[<<"||", r.pos, w>>] /\ P[<<"||", r.pos, w>>] \in From(r.pos)
        BY <2>1, <2>4, <2>6, AgreeOn
    <2>8. From(r.pos) \subseteq From(j)
        BY <2>4, FromTypes
    <2> QED
        BY <2>3, <2>7, <2>8
<1> QED
    BY <1>1, <1>2

LEMMA OrLocal ==
    ASSUME NEW p \in Evaluation, NEW P \in Onward, NEW Q \in Onward, NEW i \in Nat \ {0},
           Agree(P, Q, p, i)
    PROVE  parseOr(P, p, i) = parseOr(Q, p, i) /\ parseOr(P, p, i) \in From(i)
<1> DEFINE l == parseAnd(P, p, i)
<1>1. l = parseAnd(Q, p, i) /\ l \in From(i)
    BY AndLocal
<1>2. parseOr(P, p, i) = OrRest(P, p, l.pos, l.v) /\ parseOr(Q, p, i) = OrRest(Q, p, l.pos, l.v)
    BY <1>1 DEF parseOr
<1> HIDE DEF l
<1>3. l.pos \in Nat \ {0} /\ l.pos >= i /\ l.v \in Value /\ From(l.pos) \subseteq From(i)
    BY <1>1, FromTypes
<1>4. /\ OrRest(P, p, l.pos, l.v) = OrRest(Q, p, l.pos, l.v)
      /\ OrRest(P, p, l.pos, l.v) \in From(l.pos)
    BY <1>3, OrRestLocal
<1> QED
    BY <1>2, <1>3, <1>4

\* A call depends on calls that start at later tokens only.
LEMMA ReturnLocal ==
    ASSUME NEW p \in Evaluation, NEW P \in Onward, NEW Q \in Onward, NEW c \in ParseCall,
           Agree(P, Q, p, c[2])
    PROVE  Return(P, p, c) = Return(Q, p, c) /\ Return(P, p, c) \in From(c[2])
<1>1. /\ c[1] \in {"or", "unary", "&&", "||", "."} /\ c[2] \in Nat \ {0} /\ c[3] \in Value
      /\ c[2] >= c[2]
    BY DEF ParseCall
<1>2. /\ parseOr(P, p, c[2]) = parseOr(Q, p, c[2]) /\ parseOr(P, p, c[2]) \in From(c[2])
      /\ parseUnary(P, p, c[2]) = parseUnary(Q, p, c[2]) /\ parseUnary(P, p, c[2]) \in From(c[2])
    BY <1>1, OrLocal, UnaryLocal
<1>3. /\ AndRest(P, p, c[2], c[3]) = AndRest(Q, p, c[2], c[3])
      /\ AndRest(P, p, c[2], c[3]) \in From(c[2])
    BY <1>1, AndRestLocal
<1>4. /\ OrRest(P, p, c[2], c[3]) = OrRest(Q, p, c[2], c[3])
      /\ OrRest(P, p, c[2], c[3]) \in From(c[2])
    BY <1>1, OrRestLocal
<1>5. /\ Fields(P, p, c[2], c[3]) = Fields(Q, p, c[2], c[3])
      /\ Fields(P, p, c[2], c[3]) \in From(c[2])
    BY <1>1, FieldsLocal
<1> QED
    BY <1>1, <1>2, <1>3, <1>4, <1>5 DEF Return

\* The definition of the parser by recursion is sound.
LEMMA ParserReturns ==
    ASSUME NEW p \in Evaluation
    PROVE  \A c \in ParseCall : Parser(p)[c] = Return(Parser(p), p, c)
<1> DEFINE T == [c \in ParseCall |-> From(c[2])]
           rank == [c \in ParseCall |-> IF c[2] > Len(p.toks) THEN 0 ELSE (Len(p.toks) + 1) - c[2]]
           h == [P \in Onward |-> [c \in ParseCall |-> Return(P, p, c)]]
           a == [c \in ParseCall |-> At(Null, c[2])]
<1>0. Onward = Typed(ParseCall, Result, T)
    BY DEF Onward
<1>1. \A c \in ParseCall : c[2] \in Nat \ {0} /\ From(c[2]) \subseteq Result
    BY DEF ParseCall, From
<1>2. Len(p.toks) \in Nat
    BY DEF Evaluation
<1>3. rank \in [ParseCall -> Nat]
    BY <1>1, <1>2
<1>4. h \in [Onward -> Onward]
    <2>1. ASSUME NEW P \in Onward
          PROVE  [c \in ParseCall |-> Return(P, p, c)] \in Onward
        <3>1. \A c \in ParseCall : Return(P, p, c) \in From(c[2])
            BY ReturnLocal DEF Agree
        <3> QED
            BY <1>1, <3>1 DEF Onward, Typed
    <2> QED
        BY <2>1
<1>5. a \in Onward
    <2>1. \A c \in ParseCall : At(Null, c[2]) \in From(c[2])
        BY <1>1, FromTypes, ValueTypes
    <2> QED
        BY <1>1, <2>1 DEF Onward, Typed
<1>6. Local(ParseCall, Onward, rank, h)
    <2>1. ASSUME NEW P \in Onward, NEW Q \in Onward, NEW c \in ParseCall,
                 \A d \in ParseCall : rank[d] < rank[c] => P[d] = Q[d]
          PROVE  h[P][c] = h[Q][c]
        <3>1. Agree(P, Q, p, c[2])
            <4>1. ASSUME NEW d \in ParseCall, c[2] <= Len(p.toks), d[2] > c[2]
                  PROVE  rank[d] < rank[c]
                BY <1>1, <1>2, <4>1
            <4> QED
                BY <2>1, <4>1 DEF Agree
        <3>2. Return(P, p, c) = Return(Q, p, c)
            BY <3>1, ReturnLocal
        <3> QED
            BY <3>2
    <2> QED
        BY <2>1 DEF Local
<1> HIDE DEF T, rank, h, a
<1>7. PICK F \in Onward : h[F] = F
    BY <1>0, <1>3, <1>4, <1>5, <1>6, RankedRecursion
<1> DEFINE G(P) == P = [c \in ParseCall |-> Return(P, p, c)]
<1>8. G(F)
    BY <1>7 DEF h
<1>9. Parser(p) = CHOOSE P : G(P)
    BY Zenon DEF Parser
<1> HIDE DEF G
<1>10. G(Parser(p))
    BY <1>8, <1>9, Zenon
<1> QED
    BY <1>10 DEF G

-----------------------------------------------------------------------------
(* The grammar. *)

Kinds == {"or", "and", "cmp", "unary"}
Meaning == [Phrase -> SUBSET Value]

\* M and N agree on the phrases that are shorter than s.
Below(M, N, s) == \A x \in Phrase : Len(x[2]) < Len(s) => M[x] = N[x]

LEMMA ShorterPhrase ==
    ASSUME NEW s \in Seq(Token), NEW M \in Meaning, NEW N \in Meaning, Below(M, N, s),
           NEW g \in Kinds, NEW t \in Seq(Token), Len(t) < Len(s)
    PROVE  M[<<g, t>>] = N[<<g, t>>] /\ M[<<g, t>>] \subseteq Value
<1>1. <<g, t>> \in Phrase /\ <<g, t>>[2] = t
    BY DEF Phrase, Kinds
<1> QED
    BY <1>1 DEF Below, Meaning

\* A sequence without one of its ends, and the two sides of one of its elements.
LEMMA Parts ==
    ASSUME NEW s \in Seq(Token), NEW n \in Nat, n = Len(s)
    PROVE  /\ n # 0 => SubSeq(s, 2, n) \in Seq(Token) /\ Len(SubSeq(s, 2, n)) = n - 1
           /\ n > 1 => SubSeq(s, 2, n - 1) \in Seq(Token) /\ Len(SubSeq(s, 2, n - 1)) = n - 2
           /\ \A k \in 1 .. n : /\ SubSeq(s, 1, k - 1) \in Seq(Token)
                                 /\ Len(SubSeq(s, 1, k - 1)) = k - 1
                                 /\ SubSeq(s, k + 1, n) \in Seq(Token)
                                 /\ Len(SubSeq(s, k + 1, n)) = n - k
OBVIOUS

LEMMA ApplyType ==
    ASSUME NEW op \in {"||", "&&", "==", "!="}, NEW l, NEW r
    PROVE  Apply(op, l, r) \in Value
<1>1. CASE op = "||"
    <2>1. (Truthy(l) \/ Truthy(r)) \in BOOLEAN /\ Apply(op, l, r) = Bool(Truthy(l) \/ Truthy(r))
        BY <1>1 DEF Apply
    <2> QED
        BY <2>1, ValueTypes
<1>2. CASE op = "&&"
    <2>1. (Truthy(l) /\ Truthy(r)) \in BOOLEAN /\ Apply(op, l, r) = Bool(Truthy(l) /\ Truthy(r))
        BY <1>2 DEF Apply
    <2> QED
        BY <2>1, ValueTypes
<1>3. CASE op = "=="
    <2>1. (l = r) \in BOOLEAN /\ Apply(op, l, r) = Bool(l = r)
        BY <1>3 DEF Apply
    <2> QED
        BY <2>1, ValueTypes
<1>4. CASE op = "!="
    <2>1. (l # r) \in BOOLEAN /\ Apply(op, l, r) = Bool(l # r)
        BY <1>4 DEF Apply
    <2> QED
        BY <2>1, ValueTypes
<1> QED
    BY <1>1, <1>2, <1>3, <1>4

LEMMA InfixLocal ==
    ASSUME NEW s \in Seq(Token), NEW M \in Meaning, NEW N \in Meaning, Below(M, N, s),
           NEW g \in Kinds, NEW h \in Kinds, NEW ops \in SUBSET {"||", "&&", "==", "!="}
    PROVE  Infix(M, s, ops, g, h) = Infix(N, s, ops, g, h) /\ Infix(M, s, ops, g, h) \subseteq Value
<1> DEFINE K == {i \in DOMAIN s : s[i].kind \in ops}
           V(k, A, B) == {Apply(s[k].kind, l, r) : l \in A, r \in B}
           L(F, k) == F[<<g, SubSeq(s, 1, k - 1)>>]
           R(F, k) == F[<<h, SubSeq(s, k + 1, Len(s))>>]
<1>1. /\ Infix(M, s, ops, g, h) = UNION {V(k, L(M, k), R(M, k)) : k \in K}
      /\ Infix(N, s, ops, g, h) = UNION {V(k, L(N, k), R(N, k)) : k \in K}
    BY DEF Infix
<1>2. ASSUME NEW k \in K
      PROVE  L(M, k) = L(N, k) /\ R(M, k) = R(N, k)
    <2> DEFINE t == SubSeq(s, 1, k - 1)
               u == SubSeq(s, k + 1, Len(s))
    <2>1. t \in Seq(Token) /\ u \in Seq(Token) /\ Len(t) < Len(s) /\ Len(u) < Len(s)
        BY Parts
    <2> HIDE DEF t, u
    <2>2. M[<<g, t>>] = N[<<g, t>>] /\ M[<<h, u>>] = N[<<h, u>>]
        BY <2>1, ShorterPhrase
    <2> QED
        BY <2>2 DEF t, u
<1>3. \A k \in K : \A A, B : V(k, A, B) \subseteq Value
    <2>1. \A k \in K : s[k].kind \in {"||", "&&", "==", "!="}
        OBVIOUS
    <2>2. \A k \in K : \A l, r : Apply(s[k].kind, l, r) \in Value
        BY <2>1, ApplyType
    <2> QED
        BY <2>2
<1> HIDE DEF K, V, L, R
<1> QED
    BY <1>1, <1>2, <1>3

LEMMA UnaryMeans ==
    ASSUME NEW p \in Evaluation, NEW s \in Seq(Token), NEW M \in Meaning, NEW N \in Meaning,
           Below(M, N, s)
    PROVE  Unary(M, p, s) = Unary(N, p, s) /\ Unary(M, p, s) \subseteq Value
<1>1. CASE s = <<>>
    BY <1>1 DEF Unary
<1>2. CASE s # <<>>
    <2>0. \A t \in Token : t.val \in Text
        BY DEF Token
    <2>1. /\ Len(s) \in Nat \ {0} /\ "unary" \in Kinds /\ "or" \in Kinds
          /\ \A i \in 1 .. Len(s) : s[i].val \in Text
        BY <1>2, <2>0 DEF Kinds
    <2>2. CASE s[1].kind = "!"
        <3> DEFINE V(A) == {Bool(~ Truthy(v)) : v \in A}
                   x == <<"unary", SubSeq(s, 2, Len(s))>>
        <3>1. M[x] = N[x]
            <4> DEFINE t == SubSeq(s, 2, Len(s))
            <4>1. t \in Seq(Token) /\ Len(t) < Len(s)
                BY <2>1, Parts
            <4> HIDE DEF t
            <4>2. M[<<"unary", t>>] = N[<<"unary", t>>]
                BY <2>1, <4>1, ShorterPhrase
            <4> QED
                BY <4>2 DEF t
        <3>2. Unary(M, p, s) = V(M[x]) /\ Unary(N, p, s) = V(N[x])
            BY <1>2, <2>2 DEF Unary, IsAccess
        <3>3. \A A : V(A) \subseteq Value
            <4>1. \A v : (~ Truthy(v)) \in BOOLEAN
                OBVIOUS
            <4> QED
                BY <4>1, ValueTypes
        <3> HIDE DEF V, x
        <3> QED
            BY <3>1, <3>2, <3>3
    <2>3. CASE s[1].kind = "("
        <3>1. CASE s[Len(s)].kind = ")"
            <4>1. Len(s) # 1
                BY <2>3, <3>1
            <4> DEFINE x == <<"or", SubSeq(s, 2, Len(s) - 1)>>
            <4>3. M[x] = N[x] /\ M[x] \subseteq Value
                <5> DEFINE t == SubSeq(s, 2, Len(s) - 1)
                <5>1. t \in Seq(Token) /\ Len(t) < Len(s)
                    <6>1. PICK n \in Nat : n = Len(s)
                        OBVIOUS
                    <6>2. n > 1
                        BY <2>1, <4>1, <6>1
                    <6> QED
                        BY <6>1, <6>2, Parts
                <5> HIDE DEF t
                <5>2. M[<<"or", t>>] = N[<<"or", t>>] /\ M[<<"or", t>>] \subseteq Value
                    BY <2>1, <5>1, ShorterPhrase
                <5> QED
                    BY <5>2 DEF t
            <4>4. Unary(M, p, s) = M[x] /\ Unary(N, p, s) = N[x]
                BY <1>2, <2>3, <3>1 DEF Unary, IsAccess
            <4> QED
                BY <4>3, <4>4
        <3>2. CASE s[Len(s)].kind # ")"
            BY <1>2, <2>3, <3>2 DEF Unary, IsAccess
        <3> QED
            BY <3>1, <3>2
    <2>4. CASE s[1].kind = "string"
        <3>1. Str(s[1].val) \in Value
            BY <2>1, ValueTypes
        <3>2. /\ Unary(M, p, s) = IF Len(s) = 1 THEN {Str(s[1].val)} ELSE {}
              /\ Unary(N, p, s) = IF Len(s) = 1 THEN {Str(s[1].val)} ELSE {}
            BY <1>2, <2>4 DEF Unary, IsAccess
        <3> QED
            BY <3>1, <3>2
    <2>5. CASE s[1].kind \notin {"!", "(", "string"}
        <3> DEFINE f == IF Len(s) = 1 THEN Null ELSE Str(s[3].val)
        <3>1. CASE IsAccess(s)
            <4>1. f \in Value
                <5>1. CASE Len(s) = 1
                    BY <5>1, ValueTypes
                <5>2. CASE Len(s) # 1
                    <6>0. PICK n \in Nat : n = Len(s) /\ n # 0 /\ n # 1
                        BY <2>1, <5>2
                    <6>1. 1 \in 1 .. Len(s) - 1 /\ 1 + 1 = 2
                        BY <6>0
                    <6>2. s[1].kind = "ident" /\ s[Len(s)].kind = "ident"
                           /\ {s[1].kind, s[2].kind} = {"ident", "."}
                        BY <3>1, <6>1 DEF IsAccess
                    <6>3. Len(s) # 2
                        BY <6>2
                    <6>4. s[3].val \in Text
                        BY <2>1, <6>0, <6>3
                    <6> QED
                        BY <5>2, <6>4, ValueTypes
                <5> QED
                    BY <5>1, <5>2
            <4>2. /\ Unary(M, p, s) = {resolve(p, s[1].val, f)}
                  /\ Unary(N, p, s) = {resolve(p, s[1].val, f)}
                BY <1>2, <2>5, <3>1 DEF Unary
            <4>3. resolve(p, s[1].val, f) \in Value
                <5>1. s[1].val \in Text
                    BY <2>1
                <5> HIDE DEF f
                <5> QED
                    BY <4>1, <5>1, ResolveType
            <4> QED
                BY <4>2, <4>3
        <3>2. CASE ~ IsAccess(s)
            BY <1>2, <2>5, <3>2 DEF Unary
        <3> QED
            BY <3>1, <3>2
    <2> QED
        BY <2>2, <2>3, <2>4, <2>5
<1> QED
    BY <1>1, <1>2

LEMMA MeaningsLocal ==
    ASSUME NEW p \in Evaluation, NEW M \in Meaning, NEW N \in Meaning, NEW x \in Phrase,
           Below(M, N, x[2])
    PROVE  Meanings(M, p, x) = Meanings(N, p, x) /\ Meanings(M, p, x) \in SUBSET Value
<1> DEFINE s == x[2]
<1>1. x[1] \in Kinds /\ s \in Seq(Token)
    BY DEF Phrase, Kinds
<1> HIDE DEF s
<1>2. Unary(M, p, s) = Unary(N, p, s) /\ Unary(M, p, s) \subseteq Value
    BY <1>1, UnaryMeans DEF s
<1>3. \A g, h \in Kinds, ops \in SUBSET {"||", "&&", "==", "!="} :
        Infix(M, s, ops, g, h) = Infix(N, s, ops, g, h) /\ Infix(M, s, ops, g, h) \subseteq Value
    BY <1>1, InfixLocal DEF s
<1>4. /\ {"||"} \in SUBSET {"||", "&&", "==", "!="} /\ {"&&"} \in SUBSET {"||", "&&", "==", "!="}
      /\ {"==", "!="} \in SUBSET {"||", "&&", "==", "!="}
      /\ "unary" \in Kinds /\ "cmp" \in Kinds /\ "and" \in Kinds /\ "or" \in Kinds
    BY DEF Kinds
<1>5. Cmp(M, p, s) = Cmp(N, p, s) /\ Cmp(M, p, s) \subseteq Value
    <2>1. /\ Infix(M, s, {"==", "!="}, "unary", "unary") = Infix(N, s, {"==", "!="}, "unary", "unary")
          /\ Infix(M, s, {"==", "!="}, "unary", "unary") \subseteq Value
        BY <1>3, <1>4
    <2> QED
        BY <1>2, <2>1 DEF Cmp
<1>6. And(M, p, s) = And(N, p, s) /\ And(M, p, s) \subseteq Value
    <2>1. /\ Infix(M, s, {"&&"}, "and", "cmp") = Infix(N, s, {"&&"}, "and", "cmp")
          /\ Infix(M, s, {"&&"}, "and", "cmp") \subseteq Value
        BY <1>3, <1>4
    <2> QED
        BY <1>5, <2>1 DEF And
<1>7. Or(M, p, s) = Or(N, p, s) /\ Or(M, p, s) \subseteq Value
    <2>1. /\ Infix(M, s, {"||"}, "or", "and") = Infix(N, s, {"||"}, "or", "and")
          /\ Infix(M, s, {"||"}, "or", "and") \subseteq Value
        BY <1>3, <1>4
    <2> QED
        BY <1>6, <2>1 DEF Or
<1> QED
    BY <1>1, <1>2, <1>5, <1>6, <1>7 DEF Meanings, Kinds, s

\* The definition of the grammar by recursion is sound.
LEMMA GrammarMeans ==
    ASSUME NEW p \in Evaluation
    PROVE  \A x \in Phrase : Grammar(p)[x] = Meanings(Grammar(p), p, x)
<1> DEFINE R == SUBSET Value
           T == [x \in Phrase |-> R]
           rank == [x \in Phrase |-> Len(x[2])]
           h == [M \in Meaning |-> [x \in Phrase |-> Meanings(M, p, x)]]
           a == [x \in Phrase |-> {}]
<1>0. Meaning = Typed(Phrase, R, T)
    BY DEF Meaning, Typed
<1>1. rank \in [Phrase -> Nat]
    BY DEF Phrase
<1>2. h \in [Meaning -> Meaning]
    <2>1. ASSUME NEW M \in Meaning
          PROVE  [x \in Phrase |-> Meanings(M, p, x)] \in Meaning
        <3>1. \A x \in Phrase : Meanings(M, p, x) \in SUBSET Value
            BY MeaningsLocal DEF Below
        <3> QED
            BY <3>1 DEF Meaning
    <2> QED
        BY <2>1
<1>3. a \in Meaning
    BY DEF Meaning
<1>4. Local(Phrase, Meaning, rank, h)
    <2>1. ASSUME NEW M \in Meaning, NEW N \in Meaning, NEW x \in Phrase,
                 \A y \in Phrase : rank[y] < rank[x] => M[y] = N[y]
          PROVE  h[M][x] = h[N][x]
        <3>1. Below(M, N, x[2])
            BY <2>1 DEF Below
        <3>2. Meanings(M, p, x) = Meanings(N, p, x)
            BY <3>1, MeaningsLocal
        <3> QED
            BY <3>2
    <2> QED
        BY <2>1 DEF Local
<1> HIDE DEF R, T, rank, h, a
<1>5. PICK F \in Meaning : h[F] = F
    BY <1>0, <1>1, <1>2, <1>3, <1>4, RankedRecursion
<1> DEFINE G(M) == M = [x \in Phrase |-> Meanings(M, p, x)]
<1>6. G(F)
    BY <1>5 DEF h
<1>7. Grammar(p) = CHOOSE M : G(M)
    BY Zenon DEF Grammar
<1> HIDE DEF G
<1>8. G(Grammar(p))
    BY <1>6, <1>7, Zenon
<1> QED
    BY <1>8 DEF G

-----------------------------------------------------------------------------
(* The parser reads what the grammar describes. *)

LEMMA Calls ==
    ASSUME NEW p \in Evaluation, NEW P, P = Parser(p)
    PROVE  \A i \in Nat \ {0} :
             /\ P[<<"or", i, Null>>] = parseOr(P, p, i)
             /\ P[<<"unary", i, Null>>] = parseUnary(P, p, i)
             /\ \A v \in Value : /\ P[<<"&&", i, v>>] = AndRest(P, p, i, v)
                                /\ P[<<"||", i, v>>] = OrRest(P, p, i, v)
                                /\ P[<<".", i, v>>] = Fields(P, p, i, v)
<1>1. \A c \in ParseCall : P[c] = Return(P, p, c)
    BY ParserReturns
<1>2. Null \in Value
    BY ValueTypes
<1>3. \A i \in Nat \ {0} : \A k \in {"or", "unary", "&&", "||", "."} : \A w \in Value :
        <<k, i, w>> \in ParseCall
    BY DEF ParseCall
<1> QED
    BY <1>1, <1>2, <1>3 DEF Return

LEMMA Phrases ==
    ASSUME NEW p \in Evaluation, NEW M, M = Grammar(p), NEW s \in Seq(Token)
    PROVE  /\ M[<<"or", s>>] = Or(M, p, s)
           /\ M[<<"and", s>>] = And(M, p, s)
           /\ M[<<"cmp", s>>] = Cmp(M, p, s)
           /\ M[<<"unary", s>>] = Unary(M, p, s)
<1>1. \A x \in Phrase : M[x] = Meanings(M, p, x)
    BY GrammarMeans
<1>2. \A g \in Kinds : <<g, s>> \in Phrase
    BY DEF Phrase, Kinds
<1> QED
    BY <1>1, <1>2 DEF Meanings, Kinds

\* v is what the operator at k makes of values of the two sides.
AppliedAt(M, s, n, ops, g, h, v, k) ==
    /\ s[k].kind \in ops
    /\ \E l \in M[<<g, SubSeq(s, 1, k - 1)>>], r \in M[<<h, SubSeq(s, k + 1, n)>>] :
            v = Apply(s[k].kind, l, r)

LEMMA InfixParts ==
    ASSUME NEW M, NEW s \in Seq(Token), NEW n \in Nat, n = Len(s), NEW ops, NEW g, NEW h,
           NEW v \in Infix(M, s, ops, g, h)
    PROVE  \E k \in 1 .. n : AppliedAt(M, s, n, ops, g, h, v, k)
<1> DEFINE L(k) == M[<<g, SubSeq(s, 1, k - 1)>>]
           R(k) == M[<<h, SubSeq(s, k + 1, n)>>]
           K == {i \in DOMAIN s : s[i].kind \in ops}
           V(k, A, B) == {Apply(s[k].kind, l, r) : l \in A, r \in B}
<1>1. Infix(M, s, ops, g, h) = UNION {V(k, L(k), R(k)) : k \in K}
    BY DEF Infix
<1>2. \A k \in K : k \in 1 .. n /\ s[k].kind \in ops
    OBVIOUS
<1> HIDE DEF L, R, K
<1>3. PICK k \in K : v \in V(k, L(k), R(k))
    <2> HIDE DEF V
    <2> QED
        BY <1>1
<1>4. \E l \in L(k), r \in R(k) : v = Apply(s[k].kind, l, r)
    BY <1>3
<1>5. AppliedAt(M, s, n, ops, g, h, v, k)
    BY <1>2, <1>4 DEF AppliedAt, L, R
<1> QED
    BY <1>2, <1>5

\* The tokens from i on begin with s.
Occurs(s, p, i) ==
    /\ i + Len(s) <= Len(p.toks) + 1
    /\ \A k \in 1 .. Len(s) : s[k] = p.toks[(i + k) - 1]

LEMMA TokensOccur ==
    ASSUME NEW p \in Evaluation, NEW s \in Seq(Token), NEW n \in Nat, n = Len(s),
           NEW i \in Nat \ {0}, Occurs(s, p, i), NEW k \in 1 .. n
    PROVE  p.toks[(i + k) - 1] = s[k] /\ peek(p, (i + k) - 1) = s[k].kind
<1>1. PICK m \in Nat : m = Len(p.toks)
    BY DEF Evaluation
<1>2. i + n <= m + 1 /\ s[k] = p.toks[(i + k) - 1]
    BY <1>1 DEF Occurs
<1>3. ~ ((i + k) - 1 > m)
    BY <1>2
<1> QED
    BY <1>1, <1>2, <1>3 DEF peek

LEMMA PartsOccur ==
    ASSUME NEW p \in Evaluation, NEW s \in Seq(Token), NEW n \in Nat, n = Len(s),
           NEW i \in Nat \ {0}, Occurs(s, p, i)
    PROVE  /\ n # 0 => Occurs(SubSeq(s, 2, n), p, i + 1)
           /\ n > 1 => Occurs(SubSeq(s, 2, n - 1), p, i + 1)
           /\ \A k \in 1 .. n : /\ Occurs(SubSeq(s, 1, k - 1), p, i)
                                /\ Occurs(SubSeq(s, k + 1, n), p, i + k)
<1>1. PICK m \in Nat : m = Len(p.toks)
    BY DEF Evaluation
<1>2. i + n <= m + 1 /\ \A k \in 1 .. n : s[k] = p.toks[(i + k) - 1]
    BY <1>1 DEF Occurs
<1>3. ASSUME NEW a \in Nat \ {0}, NEW b \in Nat, a <= b + 1, b <= n
      PROVE  Occurs(SubSeq(s, a, b), p, (i + a) - 1)
    <2> DEFINE t == SubSeq(s, a, b)
               j == (i + a) - 1
    <2>1. Len(t) = (b + 1) - a /\ \A k \in 1 .. (b + 1) - a : t[k] = s[(a + k) - 1]
        BY <1>3
    <2> HIDE DEF t
    <2>2. \A k \in 1 .. (b + 1) - a : (a + k) - 1 \in 1 .. n /\ (i + ((a + k) - 1)) - 1 = (j + k) - 1
        BY <1>3
    <2>3. \A k \in 1 .. (b + 1) - a : t[k] = p.toks[(j + k) - 1]
        BY <1>2, <2>1, <2>2
    <2>4. j + ((b + 1) - a) <= m + 1
        BY <1>2, <1>3
    <2> HIDE DEF j
    <2>5. Occurs(t, p, j)
        BY <1>1, <2>1, <2>3, <2>4 DEF Occurs
    <2> QED
        BY <2>5 DEF t, j
<1>4. ASSUME n # 0
      PROVE  Occurs(SubSeq(s, 2, n), p, i + 1)
    <2>1. 2 \in Nat \ {0} /\ 2 <= n + 1 /\ n <= n /\ (i + 2) - 1 = i + 1
        BY <1>4
    <2> QED
        BY <1>3, <2>1
<1>5. ASSUME n > 1
      PROVE  Occurs(SubSeq(s, 2, n - 1), p, i + 1)
    <2>1. 2 \in Nat \ {0} /\ n - 1 \in Nat /\ 2 <= (n - 1) + 1 /\ n - 1 <= n /\ (i + 2) - 1 = i + 1
        BY <1>5
    <2> QED
        BY <1>3, <2>1
<1>6. ASSUME NEW k \in 1 .. n
      PROVE  Occurs(SubSeq(s, 1, k - 1), p, i)
    <2>1. 1 \in Nat \ {0} /\ k - 1 \in Nat /\ 1 <= (k - 1) + 1 /\ k - 1 <= n /\ (i + 1) - 1 = i
        BY <1>6
    <2> QED
        BY <1>3, <2>1
<1>7. ASSUME NEW k \in 1 .. n
      PROVE  Occurs(SubSeq(s, k + 1, n), p, i + k)
    <2>1. k + 1 \in Nat \ {0} /\ k + 1 <= n + 1 /\ n <= n /\ (i + (k + 1)) - 1 = i + k
        BY <1>7
    <2> QED
        BY <1>3, <2>1
<1> QED
    BY <1>4, <1>5, <1>6, <1>7

\* Read as a phrase of each kind, s yields the value it has there: for the kinds that a
\* loop reads, v is what the loop goes on with.
ReadsUnary(p, s) ==
    \A i \in Nat \ {0} : \A v \in Grammar(p)[<<"unary", s>>] :
        Occurs(s, p, i) /\ peek(p, i + Len(s)) # "."
            => parseUnary(Parser(p), p, i) = At(v, i + Len(s))
ReadsCmp(p, s) ==
    \A i \in Nat \ {0} : \A v \in Grammar(p)[<<"cmp", s>>] :
        Occurs(s, p, i) /\ peek(p, i + Len(s)) \notin {".", "==", "!="}
            => parseCmp(Parser(p), p, i) = At(v, i + Len(s))
ReadsAnd(p, s) ==
    \A i \in Nat \ {0} : \A v \in Grammar(p)[<<"and", s>>] :
        Occurs(s, p, i) /\ peek(p, i + Len(s)) \notin {".", "==", "!="}
            => parseAnd(Parser(p), p, i) = AndRest(Parser(p), p, i + Len(s), v)
ReadsOr(p, s) ==
    \A i \in Nat \ {0} : \A v \in Grammar(p)[<<"or", s>>] :
        Occurs(s, p, i) /\ peek(p, i + Len(s)) \notin {".", "==", "!=", "&&"}
            => parseOr(Parser(p), p, i) = OrRest(Parser(p), p, i + Len(s), v)
Reads(p, s) == ReadsUnary(p, s) /\ ReadsCmp(p, s) /\ ReadsAnd(p, s) /\ ReadsOr(p, s)

\* Behind the identifier at k, the fields of s are read to its end.
ReadsFields(p, s, i, n) ==
    \A k \in 1 .. n : \A v \in Value : s[k].kind = "ident" =>
        Fields(Parser(p), p, i + k, v) =
            At(IF v # Null \/ k = n THEN v ELSE Str(s[k + 2].val), i + n)

LEMMA FieldsRead ==
    ASSUME NEW p \in Evaluation, NEW s \in Seq(Token), NEW n \in Nat \ {0}, n = Len(s),
           IsAccess(s), NEW i \in Nat \ {0}, Occurs(s, p, i), peek(p, i + n) # "."
    PROVE  ReadsFields(p, s, i, n)
<1> DEFINE P == Parser(p)
           First(k, v) == IF v # Null \/ k = n THEN v ELSE Str(s[k + 2].val)
           T == {d \in Nat : \A k \in 1 .. n : \A v \in Value : d = n - k /\ s[k].kind = "ident" =>
                                Fields(P, p, i + k, v) = At(First(k, v), i + n)}
<1>0. /\ s[n].kind = "ident"
      /\ \A k \in 1 .. n - 1 : {s[k].kind, s[k + 1].kind} = {"ident", "."}
    BY DEF IsAccess
<1>1. \A k \in 1 .. n : p.toks[(i + k) - 1] = s[k] /\ peek(p, (i + k) - 1) = s[k].kind
    BY TokensOccur
<1>2. \A t \in Token : t.val \in Text
    BY DEF Token
<1> HIDE DEF P
<1>3. ASSUME NEW d \in Nat, \A e \in Nat : e < d => e \in T
      PROVE  d \in T
    <2> SUFFICES ASSUME NEW k \in 1 .. n, NEW v \in Value, d = n - k, s[k].kind = "ident"
                 PROVE  Fields(P, p, i + k, v) = At(First(k, v), i + n)
        OBVIOUS
    <2>1. CASE k = n
        BY <2>1 DEF Fields
    <2>2. CASE k # n
        <3>1. k \in 1 .. n - 1 /\ k + 1 \in 1 .. n /\ (i + (k + 1)) - 1 = i + k
            BY <2>2
        <3>2. s[k + 1].kind = "."
            BY <1>0, <3>1
        <3>3. k + 1 # n
            BY <1>0, <3>2
        <3>4. /\ k + 1 \in 1 .. n - 1 /\ k + 2 \in 1 .. n /\ (k + 1) + 1 = k + 2
              /\ (i + (k + 2)) - 1 = (i + k) + 1
            BY <3>1, <3>3
        <3>5. s[k + 2].kind = "ident"
            BY <1>0, <3>2, <3>4
        <3>6. peek(p, i + k) = "." /\ peek(p, (i + k) + 1) = "ident" /\ p.toks[(i + k) + 1] = s[k + 2]
            BY <1>1, <3>1, <3>2, <3>4, <3>5
        <3> DEFINE w == IF v = Null THEN Str(s[k + 2].val) ELSE v
        <3>7. w \in Value /\ w # Null /\ First(k, v) = w
            <4>1. s[k + 2].val \in Text
                BY <1>2, <3>4
            <4> QED
                BY <2>2, <4>1, ValueTypes
        <3>8. Fields(P, p, i + k, v) = P[<<".", (i + k) + 2, w>>]
            BY <3>6 DEF Fields
        <3> HIDE DEF w
        <3>9. P[<<".", (i + k) + 2, w>>] = Fields(P, p, (i + k) + 2, w)
            <4>1. (i + k) + 2 \in Nat \ {0}
                OBVIOUS
            <4> QED
                BY <3>7, <4>1, Calls, ZenonT(40) DEF P
        <3>10. Fields(P, p, i + (k + 2), w) = At(First(k + 2, w), i + n)
            <4>1. n - (k + 2) \in Nat /\ n - (k + 2) < d
                BY <3>4
            <4>2. n - (k + 2) \in T
                BY <1>3, <4>1
            <4> QED
                BY <3>4, <3>5, <3>7, <4>2
        <3>11. i + (k + 2) = (i + k) + 2 /\ First(k + 2, w) = w
            BY <3>7
        <3> QED
            BY <3>7, <3>8, <3>9, <3>10, <3>11
    <2> QED
        BY <2>1, <2>2
<1> HIDE DEF T
<1>4. \A d \in Nat : d \in T
    BY <1>3, AllNumbers
<1>5. ASSUME NEW k \in 1 .. n, NEW v \in Value, s[k].kind = "ident"
      PROVE  Fields(P, p, i + k, v) = At(First(k, v), i + n)
    <2>1. n - k \in Nat
        OBVIOUS
    <2>2. n - k \in T
        BY <1>4, <2>1
    <2> QED
        BY <1>5, <2>2 DEF T
<1> QED
    BY <1>5 DEF P, ReadsFields

\* Every shorter phrase is read that way.
ShorterRead(p, s) == \A t \in Seq(Token) : Len(t) < Len(s) => Reads(p, t)

LEMMA UnaryReads ==
    ASSUME NEW p \in Evaluation, NEW s \in Seq(Token),
           ShorterRead(p, s)
    PROVE  ReadsUnary(p, s)
<1> DEFINE P == Parser(p)
           M == Grammar(p)
<1> SUFFICES ASSUME NEW i \in Nat \ {0}, NEW v \in M[<<"unary", s>>],
                    Occurs(s, p, i), peek(p, i + Len(s)) # "."
             PROVE  parseUnary(P, p, i) = At(v, i + Len(s))
    BY DEF ReadsUnary
<1>0. v \in Unary(M, p, s)
    BY Phrases
<1>1. PICK n \in Nat : n = Len(s)
    OBVIOUS
<1>2. s # <<>> /\ n # 0
    BY <1>0, <1>1 DEF Unary
<1>3. p.toks[i] = s[1] /\ peek(p, i) = s[1].kind
    <2>1. 1 \in 1 .. n /\ (i + 1) - 1 = i
        BY <1>2
    <2> QED
        BY <1>1, <2>1, TokensOccur
<1>4. Null \in Value /\ i + 1 \in Nat \ {0} /\ i + n \in Nat \ {0}
    BY ValueTypes
<1> HIDE DEF P, M
<1>5. CASE s[1].kind = "!"
    <2> DEFINE t == SubSeq(s, 2, n)
    <2>1. t \in Seq(Token) /\ Len(t) = n - 1 /\ Occurs(t, p, i + 1)
        BY <1>1, <1>2, Parts, PartsOccur
    <2>2. PICK w \in M[<<"unary", t>>] : v = Bool(~ Truthy(w))
        BY <1>0, <1>1, <1>2, <1>5 DEF Unary, IsAccess
    <2> HIDE DEF t
    <2>3. ReadsUnary(p, t) /\ (i + 1) + Len(t) = i + n
        BY <1>1, <1>2, <2>1 DEF Reads, ShorterRead
    <2>4. parseUnary(P, p, i + 1) = At(w, i + n)
        BY <1>1, <1>4, <2>1, <2>2, <2>3 DEF ReadsUnary, P, M
    <2>5. P[<<"unary", i + 1, Null>>] = At(w, i + n)
        BY <1>4, <2>4, Calls DEF P
    <2> QED
        BY <1>1, <1>3, <1>5, <2>2, <2>5 DEF parseUnary, At
<1>6. CASE s[1].kind = "("
    <2>1. s[n].kind = ")" /\ v \in M[<<"or", SubSeq(s, 2, n - 1)>>]
        BY <1>0, <1>1, <1>2, <1>6 DEF Unary, IsAccess
    <2>2. n > 1
        BY <1>2, <1>6, <2>1
    <2> DEFINE t == SubSeq(s, 2, n - 1)
    <2>3. t \in Seq(Token) /\ Len(t) = n - 2 /\ Occurs(t, p, i + 1) /\ v \in M[<<"or", t>>]
        BY <1>1, <2>1, <2>2, Parts, PartsOccur
    <2> HIDE DEF t
    <2>4. ReadsOr(p, t) /\ (i + 1) + Len(t) = (i + n) - 1
        BY <1>1, <2>2, <2>3 DEF Reads, ShorterRead
    <2>5. peek(p, (i + n) - 1) = ")" /\ (i + n) - 1 \in Nat \ {0} /\ ((i + n) - 1) + 1 = i + n
        <3>1. n \in 1 .. n /\ (i + n) - 1 \in Nat \ {0} /\ ((i + n) - 1) + 1 = i + n
            BY <2>2
        <3>2. \A k \in 1 .. n : peek(p, (i + k) - 1) = s[k].kind
            BY <1>1, TokensOccur
        <3> QED
            BY <2>1, <3>1, <3>2
    <2>6. parseOr(P, p, i + 1) = OrRest(P, p, (i + n) - 1, v)
        BY <1>4, <2>3, <2>4, <2>5 DEF ReadsOr, P, M
    <2>7. OrRest(P, p, (i + n) - 1, v) = At(v, (i + n) - 1)
        BY <2>5 DEF OrRest
    <2>8. P[<<"or", i + 1, Null>>] = At(v, (i + n) - 1)
        BY <1>4, <2>6, <2>7, Calls DEF P
    <2>9. parsePrimary(P, p, i) = At(v, i + n)
        BY <1>3, <1>6, <2>5, <2>8 DEF parsePrimary, At
    <2> QED
        BY <1>1, <1>3, <1>6, <2>9 DEF parseUnary
<1>7. CASE s[1].kind = "string"
    <2>1. n = 1 /\ v = Str(s[1].val)
        BY <1>0, <1>1, <1>2, <1>7 DEF Unary, IsAccess
    <2>2. parsePrimary(P, p, i) = At(v, i + n)
        BY <1>3, <1>7, <2>1 DEF parsePrimary
    <2> QED
        BY <1>1, <1>3, <1>7, <2>2 DEF parseUnary
<1>8. CASE s[1].kind \notin {"!", "(", "string"}
    <2> DEFINE f == IF n = 1 THEN Null ELSE Str(s[3].val)
    <2>1. IsAccess(s) /\ v = resolve(p, s[1].val, f)
        BY <1>0, <1>1, <1>2, <1>8 DEF Unary
    <2>2. s[1].kind = "ident"
        BY <2>1 DEF IsAccess
    <2>3. Fields(P, p, i + 1, Null) = At(f, i + n)
        <3>1. 1 \in 1 .. n /\ n \in Nat \ {0} /\ 1 + 2 = 3 /\ peek(p, i + n) # "."
            BY <1>1, <1>2
        <3>2. ReadsFields(p, s, i, n)
            BY <1>1, <2>1, <3>1, FieldsRead
        <3> QED
            BY <1>4, <2>2, <3>1, <3>2 DEF ReadsFields, P
    <2> HIDE DEF f
    <2>4. parsePrimary(P, p, i) = At(v, i + n)
        BY <1>3, <2>1, <2>2, <2>3 DEF parsePrimary, At
    <2> QED
        BY <1>1, <1>3, <2>2, <2>4 DEF parseUnary
<1> QED
    BY <1>5, <1>6, <1>7, <1>8

\* The two sides t and u of the operator at k are read as the grammar has it, and v is what
\* the operator makes of their values.
Splits(p, i, n, ops, g, h, v, k, t, u) ==
    /\ peek(p, (i + k) - 1) \in ops
    /\ Reads(p, t) /\ Occurs(t, p, i) /\ i + Len(t) = (i + k) - 1
    /\ Reads(p, u) /\ Occurs(u, p, i + k) /\ (i + k) + Len(u) = i + n
    /\ \E l \in Grammar(p)[<<g, t>>], r \in Grammar(p)[<<h, u>>] :
           v = Apply(peek(p, (i + k) - 1), l, r)

LEMMA Sides ==
    ASSUME NEW p \in Evaluation, NEW s \in Seq(Token), NEW n \in Nat, n = Len(s),
           ShorterRead(p, s), NEW i \in Nat \ {0}, Occurs(s, p, i),
           NEW ops, NEW g, NEW h, NEW v \in Infix(Grammar(p), s, ops, g, h)
    PROVE  \E k \in 1 .. n, t \in Seq(Token), u \in Seq(Token) :
                Splits(p, i, n, ops, g, h, v, k, t, u)
<1>0. \A k \in 1 .. n : peek(p, (i + k) - 1) = s[k].kind
    <2>1. ASSUME NEW k \in 1 .. n
          PROVE  peek(p, (i + k) - 1) = s[k].kind
        BY TokensOccur
    <2> QED
        BY <2>1
<1>1. PICK k \in 1 .. n : AppliedAt(Grammar(p), s, n, ops, g, h, v, k)
    BY InfixParts
<1> DEFINE t == SubSeq(s, 1, k - 1)
           u == SubSeq(s, k + 1, n)
<1>2. /\ t \in Seq(Token) /\ Len(t) = k - 1 /\ Occurs(t, p, i)
      /\ u \in Seq(Token) /\ Len(u) = n - k /\ Occurs(u, p, i + k)
    BY Parts, PartsOccur
<1>3. /\ s[k].kind \in ops
      /\ \E l \in Grammar(p)[<<g, t>>], r \in Grammar(p)[<<h, u>>] : v = Apply(s[k].kind, l, r)
    BY <1>1 DEF AppliedAt
<1> HIDE DEF t, u
<1>4. /\ Len(t) < n /\ Len(u) < n
      /\ i + Len(t) = (i + k) - 1 /\ (i + k) + Len(u) = i + n
    BY <1>2
<1>5. peek(p, (i + k) - 1) = s[k].kind
    BY <1>0
<1>6. Reads(p, t) /\ Reads(p, u)
    BY <1>2, <1>4 DEF ShorterRead
<1>7. Splits(p, i, n, ops, g, h, v, k, t, u)
    BY <1>2, <1>3, <1>4, <1>5, <1>6 DEF Splits
<1> QED
    BY <1>2, <1>7

LEMMA CmpReads ==
    ASSUME NEW p \in Evaluation, NEW s \in Seq(Token),
           ShorterRead(p, s)
    PROVE  ReadsCmp(p, s)
<1> DEFINE P == Parser(p)
           M == Grammar(p)
<1> SUFFICES ASSUME NEW i \in Nat \ {0}, NEW v \in M[<<"cmp", s>>],
                    Occurs(s, p, i), peek(p, i + Len(s)) \notin {".", "==", "!="}
             PROVE  parseCmp(P, p, i) = At(v, i + Len(s))
    BY DEF ReadsCmp
<1>1. PICK n \in Nat : n = Len(s)
    OBVIOUS
<1>2. v \in Unary(M, p, s) \/ v \in Infix(M, s, {"==", "!="}, "unary", "unary")
    <2>1. v \in Cmp(M, p, s)
        BY Phrases
    <2> QED
        BY <2>1 DEF Cmp
<1>3. CASE v \in Unary(M, p, s)
    <2>1. v \in M[<<"unary", s>>]
        BY <1>3, Phrases
    <2>2. parseUnary(P, p, i) = At(v, i + n)
        BY <1>1, <2>1, UnaryReads DEF ReadsUnary
    <2> HIDE DEF P, M
    <2> QED
        BY <1>1, <2>2 DEF parseCmp, At
<1>4. CASE v \in Infix(M, s, {"==", "!="}, "unary", "unary")
    <2> DEFINE ops == {"==", "!="}
    <2>0. v \in Infix(M, s, ops, "unary", "unary")
        BY <1>4
    <2> HIDE DEF ops
    <2> PICK k \in 1 .. n, t \in Seq(Token), u \in Seq(Token) :
            Splits(p, i, n, ops, "unary", "unary", v, k, t, u)
        BY <1>1, <2>0, Sides
    <2> USE DEF ops
    <2>1. /\ peek(p, (i + k) - 1) \in ops
          /\ Reads(p, t) /\ Occurs(t, p, i) /\ i + Len(t) = (i + k) - 1
          /\ Reads(p, u) /\ Occurs(u, p, i + k) /\ (i + k) + Len(u) = i + n
          /\ \E l \in M[<<"unary", t>>], r \in M[<<"unary", u>>] : v = Apply(peek(p, (i + k) - 1), l, r)
        BY DEF Splits
    <2>2. PICK l \in M[<<"unary", t>>], r \in M[<<"unary", u>>] :
             v = Apply(peek(p, (i + k) - 1), l, r)
        BY <2>1
    <2>3. i + k \in Nat \ {0} /\ ((i + k) - 1) + 1 = i + k /\ Null \in Value
        BY ValueTypes
    <2>4. parseUnary(P, p, i) = At(l, (i + k) - 1)
        BY <2>1 DEF Reads, ReadsUnary
    <2>5. parseUnary(P, p, i + k) = At(r, i + n)
        BY <1>1, <2>1, <2>3 DEF Reads, ReadsUnary
    <2>6. P[<<"unary", i + k, Null>>] = At(r, i + n)
        BY <2>3, <2>5, Calls, ZenonT(40)
    <2> HIDE DEF P, M
    <2>7. parseCmp(P, p, i) = At(Bool((l = r) <=> (peek(p, (i + k) - 1) = "==")), i + n)
        <3> DEFINE e == (i + k) - 1
                   f == i + n
        <3>1. /\ parseUnary(P, p, i) = At(l, e) /\ P[<<"unary", e + 1, Null>>] = At(r, f)
              /\ peek(p, e) \in {"==", "!="}
            BY <2>1, <2>3, <2>4, <2>6
        <3> HIDE DEF e, f
        <3>2. parseCmp(P, p, i) = At(Bool((l = r) <=> (peek(p, e) = "==")), f)
            BY <3>1 DEF parseCmp, At
        <3> QED
            BY <3>2 DEF e, f
    <2>8. v = Bool((l = r) <=> (peek(p, (i + k) - 1) = "=="))
        <3>1. CASE peek(p, (i + k) - 1) = "=="
            <4>1. v = Bool(l = r) /\ ((l = r) <=> (peek(p, (i + k) - 1) = "==")) = (l = r)
                BY <2>2, <3>1 DEF Apply
            <4> QED
                BY <4>1
        <3>2. CASE peek(p, (i + k) - 1) = "!="
            <4>1. v = Bool(l # r) /\ ((l = r) <=> (peek(p, (i + k) - 1) = "==")) = (l # r)
                BY <2>2, <3>2 DEF Apply
            <4> QED
                BY <4>1
        <3> QED
            BY <2>1, <3>1, <3>2
    <2> QED
        BY <1>1, <2>7, <2>8
<1> QED
    BY <1>2, <1>3, <1>4

LEMMA AndReads ==
    ASSUME NEW p \in Evaluation, NEW s \in Seq(Token),
           ShorterRead(p, s)
    PROVE  ReadsAnd(p, s)
<1> DEFINE P == Parser(p)
           M == Grammar(p)
<1>0. \A j \in Nat \ {0} : \A w \in Value : P[<<"&&", j, w>>] = AndRest(P, p, j, w)
    BY Calls
<1> SUFFICES ASSUME NEW i \in Nat \ {0}, NEW v \in M[<<"and", s>>],
                    Occurs(s, p, i), peek(p, i + Len(s)) \notin {".", "==", "!="}
             PROVE  parseAnd(P, p, i) = AndRest(P, p, i + Len(s), v)
    BY DEF ReadsAnd
<1>1. PICK n \in Nat : n = Len(s)
    OBVIOUS
<1>2. v \in Cmp(M, p, s) \/ v \in Infix(M, s, {"&&"}, "and", "cmp")
    <2>1. v \in And(M, p, s)
        BY Phrases
    <2> QED
        BY <2>1 DEF And
<1>3. CASE v \in Cmp(M, p, s)
    <2>1. v \in M[<<"cmp", s>>]
        BY <1>3, Phrases
    <2>2. parseCmp(P, p, i) = At(v, i + n)
        BY <1>1, <2>1, CmpReads DEF ReadsCmp
    <2> HIDE DEF P, M
    <2> QED
        BY <1>1, <2>2 DEF parseAnd, At
<1>4. CASE v \in Infix(M, s, {"&&"}, "and", "cmp")
    <2> DEFINE ops == {"&&"}
    <2>0. v \in Infix(M, s, ops, "and", "cmp")
        BY <1>4
    <2> HIDE DEF ops
    <2> PICK k \in 1 .. n, t \in Seq(Token), u \in Seq(Token) :
            Splits(p, i, n, ops, "and", "cmp", v, k, t, u)
        BY <1>1, <2>0, Sides
    <2> USE DEF ops
    <2>1. /\ peek(p, (i + k) - 1) \in ops
          /\ Reads(p, t) /\ Occurs(t, p, i) /\ i + Len(t) = (i + k) - 1
          /\ Reads(p, u) /\ Occurs(u, p, i + k) /\ (i + k) + Len(u) = i + n
          /\ \E l \in M[<<"and", t>>], r \in M[<<"cmp", u>>] : v = Apply(peek(p, (i + k) - 1), l, r)
        BY DEF Splits
    <2>2. PICK l \in M[<<"and", t>>], r \in M[<<"cmp", u>>] :
             v = Apply(peek(p, (i + k) - 1), l, r)
        BY <2>1
    <2>3. i + k \in Nat \ {0} /\ ((i + k) - 1) + 1 = i + k /\ i + n \in Nat \ {0}
        OBVIOUS
    <2>4. parseAnd(P, p, i) = AndRest(P, p, (i + k) - 1, l)
        BY <2>1 DEF Reads, ReadsAnd
    <2>5. parseCmp(P, p, i + k) = At(r, i + n)
        BY <1>1, <2>1, <2>3 DEF Reads, ReadsCmp
    <2>6. v = Bool(Truthy(l) /\ Truthy(r)) /\ v \in Value
        BY <2>1, <2>2, ApplyType DEF Apply
    <2>7. P[<<"&&", i + n, v>>] = AndRest(P, p, i + n, v)
        <3>1. v \in Value
            BY <2>6
        <3> QED
            BY <1>0, <2>3, <3>1
    <2> HIDE DEF P, M
    <2>8. AndRest(P, p, (i + k) - 1, l) = P[<<"&&", i + n, v>>]
        <3> DEFINE e == (i + k) - 1
                   f == i + n
        <3>1. parseCmp(P, p, e + 1) = At(r, f) /\ peek(p, e) = "&&"
            BY <2>1, <2>3, <2>5
        <3> HIDE DEF e, f
        <3>2. At(r, f).v = r /\ At(r, f).pos = f
            BY DEF At
        <3>3. AndRest(P, p, e, l) = P[<<"&&", At(r, f).pos, Bool(Truthy(l) /\ Truthy(At(r, f).v))>>]
            BY <3>1, Zenon DEF AndRest
        <3>4. AndRest(P, p, e, l) = P[<<"&&", f, Bool(Truthy(l) /\ Truthy(r))>>]
            BY <3>2, <3>3, Zenon
        <3> QED
            BY <2>6, <3>4 DEF e, f
    <2> QED
        BY <1>1, <2>4, <2>7, <2>8
<1> QED
    BY <1>2, <1>3, <1>4

LEMMA OrReads ==
    ASSUME NEW p \in Evaluation, NEW s \in Seq(Token),
           ShorterRead(p, s)
    PROVE  ReadsOr(p, s)
<1> DEFINE P == Parser(p)
           M == Grammar(p)
<1>0. \A j \in Nat \ {0} : \A w \in Value : P[<<"||", j, w>>] = OrRest(P, p, j, w)
    BY Calls
<1> SUFFICES ASSUME NEW i \in Nat \ {0}, NEW v \in M[<<"or", s>>],
                    Occurs(s, p, i), peek(p, i + Len(s)) \notin {".", "==", "!=", "&&"}
             PROVE  parseOr(P, p, i) = OrRest(P, p, i + Len(s), v)
    BY DEF ReadsOr
<1>1. PICK n \in Nat : n = Len(s)
    OBVIOUS
<1>2. v \in And(M, p, s) \/ v \in Infix(M, s, {"||"}, "or", "and")
    <2>1. v \in Or(M, p, s)
        BY Phrases
    <2> QED
        BY <2>1 DEF Or
<1>3. CASE v \in And(M, p, s)
    <2>1. v \in M[<<"and", s>>]
        BY <1>3, Phrases
    <2>2. parseAnd(P, p, i) = AndRest(P, p, i + n, v)
        BY <1>1, <2>1, AndReads DEF ReadsAnd
    <2> HIDE DEF P, M
    <2>3. AndRest(P, p, i + n, v) = At(v, i + n)
        BY <1>1 DEF AndRest
    <2> QED
        BY <1>1, <2>2, <2>3 DEF parseOr, At
<1>4. CASE v \in Infix(M, s, {"||"}, "or", "and")
    <2> DEFINE ops == {"||"}
    <2>0. v \in Infix(M, s, ops, "or", "and")
        BY <1>4
    <2> HIDE DEF ops
    <2> PICK k \in 1 .. n, t \in Seq(Token), u \in Seq(Token) :
            Splits(p, i, n, ops, "or", "and", v, k, t, u)
        BY <1>1, <2>0, Sides
    <2> USE DEF ops
    <2>1. /\ peek(p, (i + k) - 1) \in ops
          /\ Reads(p, t) /\ Occurs(t, p, i) /\ i + Len(t) = (i + k) - 1
          /\ Reads(p, u) /\ Occurs(u, p, i + k) /\ (i + k) + Len(u) = i + n
          /\ \E l \in M[<<"or", t>>], r \in M[<<"and", u>>] : v = Apply(peek(p, (i + k) - 1), l, r)
        BY DEF Splits
    <2>2. PICK l \in M[<<"or", t>>], r \in M[<<"and", u>>] :
             v = Apply(peek(p, (i + k) - 1), l, r)
        BY <2>1
    <2>3. i + k \in Nat \ {0} /\ ((i + k) - 1) + 1 = i + k /\ i + n \in Nat \ {0}
        OBVIOUS
    <2>4. parseOr(P, p, i) = OrRest(P, p, (i + k) - 1, l)
        BY <2>1 DEF Reads, ReadsOr
    <2>5. parseAnd(P, p, i + k) = At(r, i + n)
        <3>1. parseAnd(P, p, i + k) = AndRest(P, p, i + n, r)
            BY <1>1, <2>1, <2>3, SMTT(30) DEF Reads, ReadsAnd
        <3> QED
            BY <1>1, <3>1 DEF AndRest
    <2>6. v = Bool(Truthy(l) \/ Truthy(r)) /\ v \in Value
        BY <2>1, <2>2, ApplyType DEF Apply
    <2>7. P[<<"||", i + n, v>>] = OrRest(P, p, i + n, v)
        <3>1. v \in Value
            BY <2>6
        <3> QED
            BY <1>0, <2>3, <3>1
    <2> HIDE DEF P, M
    <2>8. OrRest(P, p, (i + k) - 1, l) = P[<<"||", i + n, v>>]
        <3> DEFINE e == (i + k) - 1
                   f == i + n
        <3>1. parseAnd(P, p, e + 1) = At(r, f) /\ peek(p, e) = "||"
            BY <2>1, <2>3, <2>5
        <3> HIDE DEF e, f
        <3>2. At(r, f).v = r /\ At(r, f).pos = f
            BY DEF At
        <3>3. OrRest(P, p, e, l) = P[<<"||", At(r, f).pos, Bool(Truthy(l) \/ Truthy(At(r, f).v))>>]
            BY <3>1, Zenon DEF OrRest
        <3>4. OrRest(P, p, e, l) = P[<<"||", f, Bool(Truthy(l) \/ Truthy(r))>>]
            BY <3>2, <3>3, Zenon
        <3> QED
            BY <2>6, <3>4 DEF e, f
    <2> QED
        BY <1>1, <2>4, <2>7, <2>8
<1> QED
    BY <1>2, <1>3, <1>4

\* Whatever phrase a sequence of tokens is, the parser's methods read it as that.
LEMMA EverythingReads ==
    ASSUME NEW p \in Evaluation
    PROVE  \A s \in Seq(Token) : Reads(p, s)
<1> DEFINE T == {n \in Nat : \A s \in Seq(Token) : Len(s) = n => Reads(p, s)}
<1>1. ASSUME NEW n \in Nat, \A m \in Nat : m < n => m \in T
      PROVE  n \in T
    <2>1. ASSUME NEW s \in Seq(Token), Len(s) = n
          PROVE  Reads(p, s)
        <3>1. ShorterRead(p, s)
            <4>1. ASSUME NEW t \in Seq(Token), Len(t) < Len(s)
                  PROVE  Reads(p, t)
                <5>1. PICK m \in Nat : m = Len(t)
                    OBVIOUS
                <5> QED
                    BY <1>1, <2>1, <4>1, <5>1
            <4> QED
                BY <4>1 DEF ShorterRead
        <3> QED
            BY <3>1, UnaryReads, CmpReads, AndReads, OrReads DEF Reads
    <2> QED
        BY <2>1
<1> HIDE DEF T
<1>2. \A n \in Nat : n \in T
    BY <1>1, AllNumbers
<1>3. ASSUME NEW s \in Seq(Token)
      PROVE  Reads(p, s)
    <2>1. PICK n \in Nat : n = Len(s)
        OBVIOUS
    <2>2. n \in T
        BY <1>2
    <2> QED
        BY <2>1, <2>2 DEF T
<1> QED
    BY <1>3

\* An expression has one value, and it is what the evaluator returns.
LEMMA EvaluatesAsMeant ==
    ASSUME NEW toks \in Seq(Token), NEW user \in [uid : Text, email : Text], NEW bound \in Bindings,
           NEW v \in Values(toks, user, bound)
    PROVE  EvalExpr(toks, user, bound) <=> Truthy(v)
<1> DEFINE p == [toks |-> toks, user |-> user, vars |-> bound]
<1>1. p \in Evaluation /\ p.toks = toks
    BY DEF Evaluation
<1>2. v \in Grammar(p)[<<"or", toks>>]
    BY DEF Values
<1>3. EvalExpr(toks, user, bound) <=> Truthy(parseOr(Parser(p), p, 1).v)
    <2>1. EvalExpr(toks, user, bound) <=> Truthy(Parser(p)[<<"or", 1, Null>>].v)
        BY DEF EvalExpr
    <2> HIDE DEF p
    <2>2. 1 \in Nat \ {0}
        OBVIOUS
    <2>3. Parser(p)[<<"or", 1, Null>>] = parseOr(Parser(p), p, 1)
        BY <1>1, <2>2, Calls
    <2> QED
        BY <2>1, <2>3
<1> HIDE DEF p
<1>4. PICK n \in Nat : n = Len(toks)
    OBVIOUS
<1>5. Occurs(toks, p, 1)
    <2>1. 1 + n <= n + 1 /\ \A k \in 1 .. n : (1 + k) - 1 = k
        OBVIOUS
    <2> QED
        BY <1>1, <1>4, <2>1 DEF Occurs
<1>6. peek(p, 1 + n) = "eof"
    BY <1>1, <1>4 DEF peek
<1>7. ReadsOr(p, toks)
    BY <1>1, EverythingReads DEF Reads
<1>8. parseOr(Parser(p), p, 1) = OrRest(Parser(p), p, 1 + n, v)
    <2>1. 1 \in Nat \ {0} /\ peek(p, 1 + Len(toks)) \notin {".", "==", "!=", "&&"}
        BY <1>4, <1>6
    <2> QED
        BY <1>2, <1>4, <1>5, <1>7, <2>1 DEF ReadsOr
<1>9. OrRest(Parser(p), p, 1 + n, v) = At(v, 1 + n)
    BY <1>6 DEF OrRest
<1>10. At(v, 1 + n).v = v
    BY DEF At
<1> QED
    BY <1>3, <1>8, <1>9, <1>10

-----------------------------------------------------------------------------
(* What is an expression does not depend on who asks. *)

LEMMA InfixMember ==
    ASSUME NEW M, NEW s \in Seq(Token), NEW n \in Nat, n = Len(s), NEW ops, NEW g, NEW h,
           NEW v, NEW k \in 1 .. n, AppliedAt(M, s, n, ops, g, h, v, k)
    PROVE  v \in Infix(M, s, ops, g, h)
<1> DEFINE L(j) == M[<<g, SubSeq(s, 1, j - 1)>>]
           R(j) == M[<<h, SubSeq(s, j + 1, n)>>]
           K == {i \in DOMAIN s : s[i].kind \in ops}
           V(j, A, B) == {Apply(s[j].kind, l, r) : l \in A, r \in B}
<1>1. Infix(M, s, ops, g, h) = UNION {V(j, L(j), R(j)) : j \in K}
    BY DEF Infix
<1>2. k \in K /\ \E l \in L(k), r \in R(k) : v = Apply(s[k].kind, l, r)
    BY DEF AppliedAt
<1> HIDE DEF L, R, K
<1>3. v \in V(k, L(k), R(k))
    BY <1>2
<1> HIDE DEF V
<1> QED
    BY <1>1, <1>2, <1>3

\* What p can derive from s, q can.
Derives(p, q, s) == \A g \in Kinds : Grammar(p)[<<g, s>>] # {} => Grammar(q)[<<g, s>>] # {}
ShorterDerives(p, q, s) == \A t \in Seq(Token) : Len(t) < Len(s) => Derives(p, q, t)

LEMMA InfixDerives ==
    ASSUME NEW p \in Evaluation, NEW q \in Evaluation, NEW s \in Seq(Token), ShorterDerives(p, q, s),
           NEW ops, NEW g \in Kinds, NEW h \in Kinds, Infix(Grammar(p), s, ops, g, h) # {}
    PROVE  Infix(Grammar(q), s, ops, g, h) # {}
<1>1. PICK n \in Nat : n = Len(s)
    OBVIOUS
<1>2. PICK v : v \in Infix(Grammar(p), s, ops, g, h)
    OBVIOUS
<1>3. PICK k \in 1 .. n : AppliedAt(Grammar(p), s, n, ops, g, h, v, k)
    BY <1>1, <1>2, InfixParts
<1> DEFINE t == SubSeq(s, 1, k - 1)
           u == SubSeq(s, k + 1, n)
<1>4. t \in Seq(Token) /\ Len(t) = k - 1 /\ u \in Seq(Token) /\ Len(u) = n - k
    BY <1>1, Parts
<1>5. s[k].kind \in ops /\ Grammar(p)[<<g, t>>] # {} /\ Grammar(p)[<<h, u>>] # {}
    BY <1>3 DEF AppliedAt
<1>6. ASSUME NEW l \in Grammar(q)[<<g, t>>], NEW r \in Grammar(q)[<<h, u>>]
      PROVE  AppliedAt(Grammar(q), s, n, ops, g, h, Apply(s[k].kind, l, r), k)
    BY <1>5 DEF AppliedAt
<1> HIDE DEF t, u
<1>7. Len(t) < Len(s) /\ Len(u) < Len(s)
    BY <1>1, <1>4
<1>8. PICK l \in Grammar(q)[<<g, t>>], r \in Grammar(q)[<<h, u>>] : TRUE
    BY <1>4, <1>5, <1>7 DEF ShorterDerives, Derives
<1>9. Apply(s[k].kind, l, r) \in Infix(Grammar(q), s, ops, g, h)
    BY <1>1, <1>6, InfixMember
<1> QED
    BY <1>9

LEMMA UnaryDerives ==
    ASSUME NEW p \in Evaluation, NEW q \in Evaluation, NEW s \in Seq(Token), ShorterDerives(p, q, s),
           Unary(Grammar(p), p, s) # {}
    PROVE  Unary(Grammar(q), q, s) # {}
<1> DEFINE M == Grammar(p)
           N == Grammar(q)
<1>1. PICK n \in Nat : n = Len(s)
    OBVIOUS
<1>2. s # <<>> /\ n # 0
    BY <1>1 DEF Unary
<1> HIDE DEF M, N
<1>3. CASE s[1].kind = "!"
    <2> DEFINE t == SubSeq(s, 2, n)
               V(A) == {Bool(~ Truthy(v)) : v \in A}
    <2>1. t \in Seq(Token) /\ Len(t) < n
        BY <1>1, <1>2, Parts
    <2>2. Unary(M, p, s) = V(M[<<"unary", t>>]) /\ Unary(N, q, s) = V(N[<<"unary", t>>])
        BY <1>1, <1>2, <1>3 DEF Unary, IsAccess
    <2>3. \A A : V(A) # {} <=> A # {}
        OBVIOUS
    <2> HIDE DEF t, V
    <2>4. M[<<"unary", t>>] # {} => N[<<"unary", t>>] # {}
        BY <1>1, <2>1 DEF ShorterDerives, Derives, Kinds, M, N
    <2> QED
        BY <2>2, <2>3, <2>4 DEF M, N
<1>4. CASE s[1].kind = "("
    <2>1. s[n].kind = ")"
        BY <1>1, <1>2, <1>4 DEF Unary, IsAccess
    <2>2. n > 1
        BY <1>2, <1>4, <2>1
    <2> DEFINE t == SubSeq(s, 2, n - 1)
    <2>3. t \in Seq(Token) /\ Len(t) < n
        BY <1>1, <2>2, Parts
    <2>4. Unary(M, p, s) = M[<<"or", t>>] /\ Unary(N, q, s) = N[<<"or", t>>]
        BY <1>1, <1>2, <1>4, <2>1 DEF Unary, IsAccess
    <2> HIDE DEF t
    <2>5. M[<<"or", t>>] # {} => N[<<"or", t>>] # {}
        BY <1>1, <2>3 DEF ShorterDerives, Derives, Kinds, M, N
    <2> QED
        BY <2>4, <2>5 DEF M, N
<1>5. CASE s[1].kind = "string"
    <2>1. n = 1
        BY <1>1, <1>2, <1>5 DEF Unary, IsAccess
    <2>2. Unary(N, q, s) = {Str(s[1].val)}
        BY <1>1, <1>2, <1>5, <2>1 DEF Unary, IsAccess
    <2> QED
        BY <2>2 DEF N
<1>6. CASE s[1].kind \notin {"!", "(", "string"}
    <2>1. IsAccess(s)
        BY <1>1, <1>2, <1>6 DEF Unary
    <2>2. Unary(N, q, s) = {resolve(q, s[1].val, IF Len(s) = 1 THEN Null ELSE Str(s[3].val))}
        BY <1>1, <1>2, <1>6, <2>1 DEF Unary
    <2> QED
        BY <2>2 DEF N
<1> QED
    BY <1>3, <1>4, <1>5, <1>6

LEMMA EverythingDerives ==
    ASSUME NEW p \in Evaluation, NEW q \in Evaluation
    PROVE  \A s \in Seq(Token) : Derives(p, q, s)
<1> DEFINE T == {n \in Nat : \A s \in Seq(Token) : Len(s) = n => Derives(p, q, s)}
<1>1. ASSUME NEW n \in Nat, \A m \in Nat : m < n => m \in T
      PROVE  n \in T
    <2>1. ASSUME NEW s \in Seq(Token), Len(s) = n
          PROVE  Derives(p, q, s)
        <3> DEFINE M == Grammar(p)
                   N == Grammar(q)
        <3>1. ShorterDerives(p, q, s)
            <4>1. ASSUME NEW t \in Seq(Token), Len(t) < Len(s)
                  PROVE  Derives(p, q, t)
                <5>1. PICK m \in Nat : m = Len(t)
                    OBVIOUS
                <5> QED
                    BY <1>1, <2>1, <4>1, <5>1
            <4> QED
                BY <4>1 DEF ShorterDerives
        <3>2. Unary(M, p, s) # {} => Unary(N, q, s) # {}
            BY <3>1, UnaryDerives
        <3>3. \A ops : \A g, h \in Kinds : Infix(M, s, ops, g, h) # {} => Infix(N, s, ops, g, h) # {}
            BY <3>1, InfixDerives
        <3>4. /\ M[<<"or", s>>] = Or(M, p, s) /\ M[<<"and", s>>] = And(M, p, s)
              /\ M[<<"cmp", s>>] = Cmp(M, p, s) /\ M[<<"unary", s>>] = Unary(M, p, s)
            BY Phrases
        <3>5. /\ N[<<"or", s>>] = Or(N, q, s) /\ N[<<"and", s>>] = And(N, q, s)
              /\ N[<<"cmp", s>>] = Cmp(N, q, s) /\ N[<<"unary", s>>] = Unary(N, q, s)
            BY Phrases
        <3> HIDE DEF M, N
        <3>6. "unary" \in Kinds /\ "cmp" \in Kinds /\ "and" \in Kinds /\ "or" \in Kinds
            BY DEF Kinds
        <3>7. Cmp(M, p, s) # {} => Cmp(N, q, s) # {}
            BY <3>2, <3>3, <3>6 DEF Cmp
        <3>8. And(M, p, s) # {} => And(N, q, s) # {}
            BY <3>3, <3>6, <3>7 DEF And
        <3>9. Or(M, p, s) # {} => Or(N, q, s) # {}
            BY <3>3, <3>6, <3>8 DEF Or
        <3>10. \A g \in Kinds : M[<<g, s>>] # {} => N[<<g, s>>] # {}
            BY <3>2, <3>4, <3>5, <3>7, <3>8, <3>9 DEF Kinds
        <3> QED
            BY <3>10 DEF Derives, M, N
    <2> QED
        BY <2>1
<1> HIDE DEF T
<1>2. \A n \in Nat : n \in T
    BY <1>1, AllNumbers
<1>3. ASSUME NEW s \in Seq(Token)
      PROVE  Derives(p, q, s)
    <2>1. PICK n \in Nat : n = Len(s)
        OBVIOUS
    <2>2. n \in T
        BY <1>2
    <2> QED
        BY <2>1, <2>2 DEF T
<1> QED
    BY <1>3

\* An expression is evaluated to what it means.
LEMMA HoldsAsEvaluated ==
    ASSUME NEW toks \in Seq(Token), IsExpr(toks), NEW user \in [uid : Text, email : Text],
           NEW bound \in Bindings
    PROVE  Holds(toks, user, bound) <=> EvalExpr(toks, user, bound)
<1> DEFINE p == [toks |-> toks, user |-> Anonymous, vars |-> [x \in {} |-> ""]]
           q == [toks |-> toks, user |-> user, vars |-> bound]
<1>1. p \in Evaluation
    <2>1. Anonymous \in [uid : Text, email : Text]
        BY TextAssumption DEF Anonymous
    <2>2. [x \in {} |-> ""] \in [{} -> Text] /\ {} \in SUBSET Text
        OBVIOUS
    <2>3. [x \in {} |-> ""] \in Bindings
        BY <2>2 DEF Bindings
    <2> HIDE DEF Bindings
    <2> QED
        BY <2>1, <2>3 DEF Evaluation
<1>2. q \in Evaluation
    BY DEF Evaluation
<1>3. Grammar(p)[<<"or", toks>>] # {} /\ Values(toks, user, bound) = Grammar(q)[<<"or", toks>>]
    BY DEF IsExpr, Values
<1> HIDE DEF p, q
<1>4. Values(toks, user, bound) # {}
    <2>1. Derives(p, q, toks)
        BY <1>1, <1>2, EverythingDerives
    <2> QED
        BY <1>3, <2>1 DEF Derives, Kinds
<1>5. \A v \in Values(toks, user, bound) : EvalExpr(toks, user, bound) <=> Truthy(v)
    BY EvaluatesAsMeant
<1> QED
    BY <1>4, <1>5 DEF Holds

\* No text is no expression.
LEMMA NoText ==
    ASSUME NEW user \in [uid : Text, email : Text], NEW bound \in Bindings
    PROVE  ~ Holds(<<>>, user, bound)
<1> DEFINE p == [toks |-> <<>>, user |-> user, vars |-> bound]
           M == Grammar(p)
           s == <<>>
<1>1. p \in Evaluation /\ s \in Seq(Token) /\ Len(s) = 0
    BY DEF Evaluation
<1>2. Values(s, user, bound) = M[<<"or", s>>]
    BY DEF Values
<1>3. Unary(M, p, s) = {}
    BY DEF Unary
<1> HIDE DEF p, M, s
<1>4. ASSUME NEW ops, NEW g, NEW h
      PROVE  Infix(M, s, ops, g, h) = {}
    <2>1. ASSUME NEW v \in Infix(M, s, ops, g, h)
          PROVE  FALSE
        <3>1. PICK n \in Nat : n = Len(s)
            BY <1>1
        <3>2. PICK k \in 1 .. n : AppliedAt(M, s, n, ops, g, h, v, k)
            BY <1>1, <3>1, InfixParts
        <3> QED
            BY <1>1, <3>1, <3>2
    <2> QED
        BY <2>1
<1>5. M[<<"or", s>>] = Or(M, p, s)
    BY <1>1, Phrases DEF M
<1>6. Or(M, p, s) = {}
    BY <1>3, <1>4 DEF Or, And, Cmp
<1>7. Values(s, user, bound) = {}
    BY <1>2, <1>5, <1>6
<1> QED
    BY <1>7 DEF Holds, s

-----------------------------------------------------------------------------
(* The wildcards bound. *)

LEMMA GreatestNumber ==
    ASSUME NEW N \in Nat, NEW T, T \subseteq 1 .. N, T # {}
    PROVE  \E x \in T : \A y \in T : y <= x
<1> DEFINE S == {N - x : x \in T}
<1>1. S \subseteq Nat /\ S # {}
    <2>1. \A x \in T : x \in 1 .. N
        OBVIOUS
    <2>2. \A x \in 1 .. N : N - x \in Nat
        OBVIOUS
    <2> QED
        BY <2>1, <2>2
<1>2. PICK m \in S : \A k \in S : m <= k
    BY <1>1, LeastNumber
<1>3. PICK x \in T : m = N - x
    BY <1>2
<1>4. \A y \in T : N - x <= N - y
    BY <1>2, <1>3
<1>5. \A y \in T : y <= x
    BY <1>4
<1> QED
    BY <1>5

\* The segments of a path that wildcards of a node stand for, and those that are the
\* last for their wildcard.
Places(node, path) == {i \in DOMAIN node : node[i] # path[i]}
Names(node, path) == {node[i] : i \in Places(node, path)}
LastPlace(node, path, i) ==
    i \in Places(node, path) /\ \A j \in Places(node, path) : node[j] = node[i] => j <= i

LEMMA BindingOf ==
    ASSUME NEW node \in Seq(Text), NEW path \in Seq(Text), Len(node) <= Len(path)
    PROVE  /\ Binding(node, path) \in [Names(node, path) -> Text]
           /\ \A i : LastPlace(node, path, i) => Binding(node, path)[node[i]] = path[i]
           /\ \A i \in Places(node, path) :
                \E k : LastPlace(node, path, k) /\ node[k] = node[i]
<1>1. PICK n \in Nat : n = Len(node)
    OBVIOUS
<1> DEFINE place == Places(node, path)
           names == Names(node, path)
           last(x) == CHOOSE i \in place : node[i] = x /\ \A j \in place : node[j] = x => j <= i
<1>2. place \subseteq 1 .. n /\ \A i \in 1 .. n : path[i] \in Text
    BY <1>1 DEF Places
<1>3. Binding(node, path) = [x \in names |-> path[last(x)]]
    BY DEF Binding, Places, Names
<1>4. \A i : LastPlace(node, path, i) <=>
                i \in place /\ \A j \in place : node[j] = node[i] => j <= i
    BY DEF LastPlace
<1>5. names = {node[i] : i \in place}
    BY DEF Names
<1> HIDE DEF place, names
<1>6. ASSUME NEW i \in place
      PROVE  \E k \in place : node[k] = node[i] /\ \A j \in place : node[j] = node[i] => j <= k
    <2> DEFINE T == {k \in place : node[k] = node[i]}
    <2>1. T \subseteq 1 .. n /\ T # {}
        BY <1>2
    <2>2. PICK k \in T : \A j \in T : j <= k
        BY <2>1, GreatestNumber
    <2> QED
        BY <2>2
<1>7. \A i \in place : /\ last(node[i]) \in place /\ node[last(node[i])] = node[i]
                       /\ \A j \in place : node[j] = node[i] => j <= last(node[i])
    BY <1>6
<1>8. \A i \in place : last(node[i]) \in 1 .. n
    BY <1>2, <1>7
<1> HIDE DEF last
<1>9. ASSUME NEW i, LastPlace(node, path, i)
      PROVE  Binding(node, path)[node[i]] = path[i]
    <2>1. i \in place /\ \A j \in place : node[j] = node[i] => j <= i
        BY <1>4, <1>9
    <2> DEFINE k == last(node[i])
    <2>2. k \in place /\ node[k] = node[i] /\ \A j \in place : node[j] = node[i] => j <= k
        BY <1>7, <2>1
    <2>3. Binding(node, path)[node[i]] = path[k]
        BY <1>3, <1>5, <2>1
    <2> HIDE DEF k
    <2>4. k = i
        BY <1>2, <2>1, <2>2
    <2> QED
        BY <2>3, <2>4
<1>10. \A x \in names : path[last(x)] \in Text
    BY <1>2, <1>5, <1>8
<1>11. Binding(node, path) \in [names -> Text]
    BY <1>3, <1>10
<1> QED
    BY <1>4, <1>6, <1>9, <1>11 DEF place, names

\* A node's child binds its last segment, if that is a wildcard for another.
LEMMA BindingStep ==
    ASSUME NEW node \in Seq(Text), NEW path \in Seq(Text), NEW x \in Text,
           NEW n \in Nat, n = Len(node), n < Len(path), NEW seg, seg = path[n + 1]
    PROVE  Binding(Append(node, x), path) =
                IF x = seg THEN Binding(node, path) ELSE Bind(Binding(node, path), x, seg)
<1> DEFINE child == Append(node, x)
           f == Binding(node, path)
           g == Binding(child, path)
<1>1. /\ child \in Seq(Text) /\ DOMAIN child = 1 .. n + 1 /\ DOMAIN node = 1 .. n
      /\ child[n + 1] = x /\ \A i \in 1 .. n : child[i] = node[i]
    OBVIOUS
<1>0. Len(node) <= Len(path) /\ Len(child) <= Len(path)
    OBVIOUS
<1> HIDE DEF child
<1> DEFINE P == Places(node, path)
           Q == Places(child, path)
           A == Names(node, path)
           B == Names(child, path)
<1>2. /\ f \in [A -> Text]
      /\ \A i : LastPlace(node, path, i) => f[node[i]] = path[i]
      /\ \A i \in P : \E k : LastPlace(node, path, k) /\ node[k] = node[i]
    BY <1>0, BindingOf
<1>3. /\ g \in [B -> Text]
      /\ \A i : LastPlace(child, path, i) => g[child[i]] = path[i]
    BY <1>0, <1>1, BindingOf
<1>4. P \subseteq 1 .. n /\ Q = IF x = seg THEN P ELSE P \cup {n + 1}
    BY <1>1 DEF Places
<1>5. /\ \A i : LastPlace(node, path, i) <=>
                    i \in P /\ \A j \in P : node[j] = node[i] => j <= i
      /\ \A i : LastPlace(child, path, i) <=>
                    i \in Q /\ \A j \in Q : child[j] = child[i] => j <= i
    BY DEF LastPlace
<1>10. A = {node[i] : i \in P} /\ B = {child[i] : i \in Q}
    BY DEF Names
<1> HIDE DEF P, Q, A, B, f, g
<1>6. ASSUME NEW i \in P, x = seg \/ node[i] # x
      PROVE  g[node[i]] = f[node[i]]
    <2>1. PICK k : LastPlace(node, path, k) /\ node[k] = node[i]
        BY <1>2
    <2>2. k \in P /\ k \in 1 .. n /\ child[k] = node[k]
        BY <1>1, <1>4, <1>5, <2>1
    <2>3. ASSUME NEW j \in Q, child[j] = child[k]
          PROVE  j <= k
        <3>1. j \in P
            BY <1>1, <1>4, <1>6, <2>1, <2>2, <2>3
        <3> QED
            BY <1>1, <1>4, <1>5, <2>1, <2>2, <2>3, <3>1
    <2>4. LastPlace(child, path, k)
        BY <1>4, <1>5, <2>2, <2>3
    <2> QED
        BY <1>2, <1>3, <2>1, <2>2, <2>4
<1>7. \A i \in P : child[i] = node[i]
    BY <1>1, <1>4
<1>8. CASE x = seg
    <2>1. A = B
        BY <1>4, <1>7, <1>8, <1>10
    <2>2. \A y \in A : g[y] = f[y]
        BY <1>6, <1>8, <1>10
    <2>3. g = f
        BY <1>2, <1>3, <2>1, <2>2
    <2> QED
        BY <1>8, <2>3 DEF f, g, child
<1>9. CASE x # seg
    <2>1. B = A \cup {x}
        BY <1>1, <1>4, <1>7, <1>9, <1>10
    <2>2. g[x] = seg
        <3>1. LastPlace(child, path, n + 1)
            BY <1>4, <1>5, <1>9
        <3> QED
            BY <1>1, <1>3, <3>1
    <2>3. \A y \in A : y # x => g[y] = f[y]
        BY <1>6, <1>10
    <2>4. \A y \in B : g[y] = IF y = x THEN seg ELSE f[y]
        BY <2>1, <2>2, <2>3
    <2>5. g = [y \in DOMAIN f \cup {x} |-> IF y = x THEN seg ELSE f[y]]
        BY <1>2, <1>3, <2>1, <2>4
    <2>6. g = Bind(f, x, seg)
        BY <2>5 DEF Bind
    <2> QED
        BY <1>9, <2>6 DEF f, g, child
<1> QED
    BY <1>8, <1>9

-----------------------------------------------------------------------------
(* The walks. *)

Walk(doc) == [node : DOMAIN doc, bound : Bindings, over : BOOLEAN, granted : BOOLEAN]

\* The rule at a node grants.
Grants(doc, op, user, node, bound) ==
    Rule(doc, node, op) # <<>> /\ EvalExpr(Rule(doc, node, op), user, bound)

LEMMA VisitIs ==
    ASSUME NEW doc, NEW op, NEW user, NEW node \in DOMAIN doc, NEW bound \in Bindings,
           NEW w, w = Visit(doc, op, user, node, bound)
    PROVE  /\ w \in Walk(doc) /\ w.node = node /\ w.bound = bound /\ ~ w.over
           /\ w.granted <=> Grants(doc, op, user, node, bound)
<1> DEFINE g == Grants(doc, op, user, node, bound)
<1>1. w = [node |-> node, bound |-> bound, over |-> FALSE, granted |-> g]
    BY Zenon DEF Visit, Grants
<1>2. g \in BOOLEAN
    BY Zenon DEF Grants
<1> HIDE DEF g
<1>3. w.node = node /\ w.bound = bound /\ w.over = FALSE /\ w.granted = g
    BY <1>1
<1>4. w \in Walk(doc)
    BY <1>1, <1>2 DEF Walk
<1> QED
    BY <1>3, <1>4 DEF g

LEMMA UnboundType == Unbound \in Bindings
<1>1. Unbound \in [{} -> Text] /\ {} \in SUBSET Text
    BY DEF Unbound
<1> QED
    BY <1>1 DEF Bindings

LEMMA BindType ==
    ASSUME NEW f \in Bindings, NEW x \in Text, NEW seg \in Text
    PROVE  Bind(f, x, seg) \in Bindings
<1>1. PICK names \in SUBSET Text : f \in [names -> Text]
    BY DEF Bindings
<1>2. Bind(f, x, seg) \in [names \cup {x} -> Text] /\ names \cup {x} \in SUBSET Text
    BY <1>1 DEF Bind
<1> QED
    BY <1>2 DEF Bindings

\* A step leaves the walk as it is, ends it or takes it to a child of its node.
LEMMA StepIs ==
    ASSUME NEW doc, IsTree(doc), NEW op, NEW user, NEW w \in Walk(doc), NEW seg \in Text,
           NEW v \in Steps(doc, op, user, w, seg)
    PROVE  /\ v \in Walk(doc)
           /\ \/ (w.granted \/ w.over) /\ v = w
              \/ /\ ~ w.granted /\ ~ w.over /\ v.over
                 /\ v.node = w.node /\ v.bound = w.bound /\ (v.granted <=> w.granted)
              \/ /\ ~ w.granted /\ ~ w.over /\ ~ v.over
                 /\ \E x \in Children(doc, w.node, seg) :
                        /\ v.node = Append(w.node, x) /\ v.node \in DOMAIN doc
                        /\ v.bound = IF x = seg THEN w.bound ELSE Bind(w.bound, x, seg)
                        /\ v.granted <=> Grants(doc, op, user, v.node, v.bound)
<1>1. CASE w.granted \/ w.over
    BY <1>1 DEF Steps
<1>2. CASE ~ w.granted /\ ~ w.over /\ Children(doc, w.node, seg) = {}
    <2>1. v = [w EXCEPT !.over = TRUE]
        BY <1>2 DEF Steps
    <2> QED
        BY <1>2, <2>1 DEF Walk
<1>3. CASE ~ w.granted /\ ~ w.over /\ Children(doc, w.node, seg) # {}
    <2> DEFINE b(x) == IF x = seg THEN w.bound ELSE Bind(w.bound, x, seg)
    <2>1. PICK x \in Children(doc, w.node, seg) :
                v = Visit(doc, op, user, Append(w.node, x), b(x))
        BY <1>3 DEF Steps
    <2> DEFINE c == Append(w.node, x)
               t == b(x)
    <2>2. c \in DOMAIN doc
        BY DEF Children
    <2>3. x # seg => x \in Wild
        BY DEF Children
    <2>4. t \in Bindings
        BY <2>3, BindType, RulesConstants DEF Walk
    <2>5. v = Visit(doc, op, user, c, t)
        BY <2>1
    <2> HIDE DEF b, c, t
    <2>6. /\ v \in Walk(doc) /\ v.node = c /\ v.bound = t /\ ~ v.over
          /\ v.granted <=> Grants(doc, op, user, c, t)
        BY <2>2, <2>4, <2>5, VisitIs
    <2>7. v.granted <=> Grants(doc, op, user, v.node, v.bound)
        BY <2>6
    <2>8. /\ v.node = Append(w.node, x) /\ v.node \in DOMAIN doc
          /\ v.bound = IF x = seg THEN w.bound ELSE Bind(w.bound, x, seg)
        BY <2>2, <2>6 DEF b, c, t
    <2> QED
        BY <1>3, <2>6, <2>7, <2>8
<1> QED
    BY <1>1, <1>2, <1>3

\* The walks of each number of segments are the steps of those of one segment less.
LEMMA WalksStep ==
    ASSUME NEW doc, IsTree(doc), NEW path \in Seq(Text), NEW op, NEW user
    PROVE  \A n \in 0 .. Len(path) :
                /\ Walks(doc, path, op, user)[n] \subseteq Walk(doc)
                /\ Walks(doc, path, op, user)[n] =
                        IF n = 0 THEN {Visit(doc, op, user, <<>>, Unbound)}
                        ELSE UNION {Steps(doc, op, user, w, path[n])
                                    : w \in Walks(doc, path, op, user)[n - 1]}
<1> DEFINE D == 0 .. Len(path)
           R == SUBSET Walk(doc)
           T == [n \in D |-> R]
           S == Typed(D, R, T)
           rank == [n \in D |-> n]
           At0 == {Visit(doc, op, user, <<>>, Unbound)}
           Go(n, A) == UNION {Steps(doc, op, user, w, path[n]) : w \in A}
           h == [W \in S |-> [n \in D |-> IF n = 0 THEN At0 ELSE Go(n, W[n - 1])]]
           a == [n \in D |-> {}]
<1>1. \A n \in D : n \in Nat /\ (n # 0 => n - 1 \in D /\ n - 1 < n /\ path[n] \in Text)
    OBVIOUS
<1>2. \A W : W \in S <=> W \in [D -> R]
    BY DEF Typed
<1>3. rank \in [D -> Nat]
    BY <1>1
<1>4. At0 \in R
    <2>1. <<>> \in DOMAIN doc
        BY DEF IsTree
    <2> DEFINE v == Visit(doc, op, user, <<>>, Unbound)
               root0 == <<>>
    <2>2. v = Visit(doc, op, user, root0, Unbound) /\ root0 \in DOMAIN doc
        BY <2>1
    <2> HIDE DEF v, root0
    <2>3. v \in Walk(doc)
        BY <2>2, UnboundType, VisitIs
    <2> QED
        BY <2>3 DEF v
<1>5. ASSUME NEW n \in D, n # 0, NEW A \in R
      PROVE  Go(n, A) \in R
    <2>1. \A w \in A : Steps(doc, op, user, w, path[n]) \subseteq Walk(doc)
        BY <1>1, <1>5, StepIs
    <2> QED
        BY <2>1
<1> HIDE DEF D, R, S, At0, Go
<1>6. h \in [S -> S]
    <2>1. ASSUME NEW W \in S
          PROVE  [n \in D |-> IF n = 0 THEN At0 ELSE Go(n, W[n - 1])] \in S
        <3>1. \A n \in D : (IF n = 0 THEN At0 ELSE Go(n, W[n - 1])) \in R
            BY <1>1, <1>2, <1>4, <1>5
        <3> QED
            BY <1>2, <3>1
    <2> QED
        BY <2>1
<1>7. a \in S
    <2>1. {} \in R
        BY DEF R
    <2> QED
        BY <1>2, <2>1
<1>8. Local(D, S, rank, h)
    <2>1. ASSUME NEW V \in S, NEW W \in S, NEW n \in D,
                 \A m \in D : rank[m] < rank[n] => V[m] = W[m]
          PROVE  h[V][n] = h[W][n]
        <3>1. n # 0 => V[n - 1] = W[n - 1]
            BY <1>1, <2>1
        <3> QED
            BY <3>1
    <2> QED
        BY <2>1 DEF Local
<1> HIDE DEF T, rank, h, a
<1>9. PICK F \in S : h[F] = F
    BY <1>3, <1>6, <1>7, <1>8, RankedRecursion DEF S
<1> DEFINE G(W) == W = [n \in 0 .. Len(path) |->
                            IF n = 0 THEN {Visit(doc, op, user, <<>>, Unbound)}
                            ELSE UNION {Steps(doc, op, user, w, path[n]) : w \in W[n - 1]}]
<1>10. G(F)
    BY <1>9 DEF h, D, At0, Go
<1>11. Walks(doc, path, op, user) = CHOOSE W : G(W)
    BY Zenon DEF Walks
<1> HIDE DEF G
<1>12. G(Walks(doc, path, op, user))
    BY <1>10, <1>11, Zenon
<1> DEFINE W == Walks(doc, path, op, user)
<1>13. \A n \in D : W[n] = IF n = 0 THEN At0 ELSE Go(n, W[n - 1])
    BY <1>12 DEF G, D, At0, Go
<1> HIDE DEF W
<1>14. \A n \in Nat : n \in D => W[n] \in R
    <2> DEFINE P == {n \in Nat : n \in D => W[n] \in R}
    <2>1. ASSUME NEW n \in Nat, \A m \in Nat : m < n => m \in P
          PROVE  n \in P
        BY <1>1, <1>4, <1>5, <1>13, <2>1
    <2> HIDE DEF P
    <2>2. \A n \in Nat : n \in P
        BY <2>1, AllNumbers
    <2> QED
        BY <2>2 DEF P
<1> QED
    BY <1>1, <1>13, <1>14 DEF W, D, R, At0, Go

\* After n segments: the node a walk has reached stands for the path so far.
Followed(doc, path, op, user, n, w) ==
    /\ Matches(doc, w.node, path) /\ w.bound = Binding(w.node, path)
    /\ w.granted <=> Grants(doc, op, user, w.node, w.bound)
    /\ Len(w.node) <= n
    /\ w.granted \/ w.over \/ Len(w.node) = n

LEMMA ChildMatches ==
    ASSUME NEW doc, NEW path \in Seq(Text), NEW node \in Seq(Text), NEW n \in Nat, n = Len(node),
           n < Len(path), Matches(doc, node, path),
           NEW x \in Text, x \in Children(doc, node, path[n + 1])
    PROVE  Matches(doc, Append(node, x), path)
<1> DEFINE child == Append(node, x)
           seg == path[n + 1]
<1>1. /\ DOMAIN child = 1 .. n + 1 /\ Len(child) <= Len(path) /\ child[n + 1] = x
      /\ \A i \in 1 .. n : i \in DOMAIN node /\ child[i] = node[i]
    OBVIOUS
<1>2. ASSUME NEW i \in 1 .. n
      PROVE  SubSeq(child, 1, i - 1) = SubSeq(node, 1, i - 1)
    OBVIOUS
<1>3. (n + 1) - 1 = n /\ SubSeq(child, 1, n) = node
    OBVIOUS
<1>4. node \o <<seg>> = Append(node, seg)
    OBVIOUS
<1>5. x = seg \/ (x \in Wild /\ Append(node, seg) \notin DOMAIN doc)
    BY DEF Children
<1>6. ASSUME NEW i \in 1 .. n
      PROVE  \/ child[i] = path[i]
             \/ child[i] \in Wild /\ SubSeq(child, 1, i - 1) \o <<path[i]>> \notin DOMAIN doc
    BY <1>1, <1>2 DEF Matches
<1>7. \/ child[n + 1] = path[n + 1]
      \/ /\ child[n + 1] \in Wild
         /\ SubSeq(child, 1, (n + 1) - 1) \o <<path[n + 1]>> \notin DOMAIN doc
    BY <1>1, <1>3, <1>4, <1>5
<1>8. \A i \in 1 .. n + 1 : i \in 1 .. n \/ i = n + 1
    OBVIOUS
<1> HIDE DEF child, seg
<1>9. \A i \in DOMAIN child :
        \/ child[i] = path[i]
        \/ child[i] \in Wild /\ SubSeq(child, 1, i - 1) \o <<path[i]>> \notin DOMAIN doc
    BY <1>1, <1>6, <1>7, <1>8
<1>10. Matches(doc, child, path)
    BY <1>1, <1>9 DEF Matches
<1> QED
    BY <1>10 DEF child

LEMMA ChildText ==
    ASSUME NEW doc, NEW node, NEW seg \in Text, NEW x \in Children(doc, node, seg)
    PROVE  x \in Text /\ (x # seg => x \in Wild) /\ Append(node, x) \in DOMAIN doc
BY RulesConstants DEF Children

LEMMA StepFollowed ==
    ASSUME NEW doc, IsTree(doc), NEW path \in Seq(Text), NEW op, NEW user,
           NEW n \in Nat, n < Len(path), NEW w \in Walk(doc), Followed(doc, path, op, user, n, w),
           NEW v \in Steps(doc, op, user, w, path[n + 1])
    PROVE  Followed(doc, path, op, user, n + 1, v)
<1> DEFINE seg == path[n + 1]
<1>1. seg \in Text
    OBVIOUS
<1>2. w.node \in Seq(Text) /\ Len(w.node) \in Nat
    BY DEF Walk, IsTree
<1>3. v \in Steps(doc, op, user, w, seg)
    OBVIOUS
<1> HIDE DEF seg
<1>4. CASE (w.granted \/ w.over) /\ v = w
    BY <1>2, <1>4 DEF Followed
<1>5. CASE v.over /\ v.node = w.node /\ v.bound = w.bound /\ (v.granted <=> w.granted)
    BY <1>2, <1>5 DEF Followed
<1>6. CASE /\ ~ w.granted /\ ~ w.over /\ ~ v.over
           /\ \E x \in Children(doc, w.node, seg) :
                  /\ v.node = Append(w.node, x) /\ v.node \in DOMAIN doc
                  /\ v.bound = IF x = seg THEN w.bound ELSE Bind(w.bound, x, seg)
                  /\ v.granted <=> Grants(doc, op, user, v.node, v.bound)
    <2>1. PICK x \in Children(doc, w.node, seg) :
                  /\ v.node = Append(w.node, x) /\ v.node \in DOMAIN doc
                  /\ v.bound = IF x = seg THEN w.bound ELSE Bind(w.bound, x, seg)
                  /\ v.granted <=> Grants(doc, op, user, v.node, v.bound)
        BY <1>6
    <2>2. x \in Text
        BY <1>1, ChildText
    <2> DEFINE node == w.node
    <2>3. /\ node \in Seq(Text) /\ n = Len(node) /\ Matches(doc, node, path)
          /\ w.bound = Binding(node, path)
        BY <1>2, <1>6 DEF Followed
    <2>4. /\ v.node = Append(node, x) /\ x \in Children(doc, node, seg)
          /\ v.bound = IF x = seg THEN Binding(node, path) ELSE Bind(Binding(node, path), x, seg)
        BY <2>1, <2>3
    <2> HIDE DEF node
    <2>5. Matches(doc, v.node, path)
        BY <2>2, <2>3, <2>4, ChildMatches DEF seg
    <2>6. v.bound = Binding(v.node, path)
        BY <2>2, <2>3, <2>4, BindingStep DEF seg
    <2>7. Len(v.node) = n + 1
        BY <2>2, <2>3, <2>4
    <2> QED
        BY <2>1, <2>5, <2>6, <2>7 DEF Followed
<1>7. \/ (w.granted \/ w.over) /\ v = w
      \/ /\ ~ w.granted /\ ~ w.over /\ v.over
         /\ v.node = w.node /\ v.bound = w.bound /\ (v.granted <=> w.granted)
      \/ /\ ~ w.granted /\ ~ w.over /\ ~ v.over
         /\ \E x \in Children(doc, w.node, seg) :
                /\ v.node = Append(w.node, x) /\ v.node \in DOMAIN doc
                /\ v.bound = IF x = seg THEN w.bound ELSE Bind(w.bound, x, seg)
                /\ v.granted <=> Grants(doc, op, user, v.node, v.bound)
    BY <1>1, <1>3, StepIs, Zenon
<1> QED
    BY <1>4, <1>5, <1>6, <1>7

LEMMA RootFollowed ==
    ASSUME NEW doc, IsTree(doc), NEW path \in Seq(Text), NEW op, NEW user,
           NEW w, w = Visit(doc, op, user, <<>>, Unbound)
    PROVE  Followed(doc, path, op, user, 0, w)
<1> DEFINE node == <<>>
<1>1. node \in DOMAIN doc /\ node \in Seq(Text) /\ Len(node) = 0 /\ Len(node) <= Len(path)
    BY DEF IsTree
<1>2. Matches(doc, node, path)
    BY DEF Matches
<1>3. Unbound = Binding(node, path)
    <2>1. Names(node, path) = {}
        BY DEF Names, Places
    <2> HIDE DEF node
    <2>2. Binding(node, path) \in [{} -> Text]
        BY <1>1, <2>1, BindingOf
    <2>3. Unbound \in [{} -> Text]
        BY DEF Unbound
    <2> QED
        BY <2>2, <2>3
<1>4. w = Visit(doc, op, user, node, Unbound)
    OBVIOUS
<1> HIDE DEF node
<1>5. /\ w.node = node /\ w.bound = Unbound
      /\ w.granted <=> Grants(doc, op, user, node, Unbound)
    BY <1>1, <1>4, UnboundType, VisitIs
<1> QED
    BY <1>1, <1>2, <1>3, <1>5 DEF Followed

LEMMA AllFollowed ==
    ASSUME NEW doc, IsTree(doc), NEW path \in Seq(Text), NEW op, NEW user
    PROVE  \A n \in 0 .. Len(path) : \A w \in Walks(doc, path, op, user)[n] :
                w \in Walk(doc) /\ Followed(doc, path, op, user, n, w)
<1> DEFINE W == Walks(doc, path, op, user)
           P == {n \in Nat : n <= Len(path) =>
                    \A w \in W[n] : w \in Walk(doc) /\ Followed(doc, path, op, user, n, w)}
<1>1. \A n \in 0 .. Len(path) :
        /\ W[n] \subseteq Walk(doc)
        /\ W[n] = IF n = 0 THEN {Visit(doc, op, user, <<>>, Unbound)}
                  ELSE UNION {Steps(doc, op, user, w, path[n]) : w \in W[n - 1]}
    BY WalksStep
<1> HIDE DEF W
<1>2. 0 \in P
    <2>1. 0 \in 0 .. Len(path)
        OBVIOUS
    <2>2. W[0] \subseteq Walk(doc) /\ W[0] = {Visit(doc, op, user, <<>>, Unbound)}
        BY <1>1, <2>1
    <2> QED
        BY <2>2, RootFollowed
<1>3. ASSUME NEW n \in Nat, n \in P, n + 1 <= Len(path), NEW v \in W[n + 1]
      PROVE  v \in Walk(doc) /\ Followed(doc, path, op, user, n + 1, v)
    <2>1. n + 1 \in 0 .. Len(path) /\ n + 1 # 0 /\ (n + 1) - 1 = n /\ n < Len(path)
        BY <1>3
    <2> DEFINE k == n + 1
    <2>2. v \in W[k] /\ k \in 0 .. Len(path) /\ k # 0 /\ W[k - 1] = W[n]
        BY <1>3, <2>1
    <2> HIDE DEF k
    <2>3. v \in Walk(doc) /\ W[k] = UNION {Steps(doc, op, user, w, path[k]) : w \in W[k - 1]}
        BY <1>1, <2>2
    <2>5. PICK w \in W[n] : v \in Steps(doc, op, user, w, path[k])
        BY <2>2, <2>3
    <2>4. w \in Walk(doc) /\ Followed(doc, path, op, user, n, w)
        BY <1>3, <2>1 DEF P
    <2> QED
        BY <2>1, <2>3, <2>4, <2>5, StepFollowed DEF k
<1>4. ASSUME NEW n \in Nat, \A m \in Nat : m < n => m \in P
      PROVE  n \in P
    <2>1. CASE n = 0
        BY <1>2, <2>1
    <2>2. CASE n # 0
        <3>1. n - 1 \in P /\ n - 1 \in Nat /\ (n - 1) + 1 = n
            BY <1>4, <2>2
        <3> QED
            BY <1>3, <3>1
    <2> QED
        BY <2>1, <2>2
<1> HIDE DEF P
<1>5. \A n \in Nat : n \in P
    BY <1>4, AllNumbers
<1>6. \A n \in 0 .. Len(path) : n \in Nat /\ n <= Len(path)
    OBVIOUS
<1> QED
    BY <1>5, <1>6 DEF P, W

-----------------------------------------------------------------------------
(* No rule that grants is missed, and without sibling wildcards there is one walk. *)

LEMMA InTree ==
    ASSUME NEW doc, IsTree(doc), NEW node \in DOMAIN doc
    PROVE  \A k \in 0 .. Len(node) : SubSeq(node, 1, k) \in DOMAIN doc
<1>1. PICK n \in Nat : n = Len(node)
    BY DEF IsTree
<1>2. node \in Seq(Text)
    BY DEF IsTree
<1> DEFINE P == {j \in Nat : j <= n => SubSeq(node, 1, n - j) \in DOMAIN doc}
<1>3. ASSUME NEW j \in Nat, \A m \in Nat : m < j => m \in P
      PROVE  j \in P
    <2>1. CASE j = 0
        <3>1. SubSeq(node, 1, n - 0) = node
            BY <1>1, <1>2
        <3> QED
            BY <2>1, <3>1
    <2>2. CASE j # 0 /\ j <= n
        <3> DEFINE s == SubSeq(node, 1, n - (j - 1))
                   t == SubSeq(node, 1, n - j)
        <3>1. s \in DOMAIN doc
            BY <1>3, <2>2
        <3>2. s # <<>> /\ Front(s) = t
            <4>1. s \in Seq(Text) /\ Len(s) = (n - j) + 1 /\ \A i \in 1 .. (n - j) + 1 : s[i] = node[i]
                BY <1>1, <1>2, <2>2
            <4>2. t \in Seq(Text) /\ Len(t) = n - j /\ \A i \in 1 .. n - j : t[i] = node[i]
                BY <1>1, <1>2, <2>2
            <4> HIDE DEF s, t
            <4>3. Front(s) = SubSeq(s, 1, n - j)
                BY <4>1, <2>2, <1>1 DEF Front
            <4>4. SubSeq(s, 1, n - j) = t
                BY <4>1, <4>2, <2>2
            <4>5. s # <<>>
                BY <4>1, <2>2
            <4> QED
                BY <4>3, <4>4, <4>5
        <3> HIDE DEF s
        <3>3. t \in DOMAIN doc
            BY <3>1, <3>2 DEF IsTree
        <3> QED
            BY <3>3
    <2> QED
        BY <2>1, <2>2
<1> HIDE DEF P
<1>4. \A j \in Nat : j \in P
    BY <1>3, AllNumbers
<1>5. ASSUME NEW k \in 0 .. n
      PROVE  SubSeq(node, 1, k) \in DOMAIN doc
    <2>1. n - k \in Nat /\ n - k <= n /\ n - (n - k) = k
        OBVIOUS
    <2> QED
        BY <1>4, <2>1 DEF P
<1> QED
    BY <1>1, <1>5

\* Where a walk has not ended above a node, it is under way to it.
Toward(node, k, w) == w.granted \/ (~ w.over /\ w.node = SubSeq(node, 1, k))

LEMMA StepToward ==
    ASSUME NEW doc, IsTree(doc), NEW path \in Seq(Text), NEW op, NEW user,
           NEW node \in DOMAIN doc, Matches(doc, node, path), NEW k \in Nat, k < Len(node),
           NEW w \in Walk(doc), Toward(node, k, w)
    PROVE  \E v \in Steps(doc, op, user, w, path[k + 1]) : Toward(node, k + 1, v)
<1>1. CASE w.granted
    <2>1. w \in Steps(doc, op, user, w, path[k + 1])
        BY <1>1 DEF Steps
    <2> QED
        BY <1>1, <2>1 DEF Toward
<1>2. CASE ~ w.granted
    <2> DEFINE t == SubSeq(node, 1, k)
               x == node[k + 1]
               seg == path[k + 1]
               c == SubSeq(node, 1, k + 1)
               b == IF x = seg THEN w.bound ELSE Bind(w.bound, x, seg)
    <2>1. ~ w.over /\ w.node = t
        BY <1>2 DEF Toward
    <2>2. node \in Seq(Text) /\ k + 1 \in DOMAIN node /\ k + 1 \in 1 .. Len(path)
        BY DEF IsTree, Matches
    <2>3. x \in Text /\ seg \in Text
        BY <2>2
    <2>4. Append(t, x) = c /\ (k + 1) - 1 = k
        BY <2>2
    <2>5. c \in DOMAIN doc
        BY <2>2, InTree
    <2>6. x = seg \/ (x \in Wild /\ Append(t, seg) \notin DOMAIN doc)
        <3>1. t \o <<seg>> = Append(t, seg)
            BY <2>2, <2>3
        <3>2. x = seg \/ (x \in Wild /\ SubSeq(node, 1, (k + 1) - 1) \o <<seg>> \notin DOMAIN doc)
            BY <2>2 DEF Matches
        <3> QED
            BY <2>4, <3>1, <3>2
    <2>7. x \in Children(doc, t, seg)
        BY <2>4, <2>5, <2>6 DEF Children
    <2> HIDE DEF t, x, seg, c
    <2>8. b \in Bindings
        BY <2>3, BindType DEF Walk
    <2> DEFINE v == Visit(doc, op, user, c, b)
    <2>9. v \in Steps(doc, op, user, w, seg)
        BY <1>2, <2>1, <2>4, <2>7 DEF Steps
    <2> HIDE DEF b
    <2>10. v = Visit(doc, op, user, c, b)
        OBVIOUS
    <2> HIDE DEF v
    <2>11. v.node = c /\ ~ v.over
        BY <2>5, <2>8, <2>10, VisitIs
    <2>12. Toward(node, k + 1, v)
        BY <2>11 DEF Toward, c
    <2> QED
        BY <2>9, <2>12 DEF seg
<1> QED
    BY <1>1, <1>2

\* The walks after n + 1 segments are the steps of those after n.
LEMMA NextWalks ==
    ASSUME NEW doc, IsTree(doc), NEW path \in Seq(Text), NEW op, NEW user,
           NEW n \in Nat, n < Len(path), NEW w \in Walks(doc, path, op, user)[n]
    PROVE  Steps(doc, op, user, w, path[n + 1]) \subseteq Walks(doc, path, op, user)[n + 1]
<1> DEFINE W == Walks(doc, path, op, user)
           k == n + 1
<1>1. \A m \in 0 .. Len(path) :
        W[m] = IF m = 0 THEN {Visit(doc, op, user, <<>>, Unbound)}
               ELSE UNION {Steps(doc, op, user, u, path[m]) : u \in W[m - 1]}
    BY WalksStep
<1> HIDE DEF W
<1>2. k \in 0 .. Len(path) /\ k # 0 /\ W[k - 1] = W[n]
    OBVIOUS
<1> HIDE DEF k
<1>3. W[k] = UNION {Steps(doc, op, user, u, path[k]) : u \in W[k - 1]}
    BY <1>1, <1>2
<1>4. Steps(doc, op, user, w, path[k]) \subseteq W[k]
    BY <1>2, <1>3 DEF W
<1> QED
    BY <1>4 DEF k, W

LEMMA SomeWalkToward ==
    ASSUME NEW doc, IsTree(doc), NEW path \in Seq(Text), NEW op, NEW user,
           NEW node \in DOMAIN doc, Matches(doc, node, path)
    PROVE  \A k \in Nat : k <= Len(node) =>
                \E w \in Walks(doc, path, op, user)[k] : Toward(node, k, w)
<1> DEFINE W == Walks(doc, path, op, user)
           P == {k \in Nat : k <= Len(node) => \E w \in W[k] : Toward(node, k, w)}
<1>1. Len(node) \in Nat /\ Len(path) \in Nat /\ Len(node) <= Len(path)
    BY DEF IsTree, Matches
<1>2. \A n \in 0 .. Len(path) : W[n] \subseteq Walk(doc)
    BY WalksStep
<1>3. 0 \in P
    <2> DEFINE root0 == <<>>
               v == Visit(doc, op, user, root0, Unbound)
    <2>1. 0 \in 0 .. Len(path)
        BY <1>1
    <2>2. v \in W[0]
        <3>1. \A n \in 0 .. Len(path) :
                W[n] = IF n = 0 THEN {Visit(doc, op, user, <<>>, Unbound)}
                       ELSE UNION {Steps(doc, op, user, u, path[n]) : u \in W[n - 1]}
            BY WalksStep
        <3> HIDE DEF W
        <3>2. W[0] = {Visit(doc, op, user, <<>>, Unbound)}
            BY <2>1, <3>1
        <3> QED
            BY <3>2
    <2>3. root0 \in DOMAIN doc
        BY DEF IsTree
    <2>7. root0 = SubSeq(node, 1, 0)
        BY DEF IsTree
    <2>4. v = Visit(doc, op, user, root0, Unbound)
        OBVIOUS
    <2> HIDE DEF v, root0
    <2>5. v.node = root0 /\ ~ v.over
        BY <2>3, <2>4, UnboundType, VisitIs
    <2>6. Toward(node, 0, v)
        BY <2>5, <2>7 DEF Toward
    <2> QED
        BY <2>2, <2>6
<1>4. ASSUME NEW k \in Nat, k \in P, k + 1 <= Len(node)
      PROVE  \E w \in W[k + 1] : Toward(node, k + 1, w)
    <2>1. k <= Len(node) /\ k < Len(node) /\ k < Len(path) /\ k \in 0 .. Len(path)
        BY <1>1, <1>4
    <2>2. PICK w \in W[k] : Toward(node, k, w)
        BY <1>4, <2>1
    <2> HIDE DEF W
    <2>3. w \in Walk(doc)
        BY <1>2, <2>1, <2>2
    <2>4. PICK v \in Steps(doc, op, user, w, path[k + 1]) : Toward(node, k + 1, v)
        BY <2>1, <2>2, <2>3, StepToward
    <2>5. Steps(doc, op, user, w, path[k + 1]) \subseteq W[k + 1]
        BY <2>1, <2>2, NextWalks DEF W
    <2> QED
        BY <2>4, <2>5
<1> HIDE DEF W
<1>5. ASSUME NEW k \in Nat, \A m \in Nat : m < k => m \in P
      PROVE  k \in P
    <2>1. CASE k = 0
        BY <1>3, <2>1
    <2>2. CASE k # 0
        <3>1. k - 1 \in P /\ k - 1 \in Nat /\ (k - 1) + 1 = k
            BY <1>5, <2>2
        <3> QED
            BY <1>4, <3>1
    <2> QED
        BY <2>1, <2>2
<1> HIDE DEF P
<1>6. \A k \in Nat : k \in P
    BY <1>5, AllNumbers
<1> QED
    BY <1>6 DEF P, W

\* What has granted is not taken back.
LEMMA GrantedStays ==
    ASSUME NEW doc, IsTree(doc), NEW path \in Seq(Text), NEW op, NEW user, NEW n \in Nat,
           NEW w \in Walks(doc, path, op, user)[n], w.granted
    PROVE  \A m \in Nat : n + m <= Len(path) => w \in Walks(doc, path, op, user)[n + m]
<1> DEFINE W == Walks(doc, path, op, user)
           P == {m \in Nat : n + m <= Len(path) => w \in W[n + m]}
<1>1. \A seg : w \in Steps(doc, op, user, w, seg)
    BY DEF Steps
<1>2. ASSUME NEW m \in Nat, m \in P, n + (m + 1) <= Len(path)
      PROVE  w \in W[n + (m + 1)]
    <2> DEFINE k == n + m
    <2>1. k \in Nat /\ k < Len(path) /\ n + (m + 1) = k + 1 /\ w \in W[k]
        BY <1>2
    <2> HIDE DEF k
    <2>2. Steps(doc, op, user, w, path[k + 1]) \subseteq W[k + 1]
        BY <2>1, NextWalks
    <2> QED
        BY <1>1, <2>1, <2>2
<1> HIDE DEF W
<1>3. ASSUME NEW m \in Nat, \A j \in Nat : j < m => j \in P
      PROVE  m \in P
    <2>1. CASE m = 0
        BY <2>1 DEF W
    <2>2. CASE m # 0
        <3>1. m - 1 \in P /\ m - 1 \in Nat /\ (m - 1) + 1 = m
            BY <1>3, <2>2
        <3> QED
            BY <1>2, <3>1
    <2> QED
        BY <2>1, <2>2
<1> HIDE DEF P
<1>4. \A m \in Nat : m \in P
    BY <1>3, AllNumbers
<1> QED
    BY <1>4 DEF P, W

LEMMA OneChild ==
    ASSUME NEW doc, IsTree(doc), Unambiguous(doc), NEW node \in DOMAIN doc, NEW seg \in Text,
           Children(doc, node, seg) # {}
    PROVE  \E x : Children(doc, node, seg) = {x}
<1>1. CASE Append(node, seg) \in DOMAIN doc
    BY <1>1 DEF Children
<1>2. CASE Append(node, seg) \notin DOMAIN doc
    <2>1. PICK x : x \in Children(doc, node, seg)
        OBVIOUS
    <2>2. \A y \in Children(doc, node, seg) : y \in Wild /\ Append(node, y) \in DOMAIN doc
        BY <1>2 DEF Children
    <2>3. node \in Seq(Text) /\ Wild \subseteq Text
        BY RulesConstants DEF IsTree
    <2>4. ASSUME NEW y \in Text
          PROVE  Append(node, y) # <<>> /\ Front(Append(node, y)) = node /\ Last(Append(node, y)) = y
        BY <2>3 DEF Front, Last
    <2>5. ASSUME NEW y \in Children(doc, node, seg)
          PROVE  y = x
        <3> DEFINE a == Append(node, x)
                   b == Append(node, y)
        <3>1. /\ a \in DOMAIN doc /\ a # <<>> /\ Front(a) = node /\ Last(a) = x /\ x \in Wild
              /\ b \in DOMAIN doc /\ b # <<>> /\ Front(b) = node /\ Last(b) = y /\ y \in Wild
            BY <2>1, <2>2, <2>3, <2>4
        <3> HIDE DEF a, b
        <3>2. a = b
            BY <3>1 DEF Unambiguous
        <3> QED
            BY <3>1, <3>2
    <2> QED
        BY <2>1, <2>5
<1> QED
    BY <1>1, <1>2

Singleton(S) == \E x : S = {x}

LEMMA OneWalk ==
    ASSUME NEW doc, IsTree(doc), Unambiguous(doc), NEW path \in Seq(Text), NEW op, NEW user
    PROVE  \A n \in 0 .. Len(path) : Singleton(Walks(doc, path, op, user)[n])
<1> DEFINE W == Walks(doc, path, op, user)
           P == {n \in Nat : n <= Len(path) => Singleton(W[n])}
<1>1. \A n \in 0 .. Len(path) :
        /\ W[n] \subseteq Walk(doc)
        /\ W[n] = IF n = 0 THEN {Visit(doc, op, user, <<>>, Unbound)}
                  ELSE UNION {Steps(doc, op, user, w, path[n]) : w \in W[n - 1]}
    BY WalksStep
<1> HIDE DEF W
<1>2. 0 \in P
    <2>1. 0 \in 0 .. Len(path)
        OBVIOUS
    <2>2. W[0] = {Visit(doc, op, user, <<>>, Unbound)}
        BY <1>1, <2>1
    <2> QED
        BY <2>2 DEF Singleton
<1>3. ASSUME NEW w \in Walk(doc), NEW seg \in Text
      PROVE  \E v : Steps(doc, op, user, w, seg) = {v}
    <2> DEFINE C == Children(doc, w.node, seg)
               V(x) == Visit(doc, op, user, Append(w.node, x),
                             IF x = seg THEN w.bound ELSE Bind(w.bound, x, seg))
    <2>1. Steps(doc, op, user, w, seg) =
            IF w.granted \/ w.over THEN {w}
            ELSE IF C = {} THEN {[w EXCEPT !.over = TRUE]} ELSE {V(x) : x \in C}
        BY DEF Steps
    <2>2. C # {} => \E x : C = {x}
        BY OneChild DEF Walk
    <2> HIDE DEF C, V
    <2>3. ASSUME NEW x, C = {x}
          PROVE  {V(y) : y \in C} = {V(x)}
        BY <2>3
    <2> QED
        BY <2>1, <2>2, <2>3
<1>4. ASSUME NEW n \in Nat, n \in P, n + 1 <= Len(path)
      PROVE  Singleton(W[n + 1])
    <2>1. n \in 0 .. Len(path)
        BY <1>4
    <2>2. PICK w : W[n] = {w}
        <3>1. Singleton(W[n])
            BY <1>4, <2>1
        <3> QED
            BY <3>1 DEF Singleton
    <2>3. w \in Walk(doc)
        BY <1>1, <2>1, <2>2
    <2> DEFINE k == n + 1
    <2>4. k \in 0 .. Len(path) /\ k # 0 /\ W[k - 1] = {w} /\ path[k] \in Text
        BY <1>4, <2>2
    <2> HIDE DEF k
    <2>5. W[k] = UNION {Steps(doc, op, user, u, path[k]) : u \in W[k - 1]}
        BY <1>1, <2>4
    <2>6. W[k] = Steps(doc, op, user, w, path[k])
        BY <2>4, <2>5
    <2>7. \E v : Steps(doc, op, user, w, path[k]) = {v}
        BY <1>3, <2>3, <2>4
    <2> QED
        BY <2>6, <2>7 DEF k, Singleton
<1>5. ASSUME NEW n \in Nat, \A m \in Nat : m < n => m \in P
      PROVE  n \in P
    <2>1. CASE n = 0
        BY <1>2, <2>1
    <2>2. CASE n # 0
        <3>1. n - 1 \in Nat /\ n - 1 < n /\ (n - 1) + 1 = n
            BY <2>2
        <3>2. n - 1 \in P
            BY <1>5, <3>1
        <3> QED
            BY <1>4, <3>1, <3>2
    <2> QED
        BY <2>1, <2>2
<1> HIDE DEF P
<1>6. \A n \in Nat : n \in P
    BY <1>5, AllNumbers
<1>7. \A n \in 0 .. Len(path) : n \in Nat /\ n <= Len(path)
    OBVIOUS
<1> QED
    BY <1>6, <1>7 DEF P, W

-----------------------------------------------------------------------------
(* A document is read as it is written. *)

\* A rule that grants is one that holds as the grammar reads it.
LEMMA GrantsAsWritten ==
    ASSUME NEW doc, IsTree(doc), Grammatical(doc), NEW node \in DOMAIN doc,
           NEW op \in {"read", "write"}, NEW user \in [uid : Text, email : Text],
           NEW bound \in Bindings
    PROVE  Grants(doc, op, user, node, bound) <=> Holds(Rule(doc, node, op), user, bound)
<1> DEFINE text == Rule(doc, node, op)
<1>1. text \in Seq(Token)
    BY DEF Rule, IsTree
<1>2. text # <<>> => IsExpr(text)
    BY DEF Rule, Grammatical, Texts
<1>3. Grants(doc, op, user, node, bound) <=> text # <<>> /\ EvalExpr(text, user, bound)
    BY DEF Grants
<1> HIDE DEF text
<1>4. CASE text = <<>>
    BY <1>3, <1>4, NoText DEF text
<1>5. CASE text # <<>>
    <2>1. Holds(text, user, bound) <=> EvalExpr(text, user, bound)
        BY <1>1, <1>2, <1>5, HoldsAsEvaluated
    <2> QED
        BY <1>3, <1>5, <2>1 DEF text
<1> QED
    BY <1>4, <1>5

LEMMA BindingType ==
    ASSUME NEW node \in Seq(Text), NEW path \in Seq(Text), Len(node) <= Len(path)
    PROVE  Binding(node, path) \in Bindings
<1>1. Binding(node, path) \in [Names(node, path) -> Text]
    BY BindingOf
<1>2. Names(node, path) \in SUBSET Text
    BY DEF Names, Places
<1> QED
    BY <1>1, <1>2 DEF Bindings

LEMMA CheckIsAllowed ==
    ASSUME NEW doc, IsTree(doc), Grammatical(doc), NEW path \in Seq(Text),
           NEW op \in {"read", "write"}, NEW user \in [uid : Text, email : Text]
    PROVE  TRUE \in check(doc, path, op, user) <=> Allowed(doc, path, op, user)
<1> DEFINE W == Walks(doc, path, op, user)
           n == Len(path)
<1>1. n \in Nat /\ n \in 0 .. n
    OBVIOUS
<1>2. TRUE \in check(doc, path, op, user) <=> \E w \in W[n] : w.granted = TRUE
    BY Zenon DEF check
<1>3. \A w \in W[n] : w \in Walk(doc) /\ Followed(doc, path, op, user, n, w)
    BY <1>1, AllFollowed
<1>4. \A w \in Walk(doc) : w.granted \in BOOLEAN /\ w.node \in DOMAIN doc /\ w.bound \in Bindings
    BY DEF Walk
<1>5. ASSUME NEW w \in W[n], w.granted
      PROVE  Allowed(doc, path, op, user)
    <2> DEFINE node == w.node
    <2>1. /\ node \in DOMAIN doc /\ Matches(doc, node, path) /\ w.bound = Binding(node, path)
          /\ w.bound \in Bindings
          /\ Grants(doc, op, user, node, w.bound)
        BY <1>3, <1>4, <1>5 DEF Followed
    <2> HIDE DEF node
    <2>2. Holds(Rule(doc, node, op), user, w.bound)
        BY <2>1, GrantsAsWritten
    <2> QED
        BY <2>1, <2>2 DEF Allowed
<1>6. ASSUME Allowed(doc, path, op, user)
      PROVE  \E w \in W[n] : w.granted
    <2>1. PICK node \in DOMAIN doc :
                Matches(doc, node, path) /\ Holds(Rule(doc, node, op), user, Binding(node, path))
        BY <1>6 DEF Allowed
    <2>2. node \in Seq(Text) /\ Len(node) <= Len(path)
        BY <2>1 DEF IsTree, Matches
    <2>3. Grants(doc, op, user, node, Binding(node, path))
        BY <2>1, <2>2, BindingType, GrantsAsWritten
    <2>4. PICK k \in Nat : k = Len(node)
        BY <2>2
    <2>5. k <= n /\ SubSeq(node, 1, k) = node
        BY <2>2, <2>4
    <2>6. PICK w \in W[k] : Toward(node, k, w)
        <3>1. \A j \in Nat : j <= Len(node) => \E w \in W[j] : Toward(node, j, w)
            BY <2>1, SomeWalkToward
        <3> QED
            BY <2>4, <3>1
    <2>7. w.granted
        <3>1. CASE ~ w.granted
            <4>1. w.node = node
                BY <2>5, <2>6, <3>1 DEF Toward
            <4>2. Followed(doc, path, op, user, k, w)
                BY <1>1, <2>5, AllFollowed
            <4> QED
                BY <2>3, <4>1, <4>2 DEF Followed
        <3> QED
            BY <3>1
    <2>8. w \in W[n]
        <3>1. n - k \in Nat /\ k + (n - k) = n /\ k + (n - k) <= Len(path)
            BY <1>1, <2>5
        <3> DEFINE m == n - k
        <3>2. m \in Nat /\ k + m = n /\ k + m <= Len(path)
            BY <3>1
        <3> HIDE DEF m
        <3>3. w \in W[k + m]
            BY <2>6, <2>7, <3>2, GrantedStays
        <3> QED
            BY <3>2, <3>3
    <2> QED
        BY <2>7, <2>8
<1> HIDE DEF W, n
<1> QED
    BY <1>2, <1>3, <1>4, <1>5, <1>6

LEMMA OneAnswer ==
    ASSUME NEW doc, IsTree(doc), Unambiguous(doc), NEW path \in Seq(Text), NEW op, NEW user
    PROVE  Cardinality(check(doc, path, op, user)) = 1
<1>1. PICK w : Walks(doc, path, op, user)[Len(path)] = {w}
    <2>1. Len(path) \in 0 .. Len(path)
        OBVIOUS
    <2>2. Singleton(Walks(doc, path, op, user)[Len(path)])
        BY <2>1, OneWalk
    <2> QED
        BY <2>2 DEF Singleton
<1>2. check(doc, path, op, user) = {w.granted}
    BY <1>1, Zenon DEF check
<1> QED
    BY <1>2, FS_Singleton

\* check is what a document says, whoever asks for whatever path: each rule that is an
\* expression is evaluated to what the grammar at the head of rules.go makes of it, and the
\* walk finds a rule that grants if there is one at the path or above it.
THEOREM DocumentsReadAsWritten == \A doc \in Doc : ReadAsWritten[doc]
<1> SUFFICES ASSUME NEW doc \in Doc, Grammatical(doc), NEW path \in Path,
                    NEW op \in {"read", "write"}, NEW user \in User,
                    NEW answers \in {check(doc, path, op, user)}
             PROVE  /\ TRUE \in answers <=> Allowed(doc, path, op, user)
                    /\ Unambiguous(doc) => Cardinality(answers) = 1
    BY DEF ReadAsWritten
<1>1. IsTree(doc) /\ path \in Seq(Text) /\ user \in [uid : Text, email : Text]
    BY RulesConstants
<1> QED
    BY <1>1, CheckIsAllowed, OneAnswer

-----------------------------------------------------------------------------
(* The store. *)

\* A process that is down has no call in progress.
DownInv == ~ up => Busy = {}

\* A call that runs alone is the only one, and the file is as it left it; with one that
\* does not, the history is astray.
AloneInv ==
    \A u \in Busy :
        IF u \in alone
        THEN /\ Busy = {u}
             /\ file = IF updater[u].step = "written" THEN updater[u].doc ELSE Empty
        ELSE astray

IInv == TypeOK /\ DownInv /\ AloneInv /\ LoneUpdatePersists

\* A call that has opened the file is in progress and holds a posted document.
LEMMA BusyCall ==
    ASSUME TypeOK, NEW u \in Updater, updater[u].step # "idle"
    PROVE  u \in Busy /\ updater[u] \in Call /\ updater[u].doc \in Doc
BY RuleStoreConstants DEF TypeOK, Busy, Idle, Call

\* A call that ends leaves the others as they are.
LEMMA EndKeepsOthers ==
    ASSUME TypeOK, NEW u \in Updater, updater' = [updater EXCEPT ![u] = Idle]
    PROVE  /\ Busy' = Busy \ {u}
           /\ \A v \in Updater \ {u} : updater'[v] = updater[v]
           /\ updater' \in [Updater -> {Idle} \cup Call]
BY DEF TypeOK, Busy, Idle

LEMMA InitHolds == Init => IInv
<1> SUFFICES ASSUME Init PROVE IInv
    OBVIOUS
<1>1. Busy = {}
    BY DEF Init, Busy, Idle
<1> QED
    BY <1>1 DEF Init, IInv, TypeOK, DownInv, AloneInv, LoneUpdatePersists

LEMMA StartKeeps == IInv /\ Start => IInv'
<1> SUFFICES ASSUME IInv, Start PROVE IInv'
    OBVIOUS
<1>1. Busy = {} /\ Busy' = {}
    BY DEF IInv, DownInv, Start, Busy
<1>2. TypeOK'
    BY <1>1, RuleStoreConstants DEF IInv, TypeOK, Start
<1>3. LoneUpdatePersists'
    BY <1>1 DEF Start, LoneUpdatePersists
<1> QED
    BY <1>1, <1>2, <1>3 DEF IInv, DownInv, AloneInv, Start

LEMMA CrashKeeps == IInv /\ Crash => IInv'
<1> SUFFICES ASSUME IInv, Crash PROVE IInv'
    OBVIOUS
<1>1. Busy' = {}
    BY DEF Crash, Busy, Idle
<1>2. TypeOK'
    BY <1>1 DEF IInv, TypeOK, Crash
<1> QED
    BY <1>1, <1>2 DEF IInv, DownInv, AloneInv, LoneUpdatePersists, Crash

LEMMA TruncateKeeps == ASSUME NEW u \in Updater PROVE IInv /\ Truncate(u) => IInv'
<1> SUFFICES ASSUME IInv, Truncate(u) PROVE IInv'
    OBVIOUS
<1>1. PICK doc \in Posted : updater' = [updater EXCEPT ![u] = [step |-> "opened", doc |-> doc]]
    BY DEF Truncate
<1>2. /\ updater'[u] = [step |-> "opened", doc |-> doc]
      /\ \A v \in Updater \ {u} : updater'[v] = updater[v]
    BY <1>1 DEF IInv, TypeOK
<1>3. Busy' = Busy \cup {u}
    BY <1>2 DEF Busy
<1>4. TypeOK'
    <2>1. updater'[u] \in Call
        BY <1>2 DEF Call
    <2> QED
        BY <1>1, <1>3, <2>1 DEF IInv, TypeOK, Truncate
<1>5. AloneInv'
    <2>1. CASE Busy = {}
        BY <1>2, <1>3, <2>1 DEF AloneInv, Truncate
    <2>2. CASE Busy # {}
        BY <2>2 DEF AloneInv, Truncate
    <2> QED
        BY <2>1, <2>2
<1> QED
    BY <1>3, <1>4, <1>5 DEF IInv, DownInv, LoneUpdatePersists, Truncate

LEMMA WriteFileKeeps == ASSUME NEW u \in Updater PROVE IInv /\ WriteFile(u) => IInv'
<1> SUFFICES ASSUME IInv, WriteFile(u) PROVE IInv'
    OBVIOUS
<1>1. u \in Busy /\ updater[u] \in Call /\ updater[u].doc \in Doc
    BY BusyCall DEF IInv, WriteFile
<1>2. /\ updater'[u] = [updater[u] EXCEPT !.step = "written"]
      /\ \A v \in Updater \ {u} : updater'[v] = updater[v]
    BY DEF IInv, TypeOK, WriteFile
<1>3. /\ updater'[u] \in Call /\ updater'[u].step = "written"
      /\ updater'[u].doc = updater[u].doc
    BY <1>1, <1>2 DEF Call
<1>4. Busy' = Busy
    BY <1>1, <1>2, <1>3 DEF Busy
<1>5. TypeOK'
    <2>1. file' \in Doc \cup {NoFile, Empty, Torn}
        BY <1>1 DEF WriteFile
    <2> QED
        BY <1>3, <1>4, <2>1 DEF IInv, TypeOK, WriteFile
<1>6. AloneInv'
    <2>1. CASE u \in alone
        <3>1. Busy = {u} /\ file = Empty
            BY <1>1, <2>1 DEF IInv, AloneInv, WriteFile
        <3> QED
            BY <1>3, <1>4, <2>1, <3>1 DEF AloneInv, WriteFile
    <2>2. CASE u \notin alone
        <3>1. astray /\ alone = {}
            BY <1>1, <2>2 DEF IInv, TypeOK, AloneInv
        <3> QED
            BY <3>1 DEF AloneInv, WriteFile
    <2> QED
        BY <2>1, <2>2
<1> QED
    BY <1>1, <1>4, <1>5, <1>6 DEF IInv, DownInv, LoneUpdatePersists, WriteFile

LEMMA WriteFailsKeeps == ASSUME NEW u \in Updater PROVE IInv /\ WriteFails(u) => IInv'
<1> SUFFICES ASSUME IInv, WriteFails(u) PROVE IInv'
    OBVIOUS
<1>1. /\ Busy' = Busy \ {u}
      /\ updater' \in [Updater -> {Idle} \cup Call]
    BY EndKeepsOthers DEF IInv, WriteFails
<1>2. u \in Busy /\ updater[u].doc \in Doc
    BY BusyCall DEF IInv, WriteFails
<1>3. TypeOK'
    BY <1>1, <1>2 DEF IInv, TypeOK, WriteFails
<1>4. AloneInv'
    <2>1. alone' = {}
        BY <1>2 DEF IInv, TypeOK, AloneInv, WriteFails
    <2> QED
        BY <2>1 DEF AloneInv, WriteFails
<1> QED
    BY <1>3, <1>4 DEF IInv, DownInv, LoneUpdatePersists, WriteFails

LEMMA InstallKeeps == ASSUME NEW u \in Updater PROVE IInv /\ Install(u) => IInv'
<1> SUFFICES ASSUME IInv, Install(u) PROVE IInv'
    OBVIOUS
<1>1. /\ Busy' = Busy \ {u}
      /\ updater' \in [Updater -> {Idle} \cup Call]
    BY EndKeepsOthers DEF IInv, Install
<1>2. u \in Busy /\ updater[u].doc \in Doc
    BY BusyCall DEF IInv, Install
<1>3. TypeOK'
    BY <1>1, <1>2 DEF IInv, TypeOK, Install
<1>4. AloneInv' /\ LoneUpdatePersists'
    <2>1. CASE u \in alone
        <3>1. Busy' = {} /\ file = updater[u].doc
            BY <1>1, <1>2, <2>1 DEF IInv, AloneInv, Install
        <3> QED
            BY <1>2, <3>1, RuleStoreConstants DEF AloneInv, LoneUpdatePersists, Install
    <2>2. CASE u \notin alone
        <3>1. astray' /\ alone' = {}
            BY <1>2, <2>2 DEF IInv, TypeOK, AloneInv, Install
        <3> QED
            BY <3>1 DEF AloneInv, LoneUpdatePersists
    <2> QED
        BY <2>1, <2>2
<1> QED
    BY <1>3, <1>4 DEF IInv, DownInv, Install

LEMMA StutterKeeps == IInv /\ UNCHANGED vars => IInv'
BY DEF IInv, vars, TypeOK, DownInv, AloneInv, LoneUpdatePersists, Busy

-----------------------------------------------------------------------------
\* The invariant holds of every behaviour of the rules' file and the document in force.
THEOREM Invariance == Spec => []IInv
<1>1. IInv /\ [Next]_vars => IInv'
    BY StartKeeps, CrashKeeps, TruncateKeeps, WriteFileKeeps, WriteFailsKeeps, InstallKeeps,
       StutterKeeps DEF Next
<1> QED
    BY InitHolds, <1>1, PTL DEF Spec

\* A running process always has a document in force, and only one that parsed.
THEOREM TypeCorrect == Spec => []TypeOK
<1>1. IInv => TypeOK
    BY DEF IInv
<1> QED
    BY Invariance, <1>1, PTL

\* With no update in progress a restart brings back the document in force, unless the
\* last updates failed or ran side by side: what Update (rules.go:138-161) promises.
THEOREM Persistence == Spec => []LoneUpdatePersists
<1>1. IInv => LoneUpdatePersists
    BY DEF IInv
<1> QED
    BY Invariance, <1>1, PTL

\* The document in force grants what its rules, as the grammar reads them, allow, and
\* answers the same each time unless two wildcards are siblings: CanRead and CanWrite
\* (rules.go:163-213), for every document, path, user and rule text.
THEOREM RulesDecide == Spec => []CheckMeansRules
<1>1. TypeOK => CheckMeansRules
    BY DocumentsReadAsWritten DEF TypeOK, CheckMeansRules
<1> QED
    BY TypeCorrect, <1>1, PTL

=============================================================================
