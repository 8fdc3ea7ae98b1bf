------------------------------ MODULE RuleExpr ------------------------------
(***************************************************************************)
(* rules.go, the evaluator: a recursive-descent parser that computes the   *)
(* value of a rule while it reads the tokens.  A token has a kind and, for *)
(* identifiers and strings, a text; tokenize is left out, with the         *)
(* characters it skips.                                                    *)
(*                                                                         *)
(* p stands for the evalParser: the tokens, the user who asks and the      *)
(* wildcards bound.  Each method is an operator that starts at a position  *)
(* and returns a value and the position of the next token.  They call each *)
(* other; a call that starts at a later token is an argument of the        *)
(* function P, which Parser defines as what the methods return.            *)
(***************************************************************************)
EXTENDS Naturals, Sequences

CONSTANT Text       \* the strings that names, segments and literals are made of

ASSUME TextAssumption == {"", "__auth__"} \subseteq Text

\* Values: null, a boolean or a string.
Value == [kind : {"null", "bool", "str"}, b : BOOLEAN, s : Text]
Null == [kind |-> "null", b |-> FALSE, s |-> ""]
Bool(x) == [kind |-> "bool", b |-> x, s |-> ""]
Str(x) == [kind |-> "str", b |-> FALSE, s |-> x]
Truthy(v) == v.b \/ (v.kind = "str" /\ v.s # "")

\* A token without a text, an identifier, a string.
Token == [kind : {"ident", "string", ".", "==", "!=", "&&", "||", "!", "(", ")"}, val : Text]
Sym(k) == [kind |-> k, val |-> ""]
Ident(x) == [kind |-> "ident", val |-> x]
Quoted(x) == [kind |-> "string", val |-> x]

\* The user of a request is a record [uid, email]; this is no user.
Anonymous == [uid |-> "", email |-> ""]

\* What an identifier stands for with the first of its fields, Null if it has none.
resolve(p, name, field) ==
    CASE name \in {"true", "false"} -> Bool(name = "true")
      [] name = "auth" /\ p.user # Anonymous ->
            IF field = Null THEN Str("__auth__")
            ELSE IF field.s \in {"uid", "email"} THEN Str(p.user[field.s]) ELSE Null
      [] name \in DOMAIN p.vars \ {"true", "false", "null", "auth"} -> Str(p.vars[name])
      [] OTHER -> Null

peek(p, i) == IF i > Len(p.toks) THEN "eof" ELSE p.toks[i].kind

At(v, i) == [v |-> v, pos |-> i]

\* The fields that follow an identifier, v the first of those read so far; a dot that no
\* identifier follows is skipped.
Fields(P, p, i, v) ==
    IF peek(p, i) # "." THEN At(v, i)
    ELSE IF peek(p, i + 1) = "ident"
         THEN P[<<".", i + 2, IF v = Null THEN Str(p.toks[i + 1].val) ELSE v>>]
         ELSE P[<<".", i + 1, v>>]

parsePrimary(P, p, i) ==
    CASE peek(p, i) = "(" ->
            LET r == P[<<"or", i + 1, Null>>]
            IN  IF peek(p, r.pos) = ")" THEN At(r.v, r.pos + 1) ELSE r
      [] peek(p, i) = "string" -> At(Str(p.toks[i].val), i + 1)
      [] peek(p, i) = "ident" ->
            LET f == Fields(P, p, i + 1, Null)
            IN  At(resolve(p, p.toks[i].val, f.v), f.pos)
      [] peek(p, i) = "eof" -> At(Null, i)
      [] OTHER -> At(Null, i + 1)

parseUnary(P, p, i) ==
    IF peek(p, i) = "!"
    THEN LET r == P[<<"unary", i + 1, Null>>] IN At(Bool(~ Truthy(r.v)), r.pos)
    ELSE parsePrimary(P, p, i)

parseCmp(P, p, i) ==
    LET l  == parseUnary(P, p, i)
        op == peek(p, l.pos)
        r  == P[<<"unary", l.pos + 1, Null>>]
    IN  IF op \in {"==", "!="} THEN At(Bool((l.v = r.v) <=> (op = "==")), r.pos) ELSE l

\* The loops of parseAnd and parseOr, v the value so far.
AndRest(P, p, i, v) ==
    IF peek(p, i) # "&&" THEN At(v, i)
    ELSE LET r == parseCmp(P, p, i + 1)
         IN  P[<<"&&", r.pos, Bool(Truthy(v) /\ Truthy(r.v))>>]

parseAnd(P, p, i) == LET l == parseCmp(P, p, i) IN AndRest(P, p, l.pos, l.v)

\* Mutant: && and || have the same precedence.
OrRestFlat(P, p, i, v) ==
    IF peek(p, i) # "||" THEN At(v, i)
    ELSE LET r == parseCmp(P, p, i + 1)
             m == AndRest(P, p, r.pos, Bool(Truthy(v) \/ Truthy(r.v)))
         IN  P[<<"||", m.pos, m.v>>]

OrRest(P, p, i, v) ==
    IF peek(p, i) # "||" THEN At(v, i)
    ELSE LET r == parseAnd(P, p, i + 1)
         IN  P[<<"||", r.pos, Bool(Truthy(v) \/ Truthy(r.v))>>]

parseOr(P, p, i) == LET l == parseAnd(P, p, i) IN OrRest(P, p, l.pos, l.v)

\* The calls: a method or a loop, where it starts and the value so far.
ParseCall == {"or", "unary", "&&", "||", "."} \X (Nat \ {0}) \X Value

Return(P, p, c) ==
    CASE c[1] = "or"    -> parseOr(P, p, c[2])
      [] c[1] = "unary" -> parseUnary(P, p, c[2])
      [] c[1] = "&&"    -> AndRest(P, p, c[2], c[3])
      [] c[1] = "||"    -> OrRest(P, p, c[2], c[3])
      [] c[1] = "."     -> Fields(P, p, c[2], c[3])

Parser(p) == LET P[c \in ParseCall] == Return(P, p, c) IN P

\* What is left of the tokens after the first expression is not looked at.
EvalExpr(toks, user, vars) ==
    LET p == [toks |-> toks, user |-> user, vars |-> vars]
    IN  Truthy(Parser(p)[<<"or", 1, Null>>].v)

-----------------------------------------------------------------------------
(***************************************************************************)
(* The grammar at the head of rules.go, as the reference: the values that  *)
(* the sequence s has as a phrase of each kind, one for each way to derive *)
(* it, none when s is not such a phrase.  M has those of shorter phrases.  *)
(***************************************************************************)
Apply(op, l, r) ==
    Bool(CASE op = "||" -> Truthy(l) \/ Truthy(r)
           [] op = "&&" -> Truthy(l) /\ Truthy(r)
           [] op = "==" -> l = r
           [] op = "!=" -> l # r)

\* An identifier with its fields.
IsAccess(s) ==
    /\ s[1].kind = "ident" /\ s[Len(s)].kind = "ident"
    /\ \A i \in 1 .. Len(s) - 1 : {s[i].kind, s[i + 1].kind} = {"ident", "."}

Infix(M, s, ops, g, h) ==
    UNION {{Apply(s[k].kind, l, r) : l \in M[<<g, SubSeq(s, 1, k - 1)>>],
                                     r \in M[<<h, SubSeq(s, k + 1, Len(s))>>]}
           : k \in {i \in DOMAIN s : s[i].kind \in ops}}

Unary(M, p, s) ==
    CASE s = <<>> -> {}
      [] s # <<>> /\ s[1].kind = "!" ->
            {Bool(~ Truthy(v)) : v \in M[<<"unary", SubSeq(s, 2, Len(s))>>]}
      [] s # <<>> /\ s[1].kind = "(" /\ s[Len(s)].kind = ")" ->
            M[<<"or", SubSeq(s, 2, Len(s) - 1)>>]
      [] Len(s) = 1 /\ s[1].kind = "string" -> {Str(s[1].val)}
      [] s # <<>> /\ IsAccess(s) ->
            {resolve(p, s[1].val, IF Len(s) = 1 THEN Null ELSE Str(s[3].val))}
      [] OTHER -> {}

Cmp(M, p, s) == Unary(M, p, s) \cup Infix(M, s, {"==", "!="}, "unary", "unary")
And(M, p, s) == Cmp(M, p, s) \cup Infix(M, s, {"&&"}, "and", "cmp")
Or(M, p, s) == And(M, p, s) \cup Infix(M, s, {"||"}, "or", "and")

Phrase == {"or", "and", "cmp", "unary"} \X Seq(Token)

Meanings(M, p, x) ==
    CASE x[1] = "or"    -> Or(M, p, x[2])
      [] x[1] = "and"   -> And(M, p, x[2])
      [] x[1] = "cmp"   -> Cmp(M, p, x[2])
      [] x[1] = "unary" -> Unary(M, p, x[2])

Grammar(p) == LET M[x \in Phrase] == Meanings(M, p, x) IN M

\* The values of s as an expression.
Values(s, user, vars) == Grammar([toks |-> s, user |-> user, vars |-> vars])[<<"or", s>>]

\* s is an expression of the grammar.
IsExpr(s) == Values(s, Anonymous, [x \in {} |-> ""]) # {}

\* s is one, and it grants.
Holds(s, user, vars) == \E v \in Values(s, user, vars) : Truthy(v)

=============================================================================
