------------------------------- MODULE MCRules -------------------------------
(***************************************************************************)
(* Rules for TLC.  A file may hold, when the process first starts, one     *)
(* rule at the root: any sequence of up to two tokens, three with true at  *)
(* an end, and the longer ones in which precedence, association and        *)
(* brackets count.  Two calls post documents with several nodes.           *)
(***************************************************************************)
EXTENDS Rules

CONSTANTS u1, u2

MCUpdater == {u1, u2}
MCText == STRING
MCWild == {"$x", "$y"}
MCPath == {<<>>, <<"a">>, <<"b">>, <<"a", "b">>, <<"b", "a">>, <<"b", "b">>, <<"b", "a", "b">>, <<"$x">>, <<"$x", "b">>}
MCUser == {Anonymous, [uid |-> "a", email |-> "m"], [uid |-> "b", email |-> "n"]}

true == Ident("true")
null == Ident("null")
auth == Ident("auth")
uid == <<auth, Sym("."), Ident("uid")>>

Word == {true, null, Quoted("a")} \cup {Sym(k) : k \in {"!", "==", "&&", "||", ".", "(", ")"}}
Short == {<<x>> : x \in Word} \cup {<<x, y>> : x, y \in Word}
            \cup {<<true, x, y>> : x, y \in Word} \cup {<<x, y, true>> : x, y \in Word}

Atom == {true, null}
Op == {Sym("=="), Sym("||"), Sym("&&")}
Long ==
    LET l == Sym("(") r == Sym(")") n == Sym("!")
    IN  UNION {{<<x, o, y, p, z>>, <<x, o, l, y, p, z, r>>, <<n, x, o, y, p, z>>}
               : x \in Atom, y \in Atom, z \in Atom, o \in Op, p \in Op}

Alone(text) == [node \in {<<>>} |-> [read |-> text, write |-> <<>>]]

MCDefault == [node \in {<<>>} |-> [read |-> <<auth, Sym("!="), null>>,
                                   write |-> <<auth, Sym("!="), null>>]]

\* Two levels of wildcards and a node that takes precedence over one of them.
Owned ==
    <<>> :> [read |-> <<>>, write |-> <<>>]
    @@ <<"a">> :> [read |-> <<auth>>, write |-> <<>>]
    @@ <<"$x">> :> [read |-> <<>>, write |-> uid \o <<Sym("=="), Ident("$x")>>]
    @@ <<"$x", "$y">> :> [read |-> uid \o <<Sym("=="), Ident("$y"), Sym("&&"), Ident("$x"),
                                            Sym("!="), Ident("$y")>>,
                          write |-> <<>>]
    @@ <<"a", "b">> :> [read |-> <<true>>, write |-> <<Ident("$x")>>]

\* Two wildcards under one parent.
Siblings ==
    <<>> :> [read |-> <<Quoted("")>>, write |-> <<Sym("!"), auth>>]
    @@ <<"$x">> :> [read |-> uid \o <<Sym("=="), Ident("$x")>>, write |-> <<>>]
    @@ <<"$y">> :> [read |-> <<>>, write |-> <<Ident("$y")>>]
    @@ <<"$y", "a">> :> [read |-> <<Ident("$y"), Sym("!="), Ident("$x")>>, write |-> <<>>]

MCPosted == {Owned, Siblings}
MCDoc == {Alone(text) : text \in Short \cup Long} \cup MCPosted \cup {MCDefault}

=============================================================================
