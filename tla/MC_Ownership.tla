---------------------------- MODULE MC_Ownership ----------------------------
(***************************************************************************)
(* Small functions for Ownership, of the shapes lower_core_to_cir.ml emits: *)
(* a conditional with a merge block, one whose second branch is a match    *)
(* failure, and a loop.  p is a parameter, a a local that is defined       *)
(* first, r the result of the branches.                                    *)
(***************************************************************************)
EXTENDS Ownership

S(op, dst, args) == <<[op |-> op, dst |-> dst, args |-> args]>>
Code(op, dsts, argss) == {S(op, d, as) : d \in dsts, as \in argss}
One(vs) == {<<v>> : v \in vs}
Two(vs) == {<<v, w>> : v, w \in vs}

First(ps) == Code("create", {"a"}, {<<>>}) \cup Code("get", {"a"}, One(ps))
             \cup Code("call", {"a"}, One(ps))

Then(vs) == {<<>>} \cup Code("create", {"r"}, {<<>>}) \cup Code("get", {"r"}, One(vs))
            \cup Code("call", {"r"}, One(vs) \cup Two(vs)) \cup Code("move", {"r"}, One(vs))
            \cup Code("set", {NoVar}, Two(vs)) \cup Code("narrow", {NoVar}, One(vs))

Else(vs) == {<<>>} \cup Code("create", {"r"}, {<<>>}) \cup Code("move", {"r"}, One(vs))
            \cup Code("call", {NoVar}, One(vs))

Final(vs) == {<<>>}
    \cup Code("set", {NoVar}, Two(vs) \ {<<v, v>> : v \in vs})
    \cup Code("call", {NoVar}, {<<"p", "a">>})

Def(ss) == UNION {RefDef(ss[i]) : i \in DOMAIN ss}

Jump(bs) == [kind |-> "branch", targets |-> bs, var |-> NoVar]
Ret(v)   == [kind |-> "return", targets |-> {}, var |-> v]
Fail     == [kind |-> "match_failure", targets |-> {}, var |-> NoVar]

Function(ps, ss, ts) == [params |-> ps, stmts |-> ss, term |-> ts]

Conditionals(ps) ==
    UNION {UNION {UNION {
        LET vs == ps \cup {"a"} \cup (Def(s2) \cap Def(s3))
        IN  {Function(ps, <<s1, s2, s3, s4>>, <<Jump({2, 3}), Jump({4}), Jump({4}), Ret(v)>>) :
                s4 \in Final(vs), v \in vs \cup {NoVar}}
      : s3 \in Else(ps \cup {"a"})} : s2 \in Then(ps \cup {"a"})} : s1 \in First(ps)}

Matches(ps) ==
    UNION {UNION {
        LET vs == ps \cup {"a"} \cup Def(s2)
        IN  {Function(ps, <<s1, s2, <<>>, s4>>, <<Jump({2, 3}), Jump({4}), Fail, Ret(v)>>) :
                s4 \in Final(vs), v \in vs \cup {NoVar}}
      : s2 \in Then(ps \cup {"a"})} : s1 \in First(ps)}

\* Every turn of the loop may leave an object that nobody uses, until there are no
\* more: the bound on what leaks.
Body(vs) == {<<>>} \cup Code("set", {NoVar}, Two(vs)) \cup Code("narrow", {NoVar}, One(vs))
            \cup Code("create", {"r"}, {<<>>})
            \cup {s \o t : s \in Code("call", {"r"}, {<<>>} \cup One(vs))
                                \cup Code("get", {"r"}, One(vs)),
                           t \in Code("set", {NoVar}, {<<v, "r">> : v \in vs})}

Loops(ps) ==
    UNION {UNION {
        LET vs == ps \cup {"a"}
        IN  {Function(ps, <<s1, <<>>, s3, s4>>, <<Jump({2}), Jump({3, 4}), Jump({2}), Ret(v)>>) :
                s4 \in Final(vs), v \in vs \cup {NoVar}}
      : s3 \in Body(ps \cup {"a"})} : s1 \in First(ps)}

\* The initialiser of a global.
Initialisers ==
    {Function({}, <<s1, <<>>, <<>>, s4 \o s5>>, <<Jump({4}), Fail, Fail, Ret(NoVar)>>) :
        s1 \in First({}), s4 \in Code("store_global", {NoVar}, {<<"a">>}),
        s5 \in {<<>>} \cup Code("set", {NoVar}, Two({"a"}))}

MCVar == {"p", "a", "r"}
MCBlock == 1 .. 4
MCFunctions == Conditionals({"p"}) \cup Matches({"p"}) \cup Loops({"p"}) \cup Initialisers
MCObject == {"x", "y", "z", "w", "u"}
MCParamObject == [v \in Var |-> CASE v = "p" -> "x" [] v = "a" -> "y" [] OTHER -> "z"]
=============================================================================
