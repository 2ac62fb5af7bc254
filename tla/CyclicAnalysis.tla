--------------------------- MODULE CyclicAnalysis ---------------------------
(***************************************************************************)
(* The cyclic analysis of the type declarations                            *)
(* (compiler/middle_end/pass_cyclic_analysis.ml, helpers/                  *)
(* cyclic_components.ml, helpers/graph.ml) and the rule for tuples and     *)
(* arrays (type_lowering.ml).                                              *)
(*                                                                         *)
(* D maps the names of a program's types to their declarations:            *)
(*   [def |-> "record", fields |-> s], [def |-> "alias", ty |-> t], and    *)
(*   [def |-> "variant", ctors |-> c], where c maps tags to fields;        *)
(* a field is [ty, mut] and a type one of                                  *)
(*   Const(shift), String, Arrow, Array(t), Tuple(s), Defined(name).       *)
(***************************************************************************)
EXTENDS Integers, Sequences, SequencesExt, FiniteSets, FiniteSetsExt

Const(shift)  == [k |-> "const", shift |-> shift]
String        == [k |-> "string"]
Arrow         == [k |-> "arrow"]
Array(t)      == [k |-> "array", elem |-> t]
Tuple(ts)     == [k |-> "tuple", elems |-> ts]
Defined(name) == [k |-> "defined", name |-> name]

type_node(n)      == <<"type", n>>
record_node(n)    == <<"record", n>>
ctor_node(n, tag) == <<"ctor", n, tag>>
array_node(t)     == <<"array", t>>

Edge(src, target, mutable) == [src |-> src, target |-> target, mutable |-> mutable]

\* add_refs: the edges from src to the nodes that type t refers to.  The edge to
\* an array takes the mutability of the field, that to its element is immutable.
RECURSIVE AddRefs(_, _, _, _, _)
AddRefs(D, visited, src, mutable, t) ==
    CASE t.k \in {"const", "string", "arrow"} -> {}
      [] t.k = "tuple" ->
            UNION {AddRefs(D, visited, src, mutable, u) : u \in ToSet(t.elems)}
      [] t.k = "array" ->
            {Edge(src, array_node(t.elem), mutable)}
            \cup AddRefs(D, visited, array_node(t.elem), FALSE, t.elem)
      [] OTHER ->
            IF t.name \in visited THEN {}
            ELSE IF D[t.name].def = "alias"
                 THEN AddRefs(D, visited \cup {t.name}, src, mutable, D[t.name].ty)
                 ELSE {Edge(src, type_node(t.name), mutable)}

\* add_body_edges
BodyEdges(D, src, fields) ==
    UNION {AddRefs(D, {}, src, f.mut, f.ty) : f \in ToSet(fields)}

\* add_decl and build_ctx: the edges, and the nodes.
DeclEdges(D, n) ==
    CASE D[n].def = "record" ->
            {Edge(type_node(n), record_node(n), FALSE)}
            \cup BodyEdges(D, record_node(n), D[n].fields)
      [] D[n].def = "variant" ->
            UNION {{Edge(type_node(n), ctor_node(n, tag), FALSE)}
                   \cup BodyEdges(D, ctor_node(n, tag), D[n].ctors[tag])
                   : tag \in DOMAIN D[n].ctors}
      [] OTHER -> {}

Edges(D) == UNION {DeclEdges(D, n) : n \in DOMAIN D}
Nodes(D) == {type_node(n) : n \in DOMAIN D}
            \cup UNION {{e.src, e.target} : e \in Edges(D)}

Successors(E, v)   == {e.target : e \in {f \in E : f.src = v}}
Predecessors(E, v) == {e.src : e \in {f \in E : f.target = v}}

-----------------------------------------------------------------------------
\* dfs_finish_order: a node comes before the nodes finished before it.
RECURSIVE Dfs(_, _, _)
Dfs(E, v, acc) ==
    IF v \in acc.visited THEN acc
    ELSE LET below == FoldSet(LAMBDA w, a : Dfs(E, w, a),
                              [acc EXCEPT !.visited = @ \cup {v}], Successors(E, v))
         IN  [below EXCEPT !.order = <<v>> \o @]

FinishOrder(V, E) ==
    FoldSet(LAMBDA v, a : Dfs(E, v, a), [visited |-> {}, order |-> <<>>], V).order

\* dfs_collect on the reversed graph.
RECURSIVE DfsCollect(_, _, _)
DfsCollect(E, v, acc) ==
    IF v \in acc.visited THEN acc
    ELSE FoldSet(LAMBDA w, a : DfsCollect(E, w, a),
                 [acc EXCEPT !.visited = @ \cup {v}, !.comp = @ \cup {v}],
                 Predecessors(E, v))

\* Mutant of CollectOrder: the second pass goes through the nodes in the order
\* they finish.
CollectOrderForward(V, E) == Reverse(FinishOrder(V, E))
CollectOrder(V, E) == FinishOrder(V, E)

\* kosaraju_scc
Components(V, E) ==
    FoldLeft(LAMBDA a, v :
                IF v \in a.visited THEN a
                ELSE LET b == DfsCollect(E, v, [visited |-> a.visited, comp |-> {}])
                     IN  [visited |-> b.visited, comps |-> a.comps \cup {b.comp}],
             [visited |-> {}, comps |-> {}], CollectOrder(V, E)).comps

\* cyclic_components
CyclicComponents(V, E) ==
    {c \in Components(V, E) : Cardinality(c) > 1 \/ \E v \in c : v \in Successors(E, v)}

-----------------------------------------------------------------------------
\* The nodes from which a node of S is reached: reachable_from in classify.
RECURSIVE ReachableFrom(_, _)
ReachableFrom(E, S) ==
    LET more == S \cup UNION {Predecessors(E, v) : v \in S}
    IN  IF more = S THEN S ELSE ReachableFrom(E, more)

\* Mutants of HasMut and ReachesCyclic: only an edge from a node to itself makes
\* a component cyclic; a node is trackable if it refers directly to a cyclic one.
HasMutSelf(E, comp) == \E e \in E : e.mutable /\ e.src \in comp /\ e.target = e.src

HasMut(E, comp) == \E e \in E : e.mutable /\ e.src \in comp /\ e.target \in comp
ReachesCyclic(E, cyclic) == ReachableFrom(E, cyclic)

\* classify
Classify(D) ==
    LET E == Edges(D)
        V == Nodes(D)
        cyclic == UNION {c \in CyclicComponents(V, E) : HasMut(E, c)}
        reaches == ReachesCyclic(E, cyclic)
    IN  [v \in V |->
            CASE v \in cyclic /\ (\E e \in E : e.mutable /\ e.src = v) ->
                    "Mutable_cyclic_trackable"
              [] v \in cyclic /\ ~(\E e \in E : e.mutable /\ e.src = v) ->
                    "Immutable_cyclic_trackable"
              [] v \in reaches \ cyclic -> "Acyclic_trackable"
              [] OTHER -> "Acyclic"]

lookup(props, v) == IF v \in DOMAIN props THEN props[v] ELSE "Unknown_cyclic_prop"

-----------------------------------------------------------------------------
\* An all-constant variant is lowered to an integer.
IsInteger(D, n) == D[n].def = "variant" /\ \A tag \in DOMAIN D[n].ctors : D[n].ctors[tag] = <<>>

\* is_acyclic_ir of the type mk_ir_ty makes of t, where no variant is being
\* expanded.
RECURSIVE IsAcyclicIr(_, _, _)
IsAcyclicIr(D, props, t) ==
    CASE t.k \in {"const", "string"} -> TRUE
      [] t.k = "arrow" -> FALSE
      [] t.k = "tuple" -> \A u \in ToSet(t.elems) : IsAcyclicIr(D, props, u)
      [] t.k = "array" -> IsAcyclicIr(D, props, t.elem)
      [] OTHER ->
            CASE D[t.name].def = "alias"  -> IsAcyclicIr(D, props, D[t.name].ty)
              [] D[t.name].def = "record" -> lookup(props, record_node(t.name)) = "Acyclic"
              [] OTHER -> \/ IsInteger(D, t.name)
                          \/ lookup(props, type_node(t.name)) = "Acyclic"

\* The property of an anonymous tuple or array.
AnonymousProp(D, props, t) ==
    IF IsAcyclicIr(D, props, t) THEN "Acyclic" ELSE "Unknown_cyclic_prop"

=============================================================================
