----------------------------- MODULE TypedHeap ------------------------------
(***************************************************************************)
(* From type declarations to objects: the compiler analyses the            *)
(* declarations and gives every kind of object its header, the program     *)
(* creates objects and assigns their fields, and the runtime relies on     *)
(* what the headers say.  SyliGC takes that for granted of its headers     *)
(* (HeaderAssumption there).                                               *)
(*                                                                         *)
(* Only references are kept of what an object holds, and the well-typed    *)
(* ones of them: the programs are those that type inference accepts.       *)
(***************************************************************************)
EXTENDS CyclicAnalysis, ObjectHeader

CONSTANTS
    Declarations,   \* the programs considered, by their type declarations
    ArrayLength,    \* the lengths of the arrays they create
    MaxObjects,     \* bound: the objects they create
    MaxCaptures     \* bound: the references a closure captures

VARIABLES
    D,          \* the type declarations
    props,      \* the result of the analysis; the empty function before it
    class,      \* class[o]: what object o was created as
    header,     \* header[o]: its header word
    bytes,      \* bytes[o]: the size of its allocation
    value       \* value[o][i]: the object its i-th field refers to, 0 for none

vars == <<D, props, class, header, bytes, value>>

Object == 1 .. Len(class)
Null == 0

\* A captured variable of a closure is of any type.
Captured == [k |-> "captured"]

-----------------------------------------------------------------------------
\* The object types that occur in type t.
RECURSIVE Aggregates(_)
Aggregates(t) ==
    CASE t.k = "tuple" -> {t} \cup UNION {Aggregates(u) : u \in ToSet(t.elems)}
      [] t.k = "array" -> {t} \cup Aggregates(t.elem)
      [] OTHER -> {}

DeclaredFields(n) ==
    CASE D[n].def = "record" -> ToSet(D[n].fields)
      [] D[n].def = "variant" -> UNION {ToSet(D[n].ctors[tag]) : tag \in DOMAIN D[n].ctors}
      [] OTHER -> {[ty |-> D[n].ty, mut |-> FALSE]}

AggregateTypes == UNION {Aggregates(f.ty) : f \in UNION {DeclaredFields(n) : n \in DOMAIN D}}

\* The kinds of objects a program creates.  A constructor without arguments is
\* an immediate, no object.
Classes ==
    {[k |-> "record", name |-> n] : n \in {m \in DOMAIN D : D[m].def = "record"}}
    \cup UNION {{[k |-> "ctor", name |-> n, tag |-> tag]
                  : tag \in {u \in DOMAIN D[n].ctors : D[n].ctors[u] # <<>>}}
                : n \in {m \in DOMAIN D : D[m].def = "variant"}}
    \cup {[k |-> "tuple", ty |-> t] : t \in {u \in AggregateTypes : u.k = "tuple"}}
    \cup [k : {"array"}, ty : {u \in AggregateTypes : u.k = "array"}, len : ArrayLength]
    \cup {[k |-> "closure", captures |-> n] : n \in 0 .. MaxCaptures}

\* The fields of an object, with their types and mutability: the elements of an
\* array can always be assigned, and a closure has its function first.
FieldsOf(c) ==
    LET Immutable(t) == [ty |-> t, mut |-> FALSE]
    IN  CASE c.k = "record" -> D[c.name].fields
          [] c.k = "ctor"   -> D[c.name].ctors[c.tag]
          [] c.k = "tuple"  -> [i \in DOMAIN c.ty.elems |-> Immutable(c.ty.elems[i])]
          [] c.k = "array"  -> [i \in 1 .. c.len |-> [ty |-> c.ty.elem, mut |-> TRUE]]
          [] OTHER -> [i \in 1 .. c.captures + 1 |->
                          Immutable(IF i = 1 THEN Const(3) ELSE Captured)]

\* mk_ir_ty looks through aliases.
RECURSIVE Unalias(_)
Unalias(t) ==
    IF t.k = "defined" /\ D[t.name].def = "alias" THEN Unalias(D[t.name].ty) ELSE t

\* is_reference_ty and cell_shift_of_ir_type of the lowered type.
IsReference(t) ==
    LET u == Unalias(t) IN u.k # "const" /\ ~(u.k = "defined" /\ IsInteger(D, u.name))

CellShift(t) == LET u == Unalias(t) IN IF u.k = "const" THEN u.shift ELSE 3

Cells(fields) ==
    [i \in DOMAIN fields |-> [ref |-> IsReference(fields[i].ty), shift |-> CellShift(fields[i].ty)]]

\* The property lower_core_to_cir.ml and lower_cir_to_oir.ml give an object.
PropOf(c) ==
    CASE c.k = "record" -> lookup(props, record_node(c.name))
      [] c.k = "ctor"   -> lookup(props, ctor_node(c.name, c.tag))
      [] c.k \in {"tuple", "array"} -> AnonymousProp(D, props, c.ty)
      [] OTHER -> "Unknown_cyclic_prop"

TagOf(c) == IF c.k = "ctor" THEN c.tag ELSE 0

HeaderOf(c) ==
    IF c.k = "array"
    THEN HeaderOfArray(Cells(<<[ty |-> c.ty.elem, mut |-> TRUE]>>)[1], c.len, PropOf(c))
    ELSE HeaderOfFields(Cells(FieldsOf(c)), TagOf(c), PropOf(c))

\* A field of type t may hold x: an object of that type, or Null for what is not
\* an object of the heap, a constant constructor or a string.
Fits(t, x) ==
    LET u == Unalias(t)
    IN  IF x = Null
        THEN \/ u.k = "string"
             \/ /\ u.k = "defined" /\ D[u.name].def = "variant"
                /\ \E tag \in DOMAIN D[u.name].ctors : D[u.name].ctors[tag] = <<>>
        ELSE CASE u.k = "captured" -> TRUE
               [] u.k = "arrow" -> class[x].k = "closure"
               [] u.k \in {"tuple", "array"} -> class[x].k = u.k /\ class[x].ty = u
               [] u.k = "defined" -> class[x].k \in {"record", "ctor"} /\ class[x].name = u.name
               [] OTHER -> FALSE

RefPositions(fields) == {i \in DOMAIN fields : IsReference(fields[i].ty)}

-----------------------------------------------------------------------------
Init ==
    /\ D \in Declarations
    /\ props = <<>>
    /\ class = <<>> /\ header = <<>> /\ bytes = <<>> /\ value = <<>>

\* Pass_cyclic_analysis.analyze
Analyze ==
    /\ props = <<>>
    /\ props' = Classify(D)
    /\ UNCHANGED <<D, class, header, bytes, value>>

\* OR_Object_create: the header and the length given to the runtime, and the
\* stores that initialise the fields.
Create(c) ==
    /\ props # <<>>
    /\ Len(class) < MaxObjects
    /\ \E v \in [RefPositions(FieldsOf(c)) -> Object \cup {Null}] :
          /\ \A i \in DOMAIN v : Fits(FieldsOf(c)[i].ty, v[i])
          /\ value' = Append(value, v)
    /\ class' = Append(class, c)
    /\ header' = Append(header, HeaderOf(c))
    /\ bytes' = Append(bytes, AllocatedBytes(HeaderOf(c), Len(FieldsOf(c))))
    /\ UNCHANGED <<D, props>>

\* OR_Object_set on a mutable field or an array element.
SetField(o, i, x) ==
    /\ i \in DOMAIN value[o]
    /\ FieldsOf(class[o])[i].mut
    /\ Fits(FieldsOf(class[o])[i].ty, x)
    /\ value' = [value EXCEPT ![o][i] = x]
    /\ UNCHANGED <<D, props, class, header, bytes>>

Next ==
    \/ Analyze
    \/ \E c \in Classes : Create(c)
    \/ \E o \in Object : \E i \in DOMAIN value[o], x \in Object \cup {Null} : SetField(o, i, x)

Spec == Init /\ [][Next]_vars

-----------------------------------------------------------------------------
(***************************************************************************)
(* Properties                                                              *)
(***************************************************************************)

\* What a header can say: the payload of a bitmap has 5 bits for the length and
\* 27 for the references, the constructor has 8.  (The limits of the other
\* payloads, 2^16 fields and 2^32 elements, are out of the bounds considered.)
HeaderHasRoom(c) ==
    LET cells == Cells(FieldsOf(c))
    IN  /\ TagOf(c) < 256
        /\ c.k # "array" /\ ObjectTypeOf(cells) = Type_MixedBitmap =>
              Len(cells) < 32 /\ RefIndexes(cells) \subseteq 0 .. 26

\* Compiler and runtime agree on the layout of an object if, and only if, its
\* header has room: its length, its tag, its flags, the cells that hold
\* references; the bytes accounted for are the bytes allocated, and the index of
\* a candidate is written inside the allocation, whatever the width of the cells.
\* The compiler does not test that there is room.
LayoutExact ==
    \A o \in Object :
        LET h == header[o]
            c == class[o]
            cells == Cells(FieldsOf(c))
        IN  HeaderHasRoom(c) <=>
                /\ syli_object_is_local(h)
                /\ syli_object_length(h) = Len(cells)
                /\ ReferenceCells(h) = RefIndexes(cells)
                /\ syli_object_get_variant_tag(h) = TagOf(c)
                /\ syli_object_has_pointers(h) =
                      IF c.k = "array" THEN IsReference(c.ty.elem) ELSE RefIndexes(cells) # {}
                /\ syli_object_is_traceable(h) = (PropOf(c) # "Acyclic")
                /\ syli_object_total_bytes(h) = bytes[o]
                /\ syli_object_is_cyclic_mutable(h) =>
                      CandidateIndexAt(h) + 8 <= bytes[o]

Refers(o, x) == \E i \in DOMAIN value[o] : value[o][i] = x


\* Whoever closes a cycle is a candidate: if an object's mutable field refers to
\* an object from which it is reached again, through objects and arrays, the
\* object is registered for the collector.  Two things close cycles that no
\* candidate is on: an assignment to an array element, whatever the comment in
\* pass_cyclic_analysis.ml says of components without a mutable edge, and a
\* closure, whose captured variables the analysis does not look at.
CycleClosersAreCandidates ==
    LET refs == {Edge(p[1], p[2], FALSE) : p \in {q \in Object \X Object :
                    class[q[1]].k # "closure" /\ Refers(q[1], q[2])}}
    IN  \A o \in Object : \A i \in DOMAIN value[o] :
            /\ class[o].k # "array" /\ FieldsOf(class[o])[i].mut
            /\ value[o][i] \in ReachableFrom(refs, {o})
            => syli_object_is_cyclic_mutable(header[o])

\* The components of the type graph are the sets of nodes that reach each other,
\* in whatever order the two searches go through the nodes.
ComponentsExact ==
    LET E == Edges(D)
        V == Nodes(D)
    IN  props # <<>> /\ class = <<>> =>
            Components(V, E) = {{w \in V : /\ w \in ReachableFrom(E, {v})
                                           /\ v \in ReachableFrom(E, {w})} : v \in V}

=============================================================================
