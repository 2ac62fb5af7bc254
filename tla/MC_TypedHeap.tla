---------------------------- MODULE MC_TypedHeap ----------------------------
(***************************************************************************)
(* The programs for TypedHeap, one for each way that types may be          *)
(* recursive or headers may be full.                                       *)
(***************************************************************************)
EXTENDS TypedHeap, TLC

Field(t) == [ty |-> t, mut |-> FALSE]
MutField(t) == [ty |-> t, mut |-> TRUE]
Record(fields) == [def |-> "record", fields |-> fields]
Variant(ctors) == [def |-> "variant", ctors |-> ctors]
Alias(t) == [def |-> "alias", ty |-> t]
\* A variant with a constant constructor and one with arguments.
Option(fields) == Variant((0 :> <<>>) @@ (1 :> fields))

\* n fields of 8 bits, and strings at the positions S.
Wide(n, S) == Record([i \in 1 .. n |-> Field(IF i \in S THEN String ELSE Const(0))])

MCDeclarations ==
    { \* the example of pass_cyclic_analysis.ml, and a type further away
      ("node" :> Option(<<MutField(Defined("node"))>>))
        @@ ("wrapper" :> Record(<<Field(Defined("node"))>>))
        @@ ("outer" :> Record(<<Field(Const(0)), Field(Defined("wrapper"))>>)),
      \* immutable recursion
      ("list" :> Option(<<Field(Const(3)), Field(Defined("list"))>>)),
      \* recursion through two types, one of them immutable
      ("a" :> Option(<<MutField(Defined("b"))>>))
        @@ ("b" :> Record(<<Field(Defined("a")), Field(Const(0))>>)),
      \* two components, one above the other
      ("low" :> Option(<<Field(Const(2)), MutField(Defined("low"))>>))
        @@ ("high" :> Option(<<MutField(Defined("low")), Field(Defined("high"))>>)),
      \* through an alias
      ("cell" :> Option(<<MutField(Defined("link"))>>)) @@ ("link" :> Alias(Defined("cell"))),
      \* arrays, in an immutable and in a mutable field
      ("t" :> Option(<<Field(Array(Defined("t")))>>)),
      ("u" :> Option(<<MutField(Array(Defined("u")))>>)),
      \* tuples
      ("p" :> Option(<<MutField(Tuple(<<Defined("p"), Const(3)>>))>>)),
      \* functions
      ("pair" :> Record(<<MutField(Arrow), Field(Const(3))>>)),
      ("node" :> Option(<<MutField(Defined("node"))>>))
        @@ ("holder" :> Record(<<MutField(Arrow)>>)),
      \* an enumeration, and headers at their limits
      ("color" :> Variant((0 :> <<>>) @@ (1 :> <<>>)))
        @@ ("r1" :> Record(<<Field(Const(0)), Field(Const(2)), Field(Defined("color"))>>))
        @@ ("r2" :> Record(<<Field(Const(0)), Field(Const(1))>>))
        @@ ("r3" :> Record(<<Field(Array(Const(1))), Field(Const(0))>>))
        @@ ("byte" :> Alias(Const(0))) @@ ("r4" :> Record(<<Field(Defined("byte"))>>)),
      ("w26" :> Wide(27, {27})) @@ ("w27" :> Wide(28, {28})) @@ ("w31" :> Wide(31, {2}))
        @@ ("w32" :> Wide(32, {2})) @@ ("w40" :> Wide(40, {1, 2})) @@ ("w70" :> Wide(70, {})),
      ("v" :> Variant((0 :> <<>>) @@ (255 :> <<Field(Const(3))>>)
                      @@ (256 :> <<Field(Const(3))>>) @@ (257 :> <<Field(Const(0))>>)))
    }

=============================================================================
