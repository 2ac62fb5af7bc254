--------------------------- MODULE MC_StackRoots ---------------------------
(***************************************************************************)
(* Small sections and stacks for StackRoots: one or two functions with one *)
(* or two calls, in either order of addresses; records with one to three   *)
(* locations and up to two live-outs, so that each padding is needed and   *)
(* not; stacks of up to two frames, some without a record.                 *)
(***************************************************************************)
EXTENDS StackRoots

MCObject == {"a", "b"}

Shapes == {<<"Indirect">>, <<"Constant", "Indirect">>, <<"Register", "Direct", "Indirect">>}

\* A section of records with the given shapes and l live-outs each, the last one
\* in a function of its own if there are two addresses.
Placed(version, addrs, shapes, l) ==
    LET n == Len(shapes)
        at[k \in 1 .. n] ==
            IF k = 1 THEN HeaderBytes + FunctionBytes * Len(addrs) + 8
            ELSE at[k - 1] + EmittedBytes([locations |-> shapes[k - 1], liveouts |-> l])
    IN  [version |-> version, num_constants |-> 1,
         functions |-> IF Len(addrs) = 1
                       THEN <<[addr |-> addrs[1], num_records |-> n, first |-> 1]>>
                       ELSE <<[addr |-> addrs[1], num_records |-> n - 1, first |-> 1],
                              [addr |-> addrs[2], num_records |-> 1, first |-> n]>>,
         records |-> [k \in 1 .. n |->
                        [at |-> at[k], instr_offset |-> k, locations |-> shapes[k],
                         liveouts |-> l]]]

MCSection ==
    {[version |-> 0, num_constants |-> 0, functions |-> <<>>, records |-> <<>>],
     Placed(2, <<10>>, <<<<"Indirect">>>>, 0)}
      \cup {Placed(3, <<10>>, <<s, t>>, l) : s \in Shapes, t \in Shapes, l \in 0 .. 2}
      \cup {Placed(3, addrs, <<s, <<"Indirect">>, s>>, 1) :
              addrs \in {<<10, 20>>, <<20, 10>>}, s \in Shapes}

\* The return addresses of the calls above, and one of a function without
\* records (the runtime's own frames).
Address == {11, 12, 13, 21, 22, 23, 5, NoIp}

OwnA == [tag |-> "Own", obj |-> "a"]
OwnB == [tag |-> "Own", obj |-> "b"]
Frames ==
    {[ip |-> a, regs |-> TRUE, words |-> <<OwnA, OwnB, OwnA>>] : a \in Address}
      \cup {[ip |-> 12, regs |-> FALSE, words |-> <<OwnA, OwnA, OwnB>>],
            [ip |-> 11, regs |-> TRUE,
             words |-> <<[tag |-> "Borrow", obj |-> "a"], Zero, OwnB>>],
            [ip |-> 12, regs |-> TRUE,
             words |-> <<[tag |-> "Immediate", obj |-> "a"],
                         [tag |-> "AlwaysBorrow", obj |-> "a"], OwnB>>]}

MCStack == {<<f>> : f \in Frames} \cup {<<f, g>> : f \in Frames, g \in {h \in Frames : h.ip = 11}}

=============================================================================
