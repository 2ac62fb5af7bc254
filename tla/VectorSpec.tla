----------------------------- MODULE VectorSpec -----------------------------
(***************************************************************************)
(* What a vector promises its callers: a sequence that grows and shrinks   *)
(* at its end and whose entries can be replaced in place.                  *)
(***************************************************************************)
EXTENDS Naturals, SequencesExt

CONSTANT Value

VARIABLE seq

Init == seq = <<>>

PushBack(v) == seq' = Append(seq, v)

PopBack == seq # <<>> /\ seq' = Front(seq)

Replace(i, v) == i \in 1 .. Len(seq) /\ seq' = [seq EXCEPT ![i] = v]

Clear == seq' = <<>>

Next ==
    \/ \E v \in Value : PushBack(v)
    \/ PopBack
    \/ \E i \in 1 .. Len(seq), v \in Value : Replace(i, v)
    \/ Clear

Spec == Init /\ [][Next]_seq

=============================================================================
