----------------------------- MODULE MC_SyliGC -----------------------------
(***************************************************************************)
(* Small heaps for SyliGC.  A cell's name says what objects it holds:      *)
(*   m, n  mutable records of a cyclic type (MonoRef and MixedOrder): the  *)
(*         candidates of the registry;                                     *)
(*   i     an immutable record of a cyclic type (MixedBitmap);             *)
(*   p, q  mutable records of acyclic types, p with fields of q's type;    *)
(*   l     a MonoImm leaf (a boxed scalar);                                *)
(*   c     a closure without captures: MonoImm, cyclic and traceable, but*)
(*         no candidate.                                                 *)
(***************************************************************************)
EXTENDS SyliHeap

CONSTANTS Cells, SelfLoops

MCObject == Cells
MCLayout == [o \in Object |-> CASE o \in {"l", "c"} -> "MonoImm"
                                [] o = "i" -> "MixedBitmap"
                                [] o \in {"n", "q"} -> "MixedOrder"
                                [] OTHER -> "MonoRef"]
MCRefs == [o \in Object |-> IF Layout[o] = "MonoImm" THEN {} ELSE Field]
MCLength == [o \in Object |-> Cardinality(Refs[o]) + (IF Layout[o] = "MonoRef" THEN 0 ELSE 1)]
MCCyclic == Object \cap {"m", "n", "i", "c"}
MCCyclicMutable == Object \cap {"m", "n"}
MCMutable == Object \ {"i", "l", "c"}
MCMayPoint == [o \in Object |->
    Object \cap (CASE o \in {"l", "c"} -> {}
                   [] o = "q" -> {"l"}
                   [] o = "p" -> {"q", "l"}
                   [] OTHER -> {"m", "n", "i", "l", "c"} \ (IF SelfLoops THEN {} ELSE {o}))]

\* The part of the state space before the first object the program still holds
\* is torn down, or is left unmarked by a trace: afterwards the counts, or the
\* marks of the next generation, mean nothing.
Intact == RcExact /\ LostIsUnreachable /\ IdleAllMarked

\* Every closure the program frees raises the account by one for good: the bound
\* leaves room for the first.
DriftBounded == Excess <= 1

\* The program keeps calling syli_rt_gc_cycle (the compiler puts a call before
\* every object creation), and a call runs to its end.
Fairness == /\ WF_vars(GcCycle)
            /\ WF_vars(ReleasingMachine \/ TracingMachine)
FairSpec == Spec /\ Fairness
=============================================================================
