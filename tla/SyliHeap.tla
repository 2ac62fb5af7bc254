------------------------------ MODULE SyliHeap ------------------------------
(***************************************************************************)
(* SyliGC seen as a heap: the memory manager implements HeapSpec, with its *)
(* own cells, fields and slots as the abstract ones.                       *)
(***************************************************************************)
EXTENDS SyliGC

Heap == INSTANCE HeapSpec

\* The memory manager implements the abstract heap: no reachable object is ever
\* freed, and the collectors never change a field the program can read.
ImplementsHeap == Heap!Spec

\* What either collector treats as garbage is garbage: an object whose children
\* are released or that is queued to be freed cannot be reached by the program.
LostIsUnreachable ==
    (children_released \cup waiting_remove \cup ToSet(lost_cycle_worklist)
        \cup ToSet(releasing_worklist) \cup ToSet(releasing_waitlist))
      \cap Heap!Reachable = {}

MarkedIn(S) == \A o \in S \cap Traceable : Marked(o)

\* Marking misses only what a field read hid from it.  When a trace that was
\* interleaved with the program turns to the candidates, everything reachable
\* is marked, provided that what the program's variables hold is: the roots are
\* read once, and a read moves an unmarked object to the stack without a barrier.
MarkingComplete ==
    [][tracing_state # tracing_state'
         /\ tracing_state' = "Reclaiming_Cyclic_Candidates"
         /\ MarkedIn(Ref \cap {slot[s] : s \in Slot})
          => MarkedIn(Heap!Reachable)]_vars

\* A trace marks every reachable object, also those the barrier does not see.  This
\* is for programs that read no field between the slices (QuietProgramsSafe): what
\* they store anywhere was a root, or is new.
EverythingMarked ==
    [][tracing_state # tracing_state' /\ tracing_state' = "Reclaiming_Cyclic_Candidates"
          => \A o \in Heap!Reachable : Marked(o)]_vars

\* While the lost cycles are reclaimed between the program's own steps, an object
\* the program can reach is torn down only if marking missed one.
LostOnlyIfMissed ==
    [][LostIsUnreachable /\ RcExact
         /\ (tracing_state = "Reclaiming_Cyclic_Candidates" => MarkedIn(Heap!Reachable))
          => LostIsUnreachable']_vars

\* A trace that was not interleaved with the program leaves no garbage: when the
\* reclaiming phase ends, every allocated object is reachable.
EndOfReclaiming ==
    tracing_state = "Reclaiming_Cyclic_Candidates" /\ tracing_state' = "Tracing_Idle"

NoGarbageAfterTrace == [][EndOfReclaiming => alive \subseteq Heap!Reachable]_vars

=============================================================================
