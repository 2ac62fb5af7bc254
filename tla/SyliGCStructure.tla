--------------------------- MODULE SyliGCStructure ---------------------------
(***************************************************************************)
(* Proofs that the variables of SyliGC keep their types and that the       *)
(* worklists, the flags and the candidate registry stay consistent, for    *)
(* every heap, budget and threshold.                                       *)
(***************************************************************************)
EXTENDS SyliGC, BasicLemmas, FiniteSetTheorems

-----------------------------------------------------------------------------
(***************************************************************************)
(* Types                                                                   *)
(***************************************************************************)
\* Where the walks over children and roots stand: outside a walk nothing is
\* left to visit, a root to push holds a reference, and the loops that use the
\* visited object after their last child have one.
WalkOK ==
    /\ pc \in {"mutator", "releasing", "tracing"} => walk_obj = Null /\ walk_todo = {}
    /\ pc = "roots" => /\ walk_obj = Null
                       /\ \A s \in walk_todo : s \in Slot /\ slot[s] # Null
    /\ pc \in {"release_children", "scan_children", "lost_children"} => walk_obj # Null
    /\ pc \in {"trace_children", "mutation_children"} /\ walk_todo # {} => walk_obj # Null

\* TypeOK is not inductive by itself: an object is pushed on a worklist only if
\* the visited field really holds a reference, which WalkOK and the guard
\* NoDangling of every action provide.
TypeInv == TypeOK /\ WalkOK

\* The objects a pop can return are objects, and what is left is a worklist.
LEMMA PopObject ==
    ASSUME NEW s \in Seq(Object), s # <<>>
    PROVE  Front(s) \in Seq(Object) /\ Last(s) \in Object
  BY PopProperties

\* While a child is visited it is an allocated object.
LEMMA ChildIsObject ==
    ASSUME TypeInv, NoDangling, NEW f \in walk_todo,
           pc \in WalkPCs \ {"roots"}
    PROVE  walk_obj \in Object /\ value[walk_obj][f] \in Object
  BY HeapAssumption DEF TypeInv, TypeOK, WalkOK, NoDangling, WalkPCs, Ref

\* The cost of a visit is a number.
LEMMA CostType ==
    ASSUME NEW o \in Object
    PROVE  VisitCost(o) \in Int /\ MutationCost(o) \in Int
<1>1. Refs[o] \subseteq Field /\ IsFiniteSet(Field)
  BY HeaderAssumption, HeapAssumption
<1>2. Cardinality(Refs[o]) \in Nat
  BY <1>1, FS_Subset, FS_CardinalityType
<1>3. Length[o] \in Nat
  BY HeaderAssumption
<1>4. VisitCost(o) \in Int
  BY <1>2, <1>3 DEF VisitCost
<1> QED BY <1>4 DEF MutationCost

\* Dropping a reference keeps the types.
LEMMA DecrType ==
    ASSUME TypeOK, NEW o \in Ref
    PROVE  /\ AliveAfterDecr(o) \subseteq Object
           /\ MarkAfterDecr(o) \in [Object -> {0, 1}]
           /\ WaitlistAfterDecr(o) \in Seq(Object)
<1>1. AliveAfterDecr(o) \subseteq Object /\ MarkAfterDecr(o) \in [Object -> {0, 1}]
  BY DEF TypeOK, AliveAfterDecr, MarkAfterDecr
<1>2. ReachesZero(o) => o \in Object
  BY DEF ReachesZero, Ref
<1>3. WaitlistAfterDecr(o) \in Seq(Object)
  BY <1>2, AppendSet DEF TypeOK, WaitlistAfterDecr
<1> QED BY <1>1, <1>3

\* Freeing an object keeps the types.
LEMMA FreeCellType ==
    ASSUME TypeOK, NEW o \in Object, FreeCell(o)
    PROVE  /\ alive' \subseteq Object
           /\ value' \in [Object -> [Field -> Ref]]
           /\ mark' \in [Object -> {0, 1}]
           /\ children_released' \subseteq Object
           /\ waiting_remove' \subseteq Object
  BY DEF TypeOK, FreeCell, NoFields, Ref

\* free_released_object keeps the types.
LEMMA FreeReleasedType ==
    ASSUME TypeOK, NEW o \in Object, FreeReleasedObject(o)
    PROVE  /\ alive' \subseteq Object
           /\ value' \in [Object -> [Field -> Ref]]
           /\ mark' \in [Object -> {0, 1}]
           /\ children_released' \subseteq Object
           /\ waiting_remove' \subseteq Object
           /\ candidate_flag' \subseteq Object
           /\ cyclic_candidates' \in Seq(Object)
           /\ candidate_index' \in [Object -> Nat]
           /\ cyclic_obj' \in Int
<1>1. cyclic_candidates' \in Seq(Object) /\ candidate_index' \in [Object -> Nat]
  <2>1. CASE o \in candidate_flag
    <3>1. candidate_index[o] \in Nat /\ cyclic_candidates \in Seq(Object)
      BY DEF TypeOK
    <3>2. RemoveCandidateAt(candidate_index[o])
      BY <2>1 DEF FreeReleasedObject
    <3>3. cyclic_candidates' = SwapRemove(cyclic_candidates, candidate_index[o])
      BY <3>2 DEF RemoveCandidateAt, SwapRemove
    <3>4. cyclic_candidates' \in Seq(Object)
      BY <3>1, <3>3, SwapRemoveType
    <3>5. candidate_index' \in [Object -> Nat]
      BY <3>1, <3>2 DEF RemoveCandidateAt, TypeOK
    <3> QED BY <3>4, <3>5
  <2>2. CASE o \notin candidate_flag
    BY <2>2 DEF FreeReleasedObject, registry, TypeOK
  <2> QED BY <2>1, <2>2
<1>2. CASE DeferFree(o)
  BY <1>1, <1>2 DEF FreeReleasedObject, TypeOK
<1>3. CASE ~DeferFree(o)
  BY <1>1, <1>3, FreeCellType, SMTT(20) DEF FreeReleasedObject, CyclicObjAfterFree, TypeOK
<1> QED BY <1>2, <1>3

-----------------------------------------------------------------------------
(***************************************************************************)
(* Type correctness                                                        *)
(***************************************************************************)

\* The actions of the program keep the types.
LEMMA MutatorType ==
    ASSUME TypeInv, Mutator
    PROVE  TypeInv'
<1> USE DEF header_vars, flag_vars, registry, trace_lists, release_lists,
           state_vars, budgets, account, control, At
<1>0. Stack \subseteq Slot /\ Global \subseteq Slot /\ Null \notin Object
  BY HeapAssumption DEF Stack
<1>1. ASSUME NEW s \in Stack, NEW o \in Object, Alloc(s, o)
      PROVE  TypeInv'
  <2>1. value' \in [Object -> [Field -> Ref]]
    BY <1>1 DEF TypeInv, TypeOK, Alloc, NoFields, Ref
  <2>2. /\ alive' \subseteq Object
        /\ rc' \in [Object -> Int]
        /\ mark' \in [Object -> {0, 1}]
        /\ slot' \in [Slot -> Ref]
    BY <1>0, <1>1 DEF TypeInv, TypeOK, Alloc, BirthMark, Ref
  <2>3. /\ cyclic_candidates' \in Seq(Object)
        /\ candidate_index' \in [Object -> Nat]
        /\ candidate_flag' \subseteq Object
    <3>1. cyclic_candidates \in Seq(Object) /\ Len(cyclic_candidates) + 1 \in Nat
      BY LenProperties DEF TypeInv, TypeOK
    <3>2. Append(cyclic_candidates, o) \in Seq(Object)
      BY <3>1, AppendSet
    <3> QED BY <1>1, <3>1, <3>2 DEF TypeInv, TypeOK, Alloc
  <2>4. cyclic_obj' \in Int /\ alloc_since_trace' \in BOOLEAN
    <3>1. CASE o \in Cyclic
      BY <1>1, <3>1 DEF TypeInv, TypeOK, Alloc
    <3>2. CASE o \notin Cyclic
      BY <1>1, <3>2 DEF TypeInv, TypeOK, Alloc
    <3> QED BY <3>1, <3>2
  <2>5. WalkOK'
    BY <1>1 DEF TypeInv, WalkOK, Alloc
  <2> QED BY <1>1, <2>1, <2>2, <2>3, <2>4, <2>5 DEF TypeInv, TypeOK, Alloc
<1>2. ASSUME NEW s \in Stack, Release(s)
      PROVE  TypeInv'
  <2>1. slot[s] \in Object
    BY <1>0, <1>2 DEF TypeInv, TypeOK, Release, Ref
  <2>2. /\ alive' \subseteq Object
        /\ mark' \in [Object -> {0, 1}]
        /\ releasing_waitlist' \in Seq(Object)
    BY <1>2, <2>1, DecrType DEF TypeInv, Release, Ref
  <2>3. rc' \in [Object -> Int] /\ slot' \in [Slot -> Ref]
    BY <1>0, <1>2, <2>1 DEF TypeInv, TypeOK, Release, Ref
  <2>4. WalkOK'
    BY <1>2 DEF TypeInv, WalkOK, Release
  <2> QED BY <1>2, <2>2, <2>3, <2>4 DEF TypeInv, TypeOK, Release
<1>3. ASSUME NEW s \in Slot, NEW t \in Stack, Share(s, t)
      PROVE  TypeInv'
  BY <1>0, <1>3 DEF TypeInv, TypeOK, WalkOK, Share, Ref
<1>4. ASSUME NEW s \in Slot, NEW t \in Stack, NEW f \in Field, Load(s, f, t)
      PROVE  TypeInv'
  <2>1. value[slot[s]][f] \in Object
    BY <1>4 DEF TypeInv, TypeOK, Load, OwnFields, Ref
  <2> QED BY <1>0, <1>4, <2>1 DEF TypeInv, TypeOK, WalkOK, Load, Ref
<1>5. ASSUME NEW s \in Slot, NEW f \in Field, NEW v \in Ref, NEW ref \in Slot,
             NEW live \in BOOLEAN, NEW owned \in BOOLEAN,
             Assign(s, f, v, ref, live, owned)
      PROVE  TypeInv'
  <2>1. slot[s] \in Object /\ value[slot[s]][f] \in Ref
    BY <1>5 DEF TypeInv, TypeOK, Assign, Ref
  <2>2. MarkAfterDecr(value[slot[s]][f]) \in [Object -> {0, 1}]
    BY <2>1, DecrType DEF TypeInv
  <2>3. mark' \in [Object -> {0, 1}] /\ tracing_mutations_worklist' \in Seq(Object)
    BY <1>5, <2>2, AppendSet DEF TypeInv, TypeOK, Assign, Ref
  <2>4. alive' \subseteq Object /\ releasing_waitlist' \in Seq(Object)
    BY <1>5, <2>1, DecrType DEF TypeInv, Assign
  <2>5. rc' \in [Object -> Int]
    BY <1>5 DEF TypeInv, TypeOK, Assign, CountAfterSet
  <2>6. value' \in [Object -> [Field -> Ref]] /\ slot' \in [Slot -> Ref]
    BY <1>5, <2>1 DEF TypeInv, TypeOK, Assign, Ref
  <2> QED BY <1>5, <2>3, <2>4, <2>5, <2>6 DEF TypeInv, TypeOK, WalkOK, Assign
<1>6. ASSUME NEW s \in Slot, NEW t \in Stack, NEW f \in Field,
             NEW live \in BOOLEAN, NEW owned \in BOOLEAN, Store(s, f, t, live, owned)
      PROVE  TypeInv'
  <2>1. slot[t] \in Ref /\ t \in Slot
    BY <1>0 DEF TypeInv, TypeOK
  <2>2. Assign(s, f, slot[t], t, live, owned)
    BY <1>6 DEF Store
  <2> QED BY <1>5, <2>1, <2>2
<1>7. ASSUME NEW s \in Slot, NEW f \in Field, StoreConstant(s, f)
      PROVE  TypeInv'
  BY <1>5, <1>7 DEF StoreConstant, Ref
<1>8. ASSUME NEW s \in Stack, NEW g \in Global, StoreGlobal(s, g)
      PROVE  TypeInv'
  BY <1>0, <1>8 DEF TypeInv, TypeOK, WalkOK, StoreGlobal, Ref
<1>9. CASE GcCycle
  BY <1>9, BudgetAssumption DEF TypeInv, TypeOK, WalkOK, GcCycle, ProgramPCs
<1> QED BY <1>1, <1>2, <1>3, <1>4, <1>6, <1>7, <1>8, <1>9 DEF Mutator

\* The steps of the releasing machine keep the types.
LEMMA ReleasingType ==
    ASSUME TypeInv, ReleasingMachine
    PROVE  TypeInv'
<1> USE DEF header_vars, flag_vars, registry, trace_lists, release_lists,
           state_vars, budgets, account, control, free_vars, At
<1>1. CASE ReleasingReturn
  BY <1>1 DEF TypeInv, TypeOK, WalkOK, ReleasingReturn, ProgramPCs
<1>2. CASE SetReleasingWorking
  BY <1>2 DEF TypeInv, TypeOK, WalkOK, SetReleasingWorking, ReleasingStates
<1>3. CASE ReleasingPop
  <2>1. /\ releasing_worklist' \in Seq(Object)
        /\ walk_obj' \in Object
        /\ releasing_budget' \in Int
    BY <1>3, PopObject, CostType DEF TypeInv, TypeOK, ReleasingPop
  <2>2. walk_todo' \subseteq Field
    BY <1>3, <2>1, HeaderAssumption DEF ReleasingPop, OwnFields
  <2> QED BY <1>3, <2>1, <2>2, HeapAssumption
          DEF TypeInv, TypeOK, WalkOK, ReleasingPop, ProgramPCs, WalkPCs, Ref
<1>4. ASSUME NEW f \in Field, ReleaseChild(f)
      PROVE  TypeInv'
  <2> DEFINE c == value[walk_obj][f]
  <2>1. c \in Object
    BY <1>4, ChildIsObject DEF ReleaseChild, IsLeast, WalkPCs
  <2>2. rc' \in [Object -> Int] /\ walk_todo' \subseteq (Field \cup Slot) /\ WalkOK'
    BY <1>4, <2>1 DEF TypeInv, TypeOK, WalkOK, ReleaseChild
  <2>3. CASE rc[c] # 1
    BY <1>4, <2>2, <2>3 DEF TypeInv, TypeOK, ReleaseChild
  <2>4. CASE rc[c] = 1 /\ Layout[c] = "MonoImm"
    <3>1. FreeReleasedObject(c) /\ UNCHANGED releasing_waitlist
      BY <1>4, <2>4 DEF ReleaseChild
    <3> QED BY <1>4, <2>1, <2>2, <3>1, FreeReleasedType DEF TypeInv, TypeOK, ReleaseChild
  <2>5. CASE rc[c] = 1 /\ Layout[c] # "MonoImm"
    <3>1. mark' \in [Object -> {0, 1}] /\ releasing_waitlist' \in Seq(Object)
      BY <1>4, <2>1, <2>5, DecrType DEF TypeInv, ReleaseChild, Ref
    <3> QED BY <1>4, <2>2, <2>5, <3>1 DEF TypeInv, TypeOK, ReleaseChild
  <2> QED BY <2>3, <2>4, <2>5
<1>5. CASE ReleasingFree
  <2>1. walk_obj \in Object /\ FreeReleasedObject(walk_obj)
    BY <1>5 DEF TypeInv, TypeOK, WalkOK, ReleasingFree, Ref
  <2> QED BY <1>5, <2>1, FreeReleasedType
          DEF TypeInv, TypeOK, WalkOK, ReleasingFree, ReleasingStates, ProgramPCs, Ref
<1> QED BY <1>1, <1>2, <1>3, <1>4, <1>5 DEF ReleasingMachine

\* gc_tracing_worklist_push keeps the types.
LEMMA TracingPushType ==
    ASSUME TypeOK, NEW o \in Object, TracingPush(o)
    PROVE  tracing_flag' \subseteq Object /\ tracing_worklist' \in Seq(Object)
<1>1. Append(tracing_worklist, o) \in Seq(Object)
  BY AppendSet DEF TypeOK
<1> QED BY <1>1 DEF TypeOK, TracingPush

\* The steps of the tracing machine keep the types.
LEMMA TracingType ==
    ASSUME TypeInv, TracingMachine
    PROVE  TypeInv'
<1> USE DEF header_vars, flag_vars, registry, trace_lists, release_lists,
           state_vars, budgets, account, control, free_vars, At
<1>1. CASE TracingReturn
  BY <1>1 DEF TypeInv, TypeOK, WalkOK, TracingReturn, ProgramPCs
<1>2. CASE StartTracing
  <2>1. Len(cyclic_candidates) \in Nat
    BY LenProperties DEF TypeInv, TypeOK
  <2>2. 1 - tracing_current_bit_mark \in {0, 1}
    BY DEF TypeInv, TypeOK
  <2>3. alloc_since_trace' \in BOOLEAN
    BY <1>2 DEF StartTracing
  <2> QED BY <1>2, <2>1, <2>2, <2>3
          DEF TypeInv, TypeOK, WalkOK, StartTracing, NextMark, StackRoots, Stack,
              TracingStates, ProgramPCs, WalkPCs
<1>3. ASSUME NEW s \in Stack, PushRoot(s)
      PROVE  TypeInv'
  <2>1. slot[s] \in Object
    BY <1>3 DEF TypeInv, TypeOK, WalkOK, PushRoot, IsLeast, Ref
  <2> QED BY <1>3, <2>1, TracingPushType DEF TypeInv, TypeOK, WalkOK, PushRoot
<1>4. CASE RootsCollected
  BY <1>4 DEF TypeInv, TypeOK, WalkOK, RootsCollected, TracingStates, ProgramPCs
<1>5. CASE TracingPop
  <2> DEFINE o == Last(tracing_worklist)
  <2>1. tracing_worklist' \in Seq(Object) /\ o \in Object
    BY <1>5, PopObject DEF TypeInv, TypeOK, TracingPop
  <2> HIDE DEF o
  <2>2. CASE o \in waiting_remove
    <3>1. FreeCell(o) /\ cyclic_obj' \in Int
      BY <1>5, <2>2 DEF TypeInv, TypeOK, TracingPop, CyclicObjAfterFree, o
    <3> QED BY <1>5, <2>1, <2>2, <3>1, FreeCellType
            DEF TypeInv, TypeOK, WalkOK, TracingPop, ProgramPCs, WalkPCs, Ref, o
  <2>3. CASE o \notin waiting_remove /\ (rc[o] = 0 \/ Marked(o))
    BY <1>5, <2>1, <2>3 DEF TypeInv, TypeOK, WalkOK, TracingPop, ProgramPCs, WalkPCs, o
  <2>4. CASE o \notin waiting_remove /\ rc[o] # 0 /\ ~Marked(o)
    <3>1. walk_todo' \subseteq Field
      BY <1>5, <2>1, <2>4, HeaderAssumption DEF TracingPop, OwnFields, o
    <3>2. tracing_budget' \in Int
      BY <1>5, <2>1, <2>4, CostType DEF TypeInv, TypeOK, TracingPop, o
    <3>3. walk_obj' \in Object /\ mark' \in [Object -> {0, 1}]
      BY <1>5, <2>1, <2>4 DEF TypeInv, TypeOK, TracingPop, o
    <3>4. WalkOK'
      BY <1>5, <3>3, HeapAssumption DEF WalkOK, TracingPop
    <3>5. tracing_flag' \subseteq Object /\ UNCHANGED <<alive, value, children_released,
                                       waiting_remove, cyclic_obj>>
      BY <1>5, <2>4 DEF TypeInv, TypeOK, TracingPop, o
    <3> QED BY <1>5, <2>1, <3>1, <3>2, <3>3, <3>4, <3>5
            DEF TypeInv, TypeOK, TracingPop, ProgramPCs, WalkPCs, Ref
  <2> QED BY <2>2, <2>3, <2>4
<1>6. ASSUME NEW f \in Field, TraceChild(f)
      PROVE  TypeInv'
  <2>1. value[walk_obj][f] \in Object
    BY <1>6, ChildIsObject DEF TraceChild, IsLeast, WalkPCs
  <2> QED BY <1>6, <2>1, TracingPushType DEF TypeInv, TypeOK, WalkOK, TraceChild
<1>7. CASE TracingStepped
  BY <1>7 DEF TypeInv, TypeOK, WalkOK, TracingStepped, TracingStates, ProgramPCs, Ref
<1>8. CASE MutationsDrained
  BY <1>8 DEF TypeInv, TypeOK, WalkOK, MutationsDrained, TracingStates
<1>9. CASE MutationPop
  <2> DEFINE o == Last(tracing_mutations_worklist)
  <2>1. tracing_mutations_worklist' \in Seq(Object) /\ o \in Object
    BY <1>9, PopObject DEF TypeInv, TypeOK, MutationPop
  <2> HIDE DEF o
  <2>2. CASE o \in waiting_remove
    <3>1. FreeCell(o)
      BY <1>9, <2>2 DEF MutationPop, o
    <3> QED BY <1>9, <2>1, <2>2, <3>1, FreeCellType
            DEF TypeInv, TypeOK, WalkOK, MutationPop, ProgramPCs, WalkPCs, o
  <2>3. CASE o \notin waiting_remove
    <3>1. walk_todo' \subseteq Field
      BY <1>9, <2>1, <2>3, HeaderAssumption DEF MutationPop, OwnFields, o
    <3>2. tracing_budget' \in Int
      BY <1>9, <2>1, <2>3, CostType DEF TypeInv, TypeOK, MutationPop, o
    <3> QED BY <1>9, <2>1, <2>3, <3>1, <3>2, HeapAssumption
            DEF TypeInv, TypeOK, WalkOK, MutationPop, ProgramPCs, WalkPCs, Ref, o
  <2> QED BY <2>2, <2>3
<1>10. CASE MutationStepped
  BY <1>10 DEF TypeInv, TypeOK, WalkOK, MutationStepped, ProgramPCs, Ref
<1>11. CASE LostCyclePop
  <2>1. Last(lost_cycle_worklist) \in Object /\ lost_cycle_worklist' \in Seq(Object)
    BY <1>11, PopObject DEF TypeInv, TypeOK, LostCyclePop
  <2>2. walk_todo' \subseteq Field
    BY <1>11, <2>1, HeaderAssumption DEF LostCyclePop, LostCycleWalk, OwnFields
  <2> QED BY <1>11, <2>1, <2>2, HeapAssumption
          DEF TypeInv, TypeOK, WalkOK, LostCyclePop, LostCycleWalk, ProgramPCs, WalkPCs, Ref
<1>12. ASSUME NEW f \in Field, LostCycleChildDecr(f)
       PROVE  TypeInv'
  <2> DEFINE c == value[walk_obj][f]
  <2>1. c \in Object
    BY <1>12, ChildIsObject DEF LostCycleChildDecr, IsLeast, WalkPCs
  <2>2. rc' \in [Object -> Int] /\ walk_todo' \subseteq (Field \cup Slot) /\ WalkOK'
    BY <1>12, <2>1, SMTT(20) DEF TypeInv, TypeOK, WalkOK, LostCycleChildDecr
  <2>3. CASE rc[c] # 1
    BY <1>12, <2>2, <2>3 DEF TypeInv, TypeOK, LostCycleChildDecr
  <2>4. CASE rc[c] = 1 /\ Layout[c] = "MonoImm"
    <3>1. FreeReleasedObject(c) /\ UNCHANGED lost_cycle_worklist
      BY <1>12, <2>4 DEF LostCycleChildDecr
    <3> QED BY <1>12, <2>1, <2>2, <3>1, FreeReleasedType
            DEF TypeInv, TypeOK, LostCycleChildDecr
  <2>5. CASE rc[c] = 1 /\ Layout[c] # "MonoImm"
    <3>1. lost_cycle_worklist' \in Seq(Object)
      <4>1. lost_cycle_worklist' = Append(lost_cycle_worklist, c)
        BY <1>12, <2>5 DEF LostCycleChildDecr
      <4>2. lost_cycle_worklist \in Seq(Object)
        BY DEF TypeInv, TypeOK
      <4> QED BY <2>1, <4>1, <4>2, AppendSet
    <3> QED BY <1>12, <2>2, <2>5, <3>1 DEF TypeInv, TypeOK, LostCycleChildDecr
  <2> QED BY <2>3, <2>4, <2>5
<1>13. CASE LostCycleFree
  <2>1. walk_obj \in Object /\ FreeReleasedObject(walk_obj)
    BY <1>13 DEF TypeInv, TypeOK, WalkOK, LostCycleFree, Ref
  <2> QED BY <1>13, <2>1, FreeReleasedType
          DEF TypeInv, TypeOK, WalkOK, LostCycleFree, ProgramPCs, Ref
<1>14. CASE ReclaimingDone
  BY <1>14 DEF TypeInv, TypeOK, WalkOK, ReclaimingDone, TracingStates
<1>15. CASE ScanSkip
  <2>1. Len(cyclic_candidates) \in Nat /\ current_candidate_check_index \in Nat
    BY LenProperties DEF TypeInv, TypeOK
  <2>2. current_candidate_check_index' \in Nat
    BY <1>15, <2>1 DEF ScanSkip, ScanIndex
  <2> QED BY <1>15, <2>2 DEF TypeInv, TypeOK, WalkOK, ScanSkip
<1>16. CASE ScanUnmarked
  <2>1. Len(cyclic_candidates) \in Nat /\ current_candidate_check_index \in Nat
    BY LenProperties DEF TypeInv, TypeOK
  <2>2. ScanIndex \in 1 .. Len(cyclic_candidates)
    BY <1>16, <2>1 DEF ScanUnmarked, ScanIndex
  <2>3. cyclic_candidates[ScanIndex] \in Object
    BY <2>2, ElementOfSeq DEF TypeInv, TypeOK
  <2>4. walk_todo' \subseteq Field
    BY <1>16, <2>3, HeaderAssumption DEF ScanUnmarked, LostCycleWalk, OwnFields
  <2>5. current_candidate_check_index' \in Nat
    BY <1>16, <2>1, <2>2 DEF ScanUnmarked
  <2> QED BY <1>16, <2>3, <2>4, <2>5, HeapAssumption
          DEF TypeInv, TypeOK, WalkOK, ScanUnmarked, LostCycleWalk, ProgramPCs, WalkPCs, Ref
<1>17. CASE ScanEnqueue
  <2>1. walk_obj \in Object
    BY <1>17 DEF TypeInv, TypeOK, WalkOK, ScanEnqueue, Ref
  <2>2. lost_cycle_worklist' \in Seq(Object)
    BY <1>17, <2>1, AppendSet DEF TypeInv, TypeOK, ScanEnqueue
  <2> QED BY <1>17, <2>2 DEF TypeInv, TypeOK, WalkOK, ScanEnqueue, ProgramPCs, Ref
<1> QED BY <1>1, <1>2, <1>3, <1>4, <1>5, <1>6, <1>7, <1>8, <1>9, <1>10, <1>11, <1>12,
           <1>13, <1>14, <1>15, <1>16, <1>17 DEF TracingMachine

\* A step of the program or of a collector keeps the types.
LEMMA TypeInvStep ==
    ASSUME TypeInv, [Next]_vars
    PROVE  TypeInv'
<1>1. CASE Next
  BY <1>1, MutatorType, ReleasingType, TracingType DEF Next
<1>2. CASE UNCHANGED vars
  BY <1>2 DEF TypeInv, TypeOK, WalkOK, vars, header_vars, flag_vars, registry, trace_lists, release_lists,
           state_vars, budgets, account, control
<1> QED BY <1>1, <1>2

\* The initial state has the types.
LEMMA TypeInvInit == Init => TypeInv
<1> SUFFICES ASSUME Init PROVE TypeInv
  OBVIOUS
<1>1. /\ rc \in [Object -> Int] /\ mark \in [Object -> {0, 1}]
      /\ value \in [Object -> [Field -> Ref]] /\ slot \in [Slot -> Ref]
      /\ candidate_index \in [Object -> Nat]
  BY DEF Init, NoFields, Ref
<1>2. /\ cyclic_candidates \in Seq(Object)
      /\ tracing_worklist \in Seq(Object) /\ tracing_mutations_worklist \in Seq(Object)
      /\ releasing_worklist \in Seq(Object) /\ releasing_waitlist \in Seq(Object)
      /\ lost_cycle_worklist \in Seq(Object)
  BY EmptySeq DEF Init
<1>3. WalkOK /\ walk_obj \in Ref /\ pc \in ProgramPCs
  BY DEF Init, WalkOK, Ref, ProgramPCs
<1>4. alloc_since_trace \in BOOLEAN
  BY DEF Init
<1> QED BY <1>1, <1>2, <1>3, <1>4 DEF Init, TypeInv, TypeOK, TracingStates, ReleasingStates

\* Every variable always holds a value of its C type, and every walk over
\* children or roots has what it needs.
THEOREM TypeInvariant == Spec => []TypeInv
  BY TypeInvInit, TypeInvStep, PTL DEF Spec

\* Every variable of the runtime always holds a value of its C type: worklists
\* hold objects, indices and generations stay in range, whatever the heap, the
\* budgets and the thresholds.
THEOREM TypeCorrect == Spec => []TypeOK
<1>1. TypeInv => TypeOK
  BY DEF TypeInv
<1> QED BY <1>1, TypeInvariant, PTL

-----------------------------------------------------------------------------
(***************************************************************************)
(* The tracing flag and Waiting_Remove                                     *)
(***************************************************************************)
\* What the flag and the worklist must agree on, together.
FlagInv == TracingFlagExact /\ WaitingIsTraced

\* gc_tracing_worklist_push keeps the flag and the worklist in step.
LEMMA TracingPushFlag ==
    ASSUME TypeOK, FlagInv, NEW o \in Object, TracingPush(o), UNCHANGED waiting_remove
    PROVE  FlagInv'
<1>1. CASE o \in tracing_flag
  BY <1>1 DEF TracingPush, FlagInv, TracingFlagExact, WaitingIsTraced
<1>2. CASE o \notin tracing_flag
  <2>1. tracing_worklist \in Seq(Object) /\ o \notin ToSet(tracing_worklist)
    BY <1>2 DEF TypeOK, FlagInv, TracingFlagExact
  <2>2. tracing_worklist' = Append(tracing_worklist, o) /\ tracing_flag' = tracing_flag \cup {o}
    BY <1>2 DEF TracingPush
  <2>3. ToSet(tracing_worklist') = ToSet(tracing_worklist) \cup {o} /\ IsInjective(tracing_worklist')
    BY <2>1, <2>2, AppendSet DEF FlagInv, TracingFlagExact
  <2> QED BY <2>2, <2>3 DEF FlagInv, TracingFlagExact, WaitingIsTraced
<1> QED BY <1>1, <1>2

\* free_released_object asks the tracer for the free only while the object is
\* in the tracing worklist.
LEMMA FreeReleasedFlag ==
    ASSUME FlagInv, NEW o, FreeReleasedObject(o), UNCHANGED <<tracing_flag, tracing_worklist>>
    PROVE  FlagInv'
<1>1. waiting_remove' \subseteq tracing_flag
  BY DEF FreeReleasedObject, FreeCell, DeferFree, FlagInv, WaitingIsTraced
<1> QED BY <1>1 DEF FlagInv, TracingFlagExact, WaitingIsTraced

\* Every step of the program and of the machines preserves FlagInv.
LEMMA FlagStep ==
    ASSUME TypeInv, FlagInv, [Next]_vars
    PROVE  FlagInv'
<1> USE DEF header_vars, flag_vars, registry, trace_lists, release_lists,
            state_vars, budgets, account, control, free_vars
<1> DEFINE Same == UNCHANGED <<tracing_worklist, tracing_flag, waiting_remove>>
<1>0. Same => FlagInv'
  BY DEF FlagInv, TracingFlagExact, WaitingIsTraced
<1>1. CASE Mutator
  <2>1. ASSUME NEW s, NEW f, NEW v, NEW ref, NEW live, NEW owned,
               Assign(s, f, v, ref, live, owned)
        PROVE  Same
    BY <2>1 DEF Assign
  <2>2. CASE \E s \in Slot, t \in Stack : \E f \in Field : \E live, owned \in BOOLEAN :
                Store(s, f, t, live, owned)
    BY <1>0, <2>1, <2>2 DEF Store
  <2>3. CASE \E s \in Slot : \E f \in Field : StoreConstant(s, f)
    BY <1>0, <2>1, <2>3 DEF StoreConstant
  <2>4. CASE \E s \in Stack : \E o \in Object : Alloc(s, o)
    BY <1>0, <2>4 DEF Alloc
  <2>5. CASE \E s \in Stack : Release(s)
    BY <1>0, <2>5 DEF Release
  <2>6. CASE \E s \in Slot, t \in Stack : Share(s, t)
    BY <1>0, <2>6 DEF Share
  <2>7. CASE \E s \in Slot, t \in Stack : \E f \in Field : Load(s, f, t)
    BY <1>0, <2>7 DEF Load
  <2>8. CASE \E s \in Stack, g \in Global : StoreGlobal(s, g)
    BY <1>0, <2>8 DEF StoreGlobal
  <2>9. CASE GcCycle
    BY <1>0, <2>9 DEF GcCycle
  <2> QED BY <1>1, <2>2, <2>3, <2>4, <2>5, <2>6, <2>7, <2>8, <2>9 DEF Mutator
<1>2. CASE ReleasingMachine
  <2>1. CASE ReleasingReturn \/ SetReleasingWorking \/ ReleasingPop
    BY <1>0, <2>1 DEF ReleasingReturn, SetReleasingWorking, ReleasingPop
  <2>2. ASSUME NEW f \in Field, ReleaseChild(f)
        PROVE  FlagInv'
    <3>1. UNCHANGED <<tracing_flag, tracing_worklist>>
      BY <2>2 DEF ReleaseChild
    <3>2. UNCHANGED waiting_remove \/ FreeReleasedObject(value[walk_obj][f])
      BY <2>2 DEF ReleaseChild
    <3> QED BY <1>0, <3>1, <3>2, FreeReleasedFlag
  <2>3. CASE ReleasingFree
    BY <2>3, FreeReleasedFlag DEF ReleasingFree
  <2> QED BY <1>2, <2>1, <2>2, <2>3 DEF ReleasingMachine
<1>3. CASE TracingMachine
  <2>1. CASE TracingReturn \/ StartTracing \/ RootsCollected \/ TracingStepped
               \/ MutationsDrained \/ MutationStepped
    BY <1>0, <2>1 DEF TracingReturn, StartTracing, RootsCollected, TracingStepped,
                      MutationsDrained, MutationStepped
  <2>2. CASE LostCyclePop \/ ReclaimingDone \/ ScanSkip \/ ScanUnmarked \/ ScanEnqueue
    BY <1>0, <2>2 DEF LostCyclePop, ReclaimingDone, ScanSkip, ScanUnmarked, ScanEnqueue
  <2>3. ASSUME NEW s \in Stack, PushRoot(s)
        PROVE  FlagInv'
    <3>1. slot[s] \in Object
      BY <2>3 DEF TypeInv, TypeOK, WalkOK, PushRoot, IsLeast, At, Ref
    <3> QED BY <2>3, <3>1, TracingPushFlag DEF TypeInv, PushRoot
  <2>4. ASSUME NEW f \in Field, TraceChild(f)
        PROVE  FlagInv'
    <3>1. value[walk_obj][f] \in Object
      BY <2>4, ChildIsObject DEF TraceChild, IsLeast, At, WalkPCs
    <3> QED BY <2>4, <3>1, TracingPushFlag DEF TypeInv, TraceChild
  <2>5. CASE TracingPop
    <3> DEFINE o == Last(tracing_worklist)
    <3>1. tracing_worklist \in Seq(Object) /\ tracing_worklist # <<>>
      BY <2>5 DEF TypeInv, TypeOK, TracingPop
    <3>2. /\ ToSet(Front(tracing_worklist)) = ToSet(tracing_worklist) \ {o}
          /\ IsInjective(Front(tracing_worklist))
      BY <3>1, PopOnce DEF FlagInv, TracingFlagExact
    <3>3. TracingFlagExact'
      BY <2>5, <3>2 DEF TracingPop, FlagInv, TracingFlagExact
    <3>4. waiting_remove' \subseteq waiting_remove \ {o}
      BY <2>5 DEF TracingPop, FreeCell
    <3>5. WaitingIsTraced'
      BY <2>5, <3>4 DEF TracingPop, FlagInv, WaitingIsTraced
    <3> QED BY <3>3, <3>5 DEF FlagInv
  <2>6. CASE MutationPop
    <3>1. waiting_remove' \subseteq waiting_remove
      BY <2>6 DEF MutationPop, FreeCell
    <3> QED BY <2>6, <3>1 DEF MutationPop, FlagInv, TracingFlagExact, WaitingIsTraced
  <2>7. ASSUME NEW f \in Field, LostCycleChildDecr(f)
        PROVE  FlagInv'
    <3>1. UNCHANGED <<tracing_flag, tracing_worklist>>
      BY <2>7 DEF LostCycleChildDecr
    <3>2. UNCHANGED waiting_remove \/ FreeReleasedObject(value[walk_obj][f])
      BY <2>7 DEF LostCycleChildDecr
    <3> QED BY <1>0, <3>1, <3>2, FreeReleasedFlag
  <2>8. CASE LostCycleFree
    BY <2>8, FreeReleasedFlag DEF LostCycleFree
  <2> QED BY <1>3, <2>1, <2>2, <2>3, <2>4, <2>5, <2>6, <2>7, <2>8 DEF TracingMachine
<1>4. CASE UNCHANGED vars
  BY <1>0, <1>4 DEF vars
<1> QED BY <1>1, <1>2, <1>3, <1>4 DEF Next

\* The invariant behind the two theorems below.
LEMMA FlagInvariant == Spec => []FlagInv
<1>1. Init => FlagInv
  BY DEF Init, FlagInv, TracingFlagExact, WaitingIsTraced, ToSet, IsInjective
<1>2. TypeInv /\ FlagInv /\ [Next]_vars => FlagInv'
  BY FlagStep
<1> QED BY <1>1, <1>2, TypeInvariant, PTL DEF Spec

\* free_released_object may rely on the tracing flag: an object has the flag
\* exactly while it has its one entry in the tracing worklist.
THEOREM TracingFlagCorrect == Spec => []TracingFlagExact
<1>1. FlagInv => TracingFlagExact
  BY DEF FlagInv
<1> QED BY <1>1, FlagInvariant, PTL

\* No object is forgotten: one that waits for the tracer to free it is in the
\* tracing worklist.
THEOREM WaitingIsTracedCorrect == Spec => []WaitingIsTraced
<1>1. FlagInv => WaitingIsTraced
  BY DEF FlagInv
<1> QED BY <1>1, FlagInvariant, PTL

-----------------------------------------------------------------------------
(***************************************************************************)
(* The registry of cyclic candidates                                       *)
(***************************************************************************)

\* gc_remove_candidate_at with the index word of a registered object removes
\* that object, and tells the moved one its new index.
LEMMA RemoveCandidateRegistry ==
    ASSUME TypeOK, RegistryConsistent, NEW o \in candidate_flag,
           RemoveCandidateAt(candidate_index[o]), candidate_flag' = candidate_flag \ {o}
    PROVE  RegistryConsistent'
<1> DEFINE cc == cyclic_candidates
           i  == candidate_index[o]
           n  == Len(cc)
<1>1. cc \in Seq(Object) /\ DOMAIN cc = 1 .. n /\ n \in Nat
  BY LenProperties DEF TypeOK
<1>2. \A j \in 1 .. n : candidate_index[cc[j]] = j /\ cc[j] \in Object
  BY <1>1, ElementOfSeq DEF RegistryConsistent
<1>3. candidate_flag = {cc[j] : j \in 1 .. n}
  BY <1>1 DEF RegistryConsistent, ToSet
<1>4. i \in 1 .. n /\ cc[i] = o
  BY <1>2, <1>3
<1>5. cc' = SwapRemove(cc, i)
  BY DEF RemoveCandidateAt, SwapRemove
<1>6. /\ Len(cc') = n - 1
      /\ \A j \in 1 .. n - 1 : cc'[j] = IF j = i THEN cc[n] ELSE cc[j]
  BY <1>1, <1>4, <1>5, SwapRemoveEntries
<1>7. cc' \in Seq(Object)
  <2>1. i \in Nat
    BY <1>1, <1>4
  <2> QED BY <1>1, <1>5, <2>1, SwapRemoveType
<1>8. DOMAIN cc' = 1 .. n - 1
  BY <1>6, <1>7, LenProperties
<1>9. /\ Last(cc) = cc[n] /\ cc[n] \in Object /\ n # 0
      /\ candidate_index' = IF i # n THEN [candidate_index EXCEPT ![cc[n]] = i]
                            ELSE candidate_index
  BY <1>1, <1>4, ElementOfSeq DEF RemoveCandidateAt, Last
<1> HIDE DEF cc, i, n
<1>10. candidate_index \in [Object -> Nat]
  BY DEF TypeOK
<1>11. \A j \in 1 .. n - 1 : candidate_index'[cc'[j]] = j
  <2> TAKE j \in 1 .. n - 1
  <2>1. j \in 1 .. n /\ n \in 1 .. n /\ j # n
    BY <1>1, <1>9
  <2>2. CASE j = i
    BY <1>6, <1>9, <1>10, <2>1, <2>2
  <2>3. CASE j # i /\ i # n
    <3>1. cc'[j] = cc[j] /\ cc[j] # cc[n]
      BY <1>2, <1>6, <2>1, <2>3
    <3> QED BY <1>2, <1>9, <1>10, <2>1, <2>3, <3>1
  <2>4. CASE j # i /\ i = n
    BY <1>2, <1>6, <1>9, <2>1, <2>4
  <2> QED BY <2>2, <2>3, <2>4
<1>12. candidate_flag \ {o} = {cc'[j] : j \in 1 .. n - 1}
  <2>1. ASSUME NEW x \in candidate_flag, x # o
        PROVE  \E j \in 1 .. n - 1 : cc'[j] = x
    <3>1. PICK k \in 1 .. n : cc[k] = x
      BY <1>3
    <3>2. k # i
      BY <1>4, <2>1, <3>1
    <3>3. CASE k = n
      <4>1. i \in 1 .. n - 1
        BY <1>1, <1>4, <3>2, <3>3
      <4> QED BY <1>6, <3>1, <3>3, <4>1
    <3>4. CASE k # n
      <4>1. k \in 1 .. n - 1
        BY <1>1, <3>4
      <4> QED BY <1>6, <3>1, <3>2, <4>1
    <3> QED BY <3>3, <3>4
  <2>2. ASSUME NEW j \in 1 .. n - 1
        PROVE  cc'[j] \in candidate_flag /\ cc'[j] # o
    <3>1. j \in 1 .. n /\ n \in 1 .. n /\ j # n
      BY <1>1, <1>9
    <3>2. CASE j = i
      <4>1. cc'[j] = cc[n] /\ i # n
        BY <1>6, <3>1, <3>2
      <4> QED BY <1>2, <1>3, <1>4, <3>1, <4>1
    <3>3. CASE j # i
      <4>1. cc'[j] = cc[j]
        BY <1>6, <3>3
      <4> QED BY <1>2, <1>3, <1>4, <3>1, <3>3, <4>1
    <3> QED BY <3>2, <3>3
  <2> QED BY <2>1, <2>2
<1> QED BY <1>8, <1>11, <1>12 DEF RegistryConsistent, ToSet, cc

\* free_released_object keeps the registry consistent.
LEMMA FreeReleasedRegistry ==
    ASSUME TypeOK, RegistryConsistent, NEW o, FreeReleasedObject(o)
    PROVE  RegistryConsistent'
<1>1. CASE o \in candidate_flag
  BY <1>1, RemoveCandidateRegistry DEF FreeReleasedObject
<1>2. CASE o \notin candidate_flag
  BY <1>2 DEF FreeReleasedObject, RegistryConsistent, registry
<1> QED BY <1>1, <1>2

\* gc_register_candidate on a new object: it is not in the registry yet,
\* because no entry of the registry is a free cell.
LEMMA AllocRegistry ==
    ASSUME TypeOK, RegistryConsistent, NEW s, NEW o \in Object, Alloc(s, o)
    PROVE  RegistryConsistent'
<1>1. CASE o \notin CyclicMutable
  BY <1>1 DEF Alloc, RegistryConsistent, registry
<1>2. CASE o \in CyclicMutable
  <2> DEFINE cc == cyclic_candidates
             n  == Len(cc)
  <2>1. cc \in Seq(Object) /\ n \in Nat /\ DOMAIN cc = 1 .. n
    BY LenProperties DEF TypeOK
  <2>2. o \notin ToSet(cc)
    BY DEF Alloc, At, NoDangling, Queued
  <2>3. /\ cc' = Append(cc, o)
        /\ candidate_index' = [candidate_index EXCEPT ![o] = n + 1]
        /\ candidate_flag' = candidate_flag \cup {o}
    BY <1>2 DEF Alloc
  <2>4. /\ cc' \in Seq(Object)
        /\ Len(cc') = n + 1
        /\ \A i \in 1 .. n : cc'[i] = cc[i]
        /\ cc'[n + 1] = o
    BY <2>1, <2>3, AppendProperties
  <2>5. DOMAIN cc' = 1 .. n + 1
    BY <2>4, LenProperties
  <2>6. candidate_flag' = ToSet(cc')
    BY <2>1, <2>3, AppendSet DEF RegistryConsistent
  <2>7. \A i \in 1 .. n : cc[i] # o /\ candidate_index[cc[i]] = i
    BY <2>1, <2>2 DEF RegistryConsistent, ToSet
  <2> HIDE DEF cc, n
  <2>8. ASSUME NEW i \in 1 .. n + 1
        PROVE  candidate_index'[cc'[i]] = i
    <3>1. candidate_index \in [Object -> Nat]
      BY DEF TypeOK
    <3>2. CASE i = n + 1
      BY <2>3, <2>4, <3>1, <3>2
    <3>3. CASE i # n + 1
      <4>1. i \in 1 .. n
        BY <2>1, <3>3
      <4>2. cc'[i] = cc[i] /\ cc[i] # o /\ candidate_index[cc[i]] = i
        BY <2>4, <2>7, <4>1
      <4>3. cc[i] \in Object
        BY <2>1, <4>1, ElementOfSeq DEF n
      <4> QED BY <2>3, <3>1, <4>2, <4>3
    <3> QED BY <3>2, <3>3
  <2> QED BY <2>5, <2>6, <2>8 DEF RegistryConsistent, cc
<1> QED BY <1>1, <1>2

\* Every step preserves the agreement of the registry and the index words.
LEMMA RegistryStep ==
    ASSUME TypeInv, RegistryConsistent, [Next]_vars
    PROVE  RegistryConsistent'
<1> USE DEF header_vars, flag_vars, registry, trace_lists, release_lists,
            state_vars, budgets, account, control, free_vars
<1> DEFINE Same == UNCHANGED <<cyclic_candidates, candidate_index, candidate_flag>>
<1>0. Same => RegistryConsistent'
  BY DEF RegistryConsistent
<1>1. CASE Mutator
  <2>1. ASSUME NEW s, NEW f, NEW v, NEW ref, NEW live, NEW owned,
               Assign(s, f, v, ref, live, owned)
        PROVE  Same
    BY <2>1 DEF Assign
  <2>2. CASE \E s \in Slot, t \in Stack : \E f \in Field : \E live, owned \in BOOLEAN :
                Store(s, f, t, live, owned)
    BY <1>0, <2>1, <2>2 DEF Store
  <2>3. CASE \E s \in Slot : \E f \in Field : StoreConstant(s, f)
    BY <1>0, <2>1, <2>3 DEF StoreConstant
  <2>4. CASE \E s \in Stack : \E o \in Object : Alloc(s, o)
    BY <2>4, AllocRegistry DEF TypeInv
  <2>5. CASE \E s \in Stack : Release(s)
    BY <1>0, <2>5 DEF Release
  <2>6. CASE \E s \in Slot, t \in Stack : Share(s, t)
    BY <1>0, <2>6 DEF Share
  <2>7. CASE \E s \in Slot, t \in Stack : \E f \in Field : Load(s, f, t)
    BY <1>0, <2>7 DEF Load
  <2>8. CASE \E s \in Stack, g \in Global : StoreGlobal(s, g)
    BY <1>0, <2>8 DEF StoreGlobal
  <2>9. CASE GcCycle
    BY <1>0, <2>9 DEF GcCycle
  <2> QED BY <1>1, <2>2, <2>3, <2>4, <2>5, <2>6, <2>7, <2>8, <2>9 DEF Mutator
<1>2. CASE ReleasingMachine
  <2>1. CASE ReleasingReturn \/ SetReleasingWorking \/ ReleasingPop
    BY <1>0, <2>1 DEF ReleasingReturn, SetReleasingWorking, ReleasingPop
  <2>2. ASSUME NEW f \in Field, ReleaseChild(f)
        PROVE  RegistryConsistent'
    <3>1. Same \/ FreeReleasedObject(value[walk_obj][f])
      BY <2>2 DEF ReleaseChild
    <3> QED BY <1>0, <3>1, FreeReleasedRegistry DEF TypeInv
  <2>3. CASE ReleasingFree
    BY <2>3, FreeReleasedRegistry DEF TypeInv, ReleasingFree
  <2> QED BY <1>2, <2>1, <2>2, <2>3 DEF ReleasingMachine
<1>3. CASE TracingMachine
  <2>1. CASE TracingReturn \/ StartTracing \/ RootsCollected \/ TracingPop \/ TracingStepped
               \/ MutationsDrained \/ MutationPop \/ MutationStepped
    BY <1>0, <2>1 DEF TracingReturn, StartTracing, RootsCollected, TracingPop,
                      TracingStepped, MutationsDrained, MutationPop, MutationStepped
  <2>2. CASE LostCyclePop \/ ReclaimingDone \/ ScanSkip \/ ScanUnmarked \/ ScanEnqueue
    BY <1>0, <2>2 DEF LostCyclePop, ReclaimingDone, ScanSkip, ScanUnmarked, ScanEnqueue
  <2>3. CASE \E s \in Stack : PushRoot(s)
    BY <1>0, <2>3 DEF PushRoot
  <2>4. CASE \E f \in Field : TraceChild(f)
    BY <1>0, <2>4 DEF TraceChild
  <2>5. ASSUME NEW f \in Field, LostCycleChildDecr(f)
        PROVE  RegistryConsistent'
    <3>1. Same \/ FreeReleasedObject(value[walk_obj][f])
      BY <2>5 DEF LostCycleChildDecr
    <3> QED BY <1>0, <3>1, FreeReleasedRegistry DEF TypeInv
  <2>6. CASE LostCycleFree
    BY <2>6, FreeReleasedRegistry DEF TypeInv, LostCycleFree
  <2> QED BY <1>3, <2>1, <2>2, <2>3, <2>4, <2>5, <2>6 DEF TracingMachine
<1>4. CASE UNCHANGED vars
  BY <1>0, <1>4 DEF vars
<1> QED BY <1>1, <1>2, <1>3, <1>4 DEF Next

\* The registry and the index words in the objects agree after any sequence of
\* registrations and swap-removals: gc_remove_candidate_at always removes the
\* object it is asked to remove, and no object is registered twice.
THEOREM RegistryCorrect == Spec => []RegistryConsistent
<1>1. Init => RegistryConsistent
  BY DEF Init, RegistryConsistent, ToSet
<1>2. TypeInv /\ RegistryConsistent /\ [Next]_vars => RegistryConsistent'
  BY RegistryStep
<1> QED BY <1>1, <1>2, TypeInvariant, PTL DEF Spec

-----------------------------------------------------------------------------
(***************************************************************************)
(* The phases of the machines                                              *)
(***************************************************************************)

\* Which states of the tracing machine its loops run in.
PhaseOK ==
    /\ pc = "roots" => tracing_state = "Tracing" /\ tracing_mutations_worklist = <<>>
    /\ pc = "trace_children" => tracing_state = "Tracing"
    /\ pc = "mutation_children" => tracing_state = "Mutation_Prepare"
    /\ pc \in {"scan_children", "lost_children"} =>
           tracing_state = "Reclaiming_Cyclic_Candidates"

\* PhaseOK with the two properties it strengthens.
PhaseInv == NoEmptyPop /\ TraceListsDrained /\ PhaseOK

\* Every step preserves PhaseInv.
LEMMA PhaseStep ==
    ASSUME TypeInv, PhaseInv, [Next]_vars
    PROVE  PhaseInv'
<1> USE DEF header_vars, flag_vars, registry, trace_lists, release_lists,
            state_vars, budgets, account, control, free_vars, At,
            PhaseInv, PhaseOK, NoEmptyPop, TraceListsDrained
<1>1. CASE Mutator
  <2>1. ASSUME NEW s, NEW f, NEW v, NEW ref, NEW live, NEW owned,
               Assign(s, f, v, ref, live, owned)
        PROVE  PhaseInv'
    <3>1. CASE tracing_mutations_worklist' = tracing_mutations_worklist
      BY <2>1, <3>1 DEF Assign
    <3>2. CASE tracing_mutations_worklist' # tracing_mutations_worklist
      <4>1. tracing_state \in {"Tracing", "Mutation_Prepare"}
        BY <2>1, <3>2 DEF Assign, Barrier
      <4> QED BY <2>1, <4>1 DEF Assign
    <3> QED BY <3>1, <3>2
  <2>2. CASE \E s \in Slot, t \in Stack : \E f \in Field : \E live, owned \in BOOLEAN :
                Store(s, f, t, live, owned)
    BY <2>1, <2>2 DEF Store
  <2>3. CASE \E s \in Slot : \E f \in Field : StoreConstant(s, f)
    BY <2>1, <2>3 DEF StoreConstant
  <2>4. CASE \E s \in Stack : \E o \in Object : Alloc(s, o)
    BY <2>4 DEF Alloc
  <2>5. CASE \E s \in Stack : Release(s)
    BY <2>5 DEF Release
  <2>6. CASE \E s \in Slot, t \in Stack : Share(s, t)
    BY <2>6 DEF Share
  <2>7. CASE \E s \in Slot, t \in Stack : \E f \in Field : Load(s, f, t)
    BY <2>7 DEF Load
  <2>8. CASE \E s \in Stack, g \in Global : StoreGlobal(s, g)
    BY <2>8 DEF StoreGlobal
  <2>9. CASE GcCycle
    BY <2>9 DEF GcCycle
  <2> QED BY <1>1, <2>2, <2>3, <2>4, <2>5, <2>6, <2>7, <2>8, <2>9 DEF Mutator
<1>2. CASE ReleasingMachine
  <2>1. CASE ReleasingReturn
    BY <2>1 DEF ReleasingReturn
  <2>2. CASE SetReleasingWorking
    <3>1. releasing_waitlist # <<>>
      BY <2>2, EmptySeq DEF SetReleasingWorking, BucketReady
    <3> QED BY <2>2, <3>1 DEF SetReleasingWorking
  <2>3. CASE ReleasingPop
    BY <2>3 DEF ReleasingPop
  <2>4. CASE \E f \in Field : ReleaseChild(f)
    BY <2>4 DEF ReleaseChild
  <2>5. CASE ReleasingFree
    BY <2>5 DEF ReleasingFree
  <2> QED BY <1>2, <2>1, <2>2, <2>3, <2>4, <2>5 DEF ReleasingMachine
<1>3. CASE TracingMachine
  <2>1. CASE TracingReturn
    BY <2>1 DEF TracingReturn
  <2>2. CASE StartTracing
    BY <2>2 DEF StartTracing
  <2>3. CASE \E s \in Stack : PushRoot(s)
    BY <2>3 DEF PushRoot
  <2>4. CASE RootsCollected
    BY <2>4 DEF RootsCollected, TraceListsEmpty
  <2>5. CASE TracingPop
    BY <2>5 DEF TracingPop
  <2>6. ASSUME NEW f \in Field, TraceChild(f)
        PROVE  PhaseInv'
    BY <2>6 DEF TraceChild
  <2>7. CASE TracingStepped
    BY <2>7 DEF TracingStepped, TraceListsEmpty
  <2>8. CASE MutationsDrained
    BY <2>8 DEF MutationsDrained, TypeInv, TypeOK, WalkOK
  <2>9. CASE MutationPop
    BY <2>9 DEF MutationPop
  <2>10. CASE MutationStepped
    BY <2>10 DEF MutationStepped
  <2>11. CASE LostCyclePop
    BY <2>11 DEF LostCyclePop, Reclaiming
  <2>12. CASE \E f \in Field : LostCycleChildDecr(f)
    BY <2>12 DEF LostCycleChildDecr
  <2>13. CASE LostCycleFree
    BY <2>13 DEF LostCycleFree
  <2>14. CASE ReclaimingDone
    BY <2>14 DEF ReclaimingDone, Reclaiming
  <2>15. CASE ScanSkip
    BY <2>15 DEF ScanSkip, Reclaiming
  <2>16. CASE ScanUnmarked
    BY <2>16 DEF ScanUnmarked, Reclaiming
  <2>17. CASE ScanEnqueue
    BY <2>17 DEF ScanEnqueue
  <2> QED BY <1>3, <2>1, <2>2, <2>3, <2>4, <2>5, <2>6, <2>7, <2>8, <2>9, <2>10, <2>11,
             <2>12, <2>13, <2>14, <2>15, <2>16, <2>17 DEF TracingMachine
<1>4. CASE UNCHANGED vars
  BY <1>4 DEF vars
<1> QED BY <1>1, <1>2, <1>3, <1>4 DEF Next

\* The invariant behind the two theorems below.
LEMMA PhaseInvariant == Spec => []PhaseInv
<1>1. Init => PhaseInv
  BY DEF Init, PhaseInv, PhaseOK, NoEmptyPop, TraceListsDrained
<1>2. TypeInv /\ PhaseInv /\ [Next]_vars => PhaseInv'
  BY PhaseStep
<1> QED BY <1>1, <1>2, TypeInvariant, PTL DEF Spec

\* gc_vector_pop_back is never called on an empty worklist, however the slices
\* of the collectors are cut.
THEOREM NoEmptyPopCorrect == Spec => []NoEmptyPop
<1>1. PhaseInv => NoEmptyPop
  BY DEF PhaseInv
<1> QED BY <1>1, PhaseInvariant, PTL

\* A trace starts with empty worklists and reclaiming begins only once both
\* are drained.
THEOREM TraceListsDrainedCorrect == Spec => []TraceListsDrained
<1>1. PhaseInv => TraceListsDrained
  BY DEF PhaseInv
<1> QED BY <1>1, PhaseInvariant, PTL

-----------------------------------------------------------------------------
(***************************************************************************)
(* What is freed while the tracer has it queued                            *)
(***************************************************************************)

\* free_released_object frees at most its argument, and not under the tracer.
LEMMA FreeReleasedCells ==
    ASSUME NEW o, FreeReleasedObject(o)
    PROVE  alive' = alive \/ (alive' = alive \ {o} /\ o \notin tracing_flag)
<1>1. CASE DeferFree(o)
  BY <1>1 DEF FreeReleasedObject
<1>2. CASE ~DeferFree(o)
  BY <1>2 DEF FreeReleasedObject, FreeCell, DeferFree
<1> QED BY <1>1, <1>2

\* The exceptions of FreedUnderTracer.
FreedEarly(o) ==
    \/ Layout[o] = "MonoImm" /\ rc[o] = 1 /\ pc = "mutator"
    \/ pc' = "mutation_children" /\ o = Last(tracing_mutations_worklist)

LEMMA FreedStep ==
    ASSUME TypeInv, FlagInv, Next
    PROVE  \A o \in (alive \ alive') \cap ToSet(tracing_worklist') : FreedEarly(o)
<1> USE DEF header_vars, trace_lists, free_vars
<1>0. /\ TypeOK /\ tracing_flag = ToSet(tracing_worklist) /\ IsInjective(tracing_worklist)
  BY DEF TypeInv, FlagInv, TracingFlagExact
<1>1. CASE Mutator
  <2>1. ASSUME NEW c, pc = "mutator", alive' = AliveAfterDecr(c)
        PROVE  \A o \in alive \ alive' : FreedEarly(o)
    BY <2>1 DEF AliveAfterDecr, ReachesZero, FreedEarly
  <2>2. CASE \E s \in Slot, t \in Stack : \E f \in Field : \E live, owned \in BOOLEAN :
                Store(s, f, t, live, owned)
    BY <2>1, <2>2 DEF Store, Assign, At
  <2>3. CASE \E s \in Slot : \E f \in Field : StoreConstant(s, f)
    BY <2>1, <2>3 DEF StoreConstant, Assign, At
  <2>4. CASE \E s \in Stack : \E o \in Object : Alloc(s, o)
    BY <2>4 DEF Alloc
  <2>5. CASE \E s \in Stack : Release(s)
    BY <2>1, <2>5 DEF Release, At
  <2>6. CASE \E s \in Slot, t \in Stack : Share(s, t)
    BY <2>6 DEF Share
  <2>7. CASE \E s \in Slot, t \in Stack : \E f \in Field : Load(s, f, t)
    BY <2>7 DEF Load
  <2>8. CASE \E s \in Stack, g \in Global : StoreGlobal(s, g)
    BY <2>8 DEF StoreGlobal
  <2>9. CASE GcCycle
    BY <2>9 DEF GcCycle
  <2> QED BY <1>1, <2>2, <2>3, <2>4, <2>5, <2>6, <2>7, <2>8, <2>9 DEF Mutator
<1>2. ASSUME NEW c, FreeReleasedObject(c), tracing_worklist' = tracing_worklist
      PROVE  (alive \ alive') \cap ToSet(tracing_worklist') = {}
  BY <1>0, <1>2, FreeReleasedCells
<1>3. CASE ReleasingMachine
  <2>1. CASE ReleasingReturn \/ SetReleasingWorking \/ ReleasingPop
    BY <2>1 DEF ReleasingReturn, SetReleasingWorking, ReleasingPop
  <2>2. ASSUME NEW f \in Field, ReleaseChild(f)
        PROVE  (alive \ alive') \cap ToSet(tracing_worklist') = {}
    BY <1>2, <2>2 DEF ReleaseChild
  <2>3. CASE ReleasingFree
    BY <1>2, <2>3 DEF ReleasingFree
  <2> QED BY <1>3, <2>1, <2>2, <2>3 DEF ReleasingMachine
<1>4. CASE TracingMachine
  <2>1. CASE TracingReturn \/ StartTracing \/ RootsCollected \/ TracingStepped
               \/ MutationsDrained \/ MutationStepped
    BY <2>1 DEF TracingReturn, StartTracing, RootsCollected, TracingStepped,
                MutationsDrained, MutationStepped
  <2>2. CASE LostCyclePop \/ ReclaimingDone \/ ScanSkip \/ ScanUnmarked \/ ScanEnqueue
    BY <2>2 DEF LostCyclePop, ReclaimingDone, ScanSkip, ScanUnmarked, ScanEnqueue
  <2>3. CASE \E s \in Stack : PushRoot(s)
    BY <2>3 DEF PushRoot
  <2>4. CASE \E f \in Field : TraceChild(f)
    BY <2>4 DEF TraceChild
  <2>5. CASE TracingPop
    <3>1. /\ tracing_worklist \in Seq(Object) /\ tracing_worklist # <<>>
          /\ alive' \in {alive, alive \ {Last(tracing_worklist)}}
          /\ tracing_worklist' = Front(tracing_worklist)
      BY <1>0, <2>5 DEF TracingPop, FreeCell, TypeOK
    <3>2. Last(tracing_worklist) \notin ToSet(tracing_worklist')
      BY <1>0, <3>1, PopOnce
    <3> QED BY <3>1, <3>2
  <2>6. CASE MutationPop
    BY <2>6 DEF MutationPop, FreeCell, FreedEarly
  <2>7. ASSUME NEW f \in Field, LostCycleChildDecr(f)
        PROVE  (alive \ alive') \cap ToSet(tracing_worklist') = {}
    BY <1>2, <2>7 DEF LostCycleChildDecr
  <2>8. CASE LostCycleFree
    BY <1>2, <2>8 DEF LostCycleFree
  <2> QED BY <1>4, <2>1, <2>2, <2>3, <2>4, <2>5, <2>6, <2>7, <2>8 DEF TracingMachine
<1> QED BY <1>1, <1>3, <1>4 DEF Next

\* Memory the tracer has queued is freed by two steps only, the program's immediate
\* free of a leaf and Mutation_Prepare: the tracing flag and Waiting_Remove protect it
\* from every other one.
THEOREM FreedUnderTracerCorrect == Spec => FreedUnderTracer
<1> DEFINE A == \A o \in (alive \ alive') \cap ToSet(tracing_worklist') :
                    \/ Layout[o] = "MonoImm" /\ rc[o] = 1 /\ pc = "mutator"
                    \/ pc' = "mutation_children" /\ o = Last(tracing_mutations_worklist)
<1>1. TypeInv /\ FlagInv /\ [Next]_vars => [A]_vars
  BY FreedStep DEF FreedEarly
<1> QED BY <1>1, TypeInvariant, FlagInvariant, PTL DEF Spec, FreedUnderTracer

-----------------------------------------------------------------------------
(***************************************************************************)
(* The scan of the candidates                                              *)
(***************************************************************************)

\* The candidate needs no turn, or had it.
Scanned(c) == Marked(c) \/ c \in children_released

\* The registry above the scan index is scanned, also before the scan begins, and
\* an object that waits to be freed has left the registry.
ScanInv ==
    /\ tracing_state # "Tracing_Idle" =>
           \A c \in candidate_flag :
               candidate_index[c] > current_candidate_check_index => Scanned(c)
    /\ waiting_remove \cap candidate_flag = {}

\* What a step may do to the candidates without hiding one from the scan.
ScanQuiet ==
    /\ UNCHANGED current_candidate_check_index
    /\ \A c \in candidate_flag' :
          \/ /\ c \in candidate_flag /\ candidate_index'[c] <= candidate_index[c]
             /\ mark'[c] = mark[c] \/ mark'[c] = tracing_current_bit_mark
             /\ c \in children_released => c \in children_released'
          \/ mark'[c] = tracing_current_bit_mark

LEMMA ScanKeep ==
    ASSUME TypeOK, TypeOK', ScanInv, ScanQuiet, waiting_remove' \cap candidate_flag' = {},
           \/ tracing_state' = "Tracing_Idle"
           \/ tracing_state # "Tracing_Idle" /\ tracing_current_bit_mark' = tracing_current_bit_mark
    PROVE  ScanInv'
<1>1. ASSUME NEW c \in candidate_flag', tracing_state # "Tracing_Idle",
             tracing_current_bit_mark' = tracing_current_bit_mark,
             candidate_index'[c] > current_candidate_check_index'
      PROVE  Scanned(c)'
  <2>1. CASE mark'[c] = tracing_current_bit_mark
    BY <1>1, <2>1 DEF Scanned, Marked
  <2>2. CASE /\ c \in candidate_flag /\ candidate_index'[c] <= candidate_index[c]
             /\ mark'[c] = mark[c] \/ mark'[c] = tracing_current_bit_mark
             /\ c \in children_released => c \in children_released'
    <3>1. c \in Object /\ candidate_index[c] \in Nat /\ candidate_index'[c] \in Nat
          /\ current_candidate_check_index \in Nat
      BY <2>2 DEF TypeOK
    <3>2. candidate_index[c] > current_candidate_check_index
      BY <1>1, <2>2, <3>1 DEF ScanQuiet
    <3>3. Scanned(c)
      BY <1>1, <2>2, <3>2 DEF ScanInv
    <3> QED BY <1>1, <2>2, <3>3 DEF Scanned, Marked
  <2> QED BY <2>1, <2>2 DEF ScanQuiet
<1> QED BY <1>1 DEF ScanInv

\* The index words of the registry are its positions.
LEMMA RegistryIndex ==
    ASSUME TypeOK, RegistryConsistent, NEW c \in candidate_flag
    PROVE  /\ candidate_index[c] \in 1 .. Len(cyclic_candidates)
           /\ cyclic_candidates[candidate_index[c]] = c
           /\ Len(cyclic_candidates) \in Nat /\ cyclic_candidates # <<>>
           /\ Last(cyclic_candidates) \in candidate_flag
           /\ candidate_index[Last(cyclic_candidates)] = Len(cyclic_candidates)
<1>1. cyclic_candidates \in Seq(Object)
  BY DEF TypeOK
<1>2. DOMAIN cyclic_candidates = 1 .. Len(cyclic_candidates) /\ Len(cyclic_candidates) \in Nat
  BY <1>1, LenProperties
<1>3. PICK i \in 1 .. Len(cyclic_candidates) : cyclic_candidates[i] = c
  BY <1>2 DEF RegistryConsistent, ToSet
<1>4. Len(cyclic_candidates) \in 1 .. Len(cyclic_candidates) /\ cyclic_candidates # <<>>
  BY <1>2, <1>3, EmptySeq
<1> QED BY <1>2, <1>3, <1>4 DEF RegistryConsistent, ToSet, Last

\* free_released_object moves one entry, to a lower index.
LEMMA FreeReleasedScan ==
    ASSUME TypeOK, RegistryConsistent, ScanInv, NEW o, FreeReleasedObject(o),
           UNCHANGED current_candidate_check_index
    PROVE  ScanQuiet /\ waiting_remove' \cap candidate_flag' = {}
<1>1. candidate_flag' = candidate_flag \ {o} /\ candidate_flag \subseteq Object
  BY DEF FreeReleasedObject, TypeOK
<1>2. ASSUME NEW c \in candidate_flag, c # o
      PROVE  candidate_index'[c] <= candidate_index[c]
  <2>1. candidate_index[c] \in Nat /\ candidate_index \in [Object -> Nat] /\ c \in Object
    BY <1>1 DEF TypeOK
  <2>2. CASE o \notin candidate_flag
    BY <2>1, <2>2 DEF FreeReleasedObject, registry
  <2>3. CASE o \in candidate_flag
    <3>1. /\ candidate_index' = candidate_index
             \/ candidate_index' = [candidate_index EXCEPT ![Last(cyclic_candidates)] = candidate_index[o]]
      BY <2>3 DEF FreeReleasedObject, RemoveCandidateAt
    <3>2. /\ candidate_index[o] \in 1 .. Len(cyclic_candidates) /\ Len(cyclic_candidates) \in Nat
          /\ candidate_index[Last(cyclic_candidates)] = Len(cyclic_candidates)
      BY <2>3, RegistryIndex
    <3> QED BY <2>1, <3>1, <3>2
  <2> QED BY <2>2, <2>3
<1>3. ASSUME NEW c \in candidate_flag, c # o
      PROVE  mark'[c] = mark[c] /\ (c \in children_released => c \in children_released')
  <2>1. CASE DeferFree(o)
    BY <2>1 DEF FreeReleasedObject
  <2>2. CASE ~DeferFree(o)
    BY <1>1, <1>3, <2>2 DEF FreeReleasedObject, FreeCell, TypeOK
  <2> QED BY <2>1, <2>2
<1>4. waiting_remove' \subseteq waiting_remove \cup {o}
  <2>1. CASE DeferFree(o)
    BY <2>1 DEF FreeReleasedObject
  <2>2. CASE ~DeferFree(o)
    BY <2>2 DEF FreeReleasedObject, FreeCell
  <2> QED BY <2>1, <2>2
<1> QED BY <1>1, <1>2, <1>3, <1>4 DEF ScanQuiet, ScanInv

\* The tracer frees only what has left the registry.
LEMMA FreeCellScan ==
    ASSUME TypeOK, ScanInv, NEW o \in waiting_remove, FreeCell(o),
           UNCHANGED <<current_candidate_check_index, candidate_flag, candidate_index>>
    PROVE  ScanQuiet /\ waiting_remove' \cap candidate_flag' = {}
<1>1. o \notin candidate_flag /\ candidate_flag \subseteq Object
  BY DEF ScanInv, TypeOK
<1>2. \A c \in candidate_flag : candidate_index[c] \in Nat
  BY <1>1 DEF TypeOK
<1>3. \A c \in candidate_flag : mark'[c] = mark[c] /\ (c \in children_released => c \in children_released')
  BY <1>1 DEF FreeCell, TypeOK
<1> QED BY <1>2, <1>3 DEF ScanQuiet, ScanInv, FreeCell

\* A step that leaves the registry alone and only marks, or gives up children, keeps
\* what is scanned.
LEMMA ScanSame ==
    ASSUME TypeOK, TypeOK', ScanInv,
           UNCHANGED <<candidate_flag, candidate_index, current_candidate_check_index,
                       tracing_current_bit_mark>>,
           children_released \subseteq children_released',
           waiting_remove' \subseteq waiting_remove,
           \A c \in Object : mark'[c] = mark[c] \/ mark'[c] = tracing_current_bit_mark,
           tracing_state # "Tracing_Idle" \/ tracing_state' = "Tracing_Idle"
    PROVE  ScanInv'
<1>1. \A c \in candidate_flag : c \in Object /\ candidate_index[c] \in Nat
  BY DEF TypeOK
<1>2. ScanQuiet
  BY <1>1 DEF ScanQuiet
<1>3. waiting_remove' \cap candidate_flag' = {}
  BY DEF ScanInv
<1> QED BY <1>2, <1>3, ScanKeep

\* syli_rt_object_decr marks a candidate as of the current generation, or no object.
LEMMA DecrMarks ==
    ASSUME TypeOK, NEW o
    PROVE  \A c \in Object : \/ MarkAfterDecr(o)[c] = mark[c]
                             \/ MarkAfterDecr(o)[c] = tracing_current_bit_mark
BY DEF TypeOK, MarkAfterDecr

\* A new candidate is registered past the scan index, and it is born marked.
LEMMA AllocScan ==
    ASSUME TypeOK, TypeOK', FlagInv, ScanInv, NEW s \in Stack, NEW o \in Object, Alloc(s, o)
    PROVE  ScanInv'
<1>1. o \notin waiting_remove
  <2>1. waiting_remove \subseteq ToSet(tracing_worklist)
    BY DEF FlagInv, TracingFlagExact, WaitingIsTraced
  <2>2. ToSet(tracing_worklist) \subseteq alive
    BY DEF Alloc, At, NoDangling, Queued
  <2> QED BY <2>1, <2>2 DEF Alloc
<1>2. /\ UNCHANGED <<waiting_remove, children_released, tracing_state,
                     tracing_current_bit_mark, current_candidate_check_index>>
      /\ candidate_flag' \subseteq candidate_flag \cup {o}
  BY DEF Alloc, state_vars
<1>3. \A c \in candidate_flag \ {o} : candidate_index'[c] = candidate_index[c]
  <2>1. candidate_index \in [Object -> Nat] /\ candidate_flag \subseteq Object
    BY DEF TypeOK
  <2>2. \/ candidate_index' = candidate_index
        \/ candidate_index' = [candidate_index EXCEPT ![o] = Len(cyclic_candidates) + 1]
    BY DEF Alloc, registry
  <2> QED BY <2>1, <2>2
<1>4. /\ mark'[o] = tracing_current_bit_mark
      /\ \A c \in Object \ {o} : mark'[c] = mark[c]
  BY DEF Alloc, BirthMark, TypeOK
<1>5. \A c \in candidate_flag : c \in Object /\ candidate_index[c] \in Nat
  BY DEF TypeOK
<1>6. ScanQuiet
  BY <1>2, <1>3, <1>4, <1>5 DEF ScanQuiet
<1>7. waiting_remove' \cap candidate_flag' = {}
  BY <1>1, <1>2 DEF ScanInv
<1> QED BY <1>2, <1>6, <1>7, ScanKeep

\* One turn of the scan: the entry it leaves behind is marked or had its children
\* given up, and a shortened registry hides none.
LEMMA ScanTurn ==
    ASSUME TypeOK, TypeOK', RegistryConsistent, ScanInv,
           tracing_state = "Reclaiming_Cyclic_Candidates", ScanIndex # 0,
           UNCHANGED <<candidate_flag, candidate_index, mark, waiting_remove,
                       tracing_current_bit_mark>>,
           children_released \subseteq children_released',
           current_candidate_check_index' = ScanIndex - 1,
           \/ Marked(cyclic_candidates[ScanIndex])
           \/ cyclic_candidates[ScanIndex] \in children_released'
    PROVE  ScanInv'
<1>1. ASSUME NEW c \in candidate_flag, candidate_index[c] > ScanIndex - 1
      PROVE  Marked(c) \/ c \in children_released'
  <2>1. /\ candidate_index[c] \in 1 .. Len(cyclic_candidates)
        /\ cyclic_candidates[candidate_index[c]] = c
        /\ Len(cyclic_candidates) \in Nat
    BY RegistryIndex
  <2>2. current_candidate_check_index \in Nat
    BY DEF TypeOK
  <2>3. CASE candidate_index[c] = ScanIndex
    BY <2>1, <2>3
  <2>4. CASE candidate_index[c] # ScanIndex
    <3>1. candidate_index[c] > current_candidate_check_index
      BY <1>1, <2>1, <2>2, <2>4 DEF ScanIndex
    <3> QED BY <3>1 DEF ScanInv, Scanned
  <2> QED BY <2>3, <2>4
<1> QED BY <1>1 DEF ScanInv, Scanned, Marked

\* Every step keeps the registry above the scan index scanned.
LEMMA ScanStep ==
    ASSUME TypeInv, TypeInv', FlagInv, RegistryConsistent, PhaseInv, ScanInv, [Next]_vars
    PROVE  ScanInv'
<1> USE DEF header_vars, flag_vars, registry, trace_lists, release_lists,
            state_vars, budgets, account, control, free_vars
<1> DEFINE Same == UNCHANGED <<candidate_flag, candidate_index, waiting_remove,
                               children_released, current_candidate_check_index,
                               tracing_current_bit_mark>>
           Marks(m) == \A c \in Object : m[c] = mark[c] \/ m[c] = tracing_current_bit_mark
           Phase == tracing_state # "Tracing_Idle" \/ tracing_state' = "Tracing_Idle"
<1>0. TypeOK /\ TypeOK'
  BY DEF TypeInv
<1>1. Same /\ Marks(mark') /\ Phase => ScanInv'
  BY <1>0, ScanSame
<1>2. Same /\ UNCHANGED mark /\ Phase => ScanInv'
  BY <1>1
<1>3. CASE Mutator
  <2>1. ASSUME NEW s, NEW f, NEW v, NEW ref, NEW live, NEW owned,
               Assign(s, f, v, ref, live, owned)
        PROVE  ScanInv'
    <3> DEFINE m == MarkAfterDecr(value[slot[s]][f])
    <3>1. Same /\ UNCHANGED tracing_state
      BY <2>1 DEF Assign
    <3>2. mark' = m \/ mark' = [m EXCEPT ![v] = tracing_current_bit_mark]
      BY <2>1 DEF Assign
    <3>3. Marks(m)
      BY <1>0, DecrMarks
    <3>4. DOMAIN m = Object
      BY <1>0 DEF TypeOK, MarkAfterDecr
    <3> HIDE DEF m
    <3>5. Marks(mark')
      BY <3>2, <3>3, <3>4
    <3> QED BY <1>1, <3>1, <3>5
  <2>2. CASE \E s \in Slot, t \in Stack : \E f \in Field : \E live, owned \in BOOLEAN :
                Store(s, f, t, live, owned)
    BY <2>1, <2>2 DEF Store
  <2>3. CASE \E s \in Slot : \E f \in Field : StoreConstant(s, f)
    BY <2>1, <2>3 DEF StoreConstant
  <2>4. CASE \E s \in Stack : \E o \in Object : Alloc(s, o)
    BY <1>0, <2>4, AllocScan
  <2>5. CASE \E s \in Stack : Release(s)
    <3>1. PICK s \in Stack : Release(s)
      BY <2>5
    <3>2. Same /\ UNCHANGED tracing_state /\ mark' = MarkAfterDecr(slot[s])
      BY <3>1 DEF Release
    <3>3. Marks(mark')
      BY <1>0, <3>2, DecrMarks
    <3> QED BY <1>1, <3>2, <3>3
  <2>6. CASE \E s \in Slot, t \in Stack : Share(s, t)
    BY <1>2, <2>6 DEF Share
  <2>7. CASE \E s \in Slot, t \in Stack : \E f \in Field : Load(s, f, t)
    BY <1>2, <2>7 DEF Load
  <2>8. CASE \E s \in Stack, g \in Global : StoreGlobal(s, g)
    BY <1>2, <2>8 DEF StoreGlobal
  <2>9. CASE GcCycle
    BY <1>2, <2>9 DEF GcCycle
  <2> QED BY <1>3, <2>2, <2>3, <2>4, <2>5, <2>6, <2>7, <2>8, <2>9 DEF Mutator
<1>4. ASSUME NEW o, FreeReleasedObject(o), UNCHANGED state_vars
      PROVE  ScanInv'
  BY <1>0, <1>4, FreeReleasedScan, ScanKeep
<1>5. CASE ReleasingMachine
  <2>1. CASE ReleasingReturn \/ SetReleasingWorking \/ ReleasingPop
    BY <1>2, <2>1 DEF ReleasingReturn, SetReleasingWorking, ReleasingPop
  <2>2. ASSUME NEW f \in Field, ReleaseChild(f)
        PROVE  ScanInv'
    <3> DEFINE o == value[walk_obj][f]
    <3>1. \/ Same /\ UNCHANGED mark
          \/ FreeReleasedObject(o)
          \/ Same /\ mark' = MarkAfterDecr(o)
      BY <2>2 DEF ReleaseChild
    <3>2. UNCHANGED state_vars
      BY <2>2 DEF ReleaseChild
    <3>3. Marks(MarkAfterDecr(o))
      BY <1>0, DecrMarks
    <3> HIDE DEF o
    <3> QED BY <1>1, <1>2, <1>4, <3>1, <3>2, <3>3
  <2>3. CASE ReleasingFree
    <3>1. FreeReleasedObject(walk_obj)
          /\ UNCHANGED <<tracing_state, tracing_current_bit_mark, current_candidate_check_index>>
      BY <2>3 DEF ReleasingFree
    <3> QED BY <1>0, <3>1, FreeReleasedScan, ScanKeep
  <2> QED BY <1>5, <2>1, <2>2, <2>3 DEF ReleasingMachine
<1>6. CASE TracingMachine
  <2>1. CASE TracingReturn \/ RootsCollected \/ TracingStepped \/ MutationsDrained
               \/ MutationStepped \/ ReclaimingDone \/ ScanEnqueue
    <3>1. Same /\ UNCHANGED mark
      BY <2>1 DEF TracingReturn, RootsCollected, TracingStepped, MutationsDrained,
                  MutationStepped, ReclaimingDone, ScanEnqueue
    <3>2. CASE TracingReturn \/ MutationStepped \/ ReclaimingDone \/ ScanEnqueue
      BY <1>2, <3>1, <3>2 DEF TracingReturn, MutationStepped, ReclaimingDone, ScanEnqueue
    <3>3. CASE RootsCollected \/ TracingStepped \/ MutationsDrained
      <4>1. tracing_state # "Tracing_Idle"
        BY <3>3 DEF PhaseInv, PhaseOK, At, RootsCollected, TracingStepped, MutationsDrained
      <4> QED BY <1>2, <3>1, <4>1
    <3> QED BY <2>1, <3>2, <3>3
  <2>2. CASE StartTracing
    <3>1. /\ UNCHANGED <<candidate_flag, candidate_index, cyclic_candidates, waiting_remove>>
          /\ current_candidate_check_index' = Len(cyclic_candidates)
      BY <2>2 DEF StartTracing
    <3>2. \A c \in candidate_flag : ~(candidate_index[c] > Len(cyclic_candidates))
      BY <1>0, RegistryIndex
    <3> QED BY <3>1, <3>2 DEF ScanInv
  <2>3. CASE \E s \in Stack : PushRoot(s)
    BY <1>2, <2>3 DEF PushRoot
  <2>4. CASE \E f \in Field : TraceChild(f)
    BY <1>2, <2>4 DEF TraceChild
  <2>5. CASE TracingPop
    <3> DEFINE o == Last(tracing_worklist)
    <3>1. UNCHANGED <<state_vars, candidate_flag, registry>>
      BY <2>5 DEF TracingPop
    <3>2. \/ o \in waiting_remove /\ FreeCell(o)
          \/ Same /\ UNCHANGED mark
          \/ Same /\ mark' = [mark EXCEPT ![o] = tracing_current_bit_mark]
      BY <2>5 DEF TracingPop
    <3> HIDE DEF o
    <3>3. CASE o \in waiting_remove /\ FreeCell(o)
      BY <1>0, <3>1, <3>3, FreeCellScan, ScanKeep
    <3>4. CASE Same /\ mark' = [mark EXCEPT ![o] = tracing_current_bit_mark]
      <4>1. Marks(mark')
        BY <1>0, <3>4 DEF TypeOK
      <4> QED BY <1>1, <3>1, <3>4, <4>1
    <3> QED BY <1>2, <3>1, <3>2, <3>3, <3>4
  <2>6. CASE MutationPop
    <3> DEFINE o == Last(tracing_mutations_worklist)
    <3>1. UNCHANGED <<state_vars, candidate_flag, registry>>
      BY <2>6 DEF MutationPop
    <3>2. \/ o \in waiting_remove /\ FreeCell(o)
          \/ Same /\ UNCHANGED mark
      BY <2>6 DEF MutationPop
    <3> HIDE DEF o
    <3>3. CASE o \in waiting_remove /\ FreeCell(o)
      BY <1>0, <3>1, <3>3, FreeCellScan, ScanKeep
    <3> QED BY <1>2, <3>1, <3>2, <3>3
  <2>7. ASSUME NEW f \in Field, LostCycleChildDecr(f)
        PROVE  ScanInv'
    <3>1. (Same /\ UNCHANGED mark) \/ FreeReleasedObject(value[walk_obj][f])
      BY <2>7 DEF LostCycleChildDecr
    <3>2. UNCHANGED state_vars
      BY <2>7 DEF LostCycleChildDecr
    <3> QED BY <1>2, <1>4, <3>1, <3>2
  <2>8. CASE LostCycleFree
    BY <1>4, <2>8 DEF LostCycleFree
  <2>9. CASE LostCyclePop
    BY <1>0, <2>9, ScanSame DEF LostCyclePop, LostCycleWalk
  <2>10. CASE ScanSkip
    <3>1. /\ UNCHANGED <<candidate_flag, candidate_index, mark, waiting_remove,
                         children_released, tracing_state, tracing_current_bit_mark>>
          /\ tracing_state = "Reclaiming_Cyclic_Candidates"
      BY <2>10 DEF ScanSkip, Reclaiming
    <3>2. CASE ScanIndex # 0
      <4>1. Marked(cyclic_candidates[ScanIndex]) /\ current_candidate_check_index' = ScanIndex - 1
        BY <2>10, <3>2 DEF ScanSkip
      <4> QED BY <1>0, <3>1, <3>2, <4>1, ScanTurn
    <3>3. CASE ScanIndex = 0
      <4>1. current_candidate_check_index # 0 /\ current_candidate_check_index \in Nat
        BY <1>0, <2>10 DEF ScanSkip, TypeOK
      <4>2. Len(cyclic_candidates) = 0
        BY <3>3, <4>1 DEF ScanIndex
      <4>3. \A c \in candidate_flag : FALSE
        BY <1>0, <4>2, RegistryIndex
      <4> QED BY <3>1, <4>3 DEF ScanInv
    <3> QED BY <3>2, <3>3
  <2>11. CASE ScanUnmarked
    <3>1. /\ UNCHANGED <<candidate_flag, candidate_index, mark, waiting_remove,
                         tracing_current_bit_mark>>
          /\ tracing_state = "Reclaiming_Cyclic_Candidates" /\ ScanIndex # 0
          /\ current_candidate_check_index' = ScanIndex - 1
          /\ children_released' = children_released \cup {cyclic_candidates[ScanIndex]}
      BY <2>11 DEF ScanUnmarked, Reclaiming, LostCycleWalk
    <3> QED BY <1>0, <3>1, ScanTurn
  <2> QED BY <1>6, <2>1, <2>2, <2>3, <2>4, <2>5, <2>6, <2>7, <2>8, <2>9, <2>10, <2>11
        DEF TracingMachine
<1>7. CASE UNCHANGED vars
  BY <1>2, <1>7 DEF vars
<1> QED BY <1>3, <1>5, <1>6, <1>7 DEF Next

LEMMA ScanInvariant == Spec => []ScanInv
<1>1. Init => ScanInv
  BY DEF Init, ScanInv
<1>2. TypeInv /\ TypeInv' /\ FlagInv /\ RegistryConsistent /\ PhaseInv /\ ScanInv /\ [Next]_vars
         => ScanInv'
  BY ScanStep
<1> QED BY <1>1, <1>2, TypeInvariant, FlagInvariant, RegistryCorrect, PhaseInvariant, PTL DEF Spec

\* When the scan of the candidates ends, every candidate left in the registry is
\* marked or had its turn.  The scan runs to its end within one slice, and what it
\* takes for lost leaves the registry under it; each swap-removal moves an entry
\* from above the index down or from scanned to scanned, and never from the part still
\* to scan to the part left behind.
THEOREM ScanCompleteCorrect == Spec => []ScanComplete
<1>1. TypeInv /\ RegistryConsistent /\ ScanInv => ScanComplete
  <2> SUFFICES ASSUME TypeInv, RegistryConsistent, ScanInv,
                      tracing_state = "Reclaiming_Cyclic_Candidates",
                      current_candidate_check_index = 0,
                      NEW c \in ToSet(cyclic_candidates)
               PROVE  Scanned(c)
    BY DEF ScanComplete, Scanned
  <2>1. TypeOK /\ c \in candidate_flag
    BY DEF TypeInv, RegistryConsistent
  <2>2. candidate_index[c] \in 1 .. Len(cyclic_candidates) /\ Len(cyclic_candidates) \in Nat
    BY <2>1, RegistryIndex
  <2> QED BY <2>1, <2>2 DEF ScanInv
<1> QED BY <1>1, TypeInvariant, RegistryCorrect, ScanInvariant, PTL

-----------------------------------------------------------------------------
(***************************************************************************)
(* The accounting of cyclic objects                                        *)
(***************************************************************************)

LEMMA CyclicFinite ==
    ASSUME TypeOK
    PROVE  IsFiniteSet(alive \cap Cyclic) /\ Cardinality(alive \cap Cyclic) \in Nat
<1>1. (alive \cap Cyclic) \in SUBSET Object
  BY DEF TypeOK
<1> QED BY <1>1, HeapAssumption, FS_Subset, FS_CardinalityType

\* A free that is accounted.
LEMMA AccountedFree ==
    ASSUME TypeOK, NEW o \in alive, alive' = alive \ {o}, cyclic_obj' = CyclicObjAfterFree(o)
    PROVE  Excess' = Excess
<1> DEFINE S == alive \cap Cyclic
<1>1. IsFiniteSet(S) /\ Cardinality(S) \in Nat /\ cyclic_obj \in Int
  BY CyclicFinite DEF TypeOK
<1>2. CASE o \in Cyclic
  <2>1. alive' \cap Cyclic = S \ {o} /\ o \in S
    BY <1>2
  <2> HIDE DEF S
  <2>2. Cardinality(S \ {o}) = Cardinality(S) - 1
    BY <1>1, <2>1, FS_RemoveElement
  <2>3. cyclic_obj' = cyclic_obj - 1
    BY <1>2 DEF CyclicObjAfterFree
  <2> QED BY <1>1, <2>1, <2>2, <2>3 DEF Excess, S
<1>3. CASE o \notin Cyclic
  BY <1>3 DEF Excess, CyclicObjAfterFree
<1> QED BY <1>2, <1>3

\* free_released_object accounts for what it frees.
LEMMA FreeReleasedAccount ==
    ASSUME TypeOK, NEW o \in alive, FreeReleasedObject(o)
    PROVE  Excess' = Excess
<1>1. CASE DeferFree(o)
  BY <1>1 DEF FreeReleasedObject, Excess
<1>2. CASE ~DeferFree(o)
  BY <1>2, AccountedFree DEF FreeReleasedObject, FreeCell
<1> QED BY <1>1, <1>2

\* What a step frees without accounting for it, if it is cyclic.
UnaccountedAt(o) ==
    \/ Layout[o] = "MonoImm" /\ pc = "mutator"
    \/ pc' = "mutation_children"

Unaccounted == {o \in (alive \ alive') \cap Cyclic : UnaccountedAt(o)}

\* A step that accounts for what it frees; a free that is not accounted.
Accounted ==
    /\ Excess' = Excess
    /\ alive \subseteq alive' \/ (pc # "mutator" /\ pc' # "mutation_children")
FreeUnaccounted ==
    UNCHANGED cyclic_obj /\ \E o : UnaccountedAt(o) /\ alive' = alive \ {o}

LEMMA AccountStep ==
    ASSUME TypeInv, [Next]_vars
    PROVE  Accounted \/ FreeUnaccounted
<1> USE DEF header_vars, flag_vars, registry, trace_lists, release_lists,
            state_vars, budgets, account, control, free_vars
<1> DEFINE Same == UNCHANGED <<alive, cyclic_obj>>
<1>0. TypeOK /\ (Same => Accounted)
  BY DEF TypeInv, Excess, Accounted
<1>1. CASE Mutator
  <2>0. ASSUME NEW c, pc = "mutator", alive' = AliveAfterDecr(c), UNCHANGED cyclic_obj
        PROVE  Accounted \/ FreeUnaccounted
    BY <1>0, <2>0 DEF AliveAfterDecr, FreeUnaccounted, UnaccountedAt
  <2>1. ASSUME NEW s, NEW f, NEW v, NEW ref, NEW live, NEW owned,
               Assign(s, f, v, ref, live, owned)
        PROVE  Accounted \/ FreeUnaccounted
    BY <2>0, <2>1 DEF Assign, At
  <2>2. CASE \E s \in Slot, t \in Stack : \E f \in Field : \E live, owned \in BOOLEAN :
                Store(s, f, t, live, owned)
    BY <2>1, <2>2 DEF Store
  <2>3. CASE \E s \in Slot : \E f \in Field : StoreConstant(s, f)
    BY <2>1, <2>3 DEF StoreConstant
  <2>4. CASE \E s \in Stack : \E o \in Object : Alloc(s, o)
    <3>1. PICK o \in Object : /\ o \notin alive /\ alive' = alive \cup {o}
                              /\ cyclic_obj' = IF o \in Cyclic THEN cyclic_obj + 1 ELSE cyclic_obj
      BY <2>4 DEF Alloc
    <3> DEFINE S == alive \cap Cyclic
    <3>2. IsFiniteSet(S) /\ Cardinality(S) \in Nat /\ cyclic_obj \in Int
      BY <1>0, CyclicFinite DEF TypeOK
    <3>3. CASE o \in Cyclic
      <4>1. alive' \cap Cyclic = S \cup {o} /\ o \notin S
        BY <3>1, <3>3
      <4> HIDE DEF S
      <4>2. Cardinality(S \cup {o}) = Cardinality(S) + 1
        BY <3>2, <4>1, FS_AddElement
      <4>3. cyclic_obj' = cyclic_obj + 1
        BY <3>1, <3>3
      <4>4. Excess = cyclic_obj - Cardinality(S) /\ Excess' = cyclic_obj' - Cardinality(S \cup {o})
        BY <4>1 DEF Excess, S
      <4> QED BY <3>1, <3>2, <4>2, <4>3, <4>4 DEF Accounted
    <3>4. CASE o \notin Cyclic
      <4>1. alive' \cap Cyclic = S /\ cyclic_obj' = cyclic_obj
        BY <3>1, <3>4
      <4> QED BY <3>1, <4>1 DEF Excess, Accounted
    <3> QED BY <3>3, <3>4
  <2>5. CASE \E s \in Stack : Release(s)
    BY <2>0, <2>5 DEF Release, At
  <2>6. CASE \E s \in Slot, t \in Stack : Share(s, t)
    BY <1>0, <2>6 DEF Share
  <2>7. CASE \E s \in Slot, t \in Stack : \E f \in Field : Load(s, f, t)
    BY <1>0, <2>7 DEF Load
  <2>8. CASE \E s \in Stack, g \in Global : StoreGlobal(s, g)
    BY <1>0, <2>8 DEF StoreGlobal
  <2>9. CASE GcCycle
    BY <1>0, <2>9 DEF GcCycle
  <2> QED BY <1>1, <2>2, <2>3, <2>4, <2>5, <2>6, <2>7, <2>8, <2>9 DEF Mutator
<1>2. ASSUME NoDangling, pc \in WalkPCs \ {"roots"}, NEW f \in walk_todo
      PROVE  value[walk_obj][f] \in alive
  BY <1>2 DEF TypeInv, WalkOK, NoDangling, WalkPCs
<1>3. ASSUME NoDangling, pc \in {"release_children", "lost_children"}
      PROVE  walk_obj \in alive
  BY <1>3 DEF TypeInv, WalkOK, NoDangling
<1>4. CASE ReleasingMachine
  <2>1. CASE ReleasingReturn \/ SetReleasingWorking \/ ReleasingPop
    BY <1>0, <2>1 DEF ReleasingReturn, SetReleasingWorking, ReleasingPop
  <2>2. ASSUME NEW f \in Field, ReleaseChild(f)
        PROVE  Accounted
    <3>1. Same \/ FreeReleasedObject(value[walk_obj][f])
      BY <2>2 DEF ReleaseChild
    <3>2. value[walk_obj][f] \in alive
      BY <1>2, <2>2 DEF ReleaseChild, At, IsLeast, WalkPCs
    <3>3. pc # "mutator" /\ pc' # "mutation_children"
      BY <2>2 DEF ReleaseChild, At
    <3> QED BY <1>0, <3>1, <3>2, <3>3, FreeReleasedAccount DEF Accounted
  <2>3. CASE ReleasingFree
    BY <1>0, <1>3, <2>3, FreeReleasedAccount DEF ReleasingFree, At, Accounted
  <2> QED BY <1>4, <2>1, <2>2, <2>3 DEF ReleasingMachine
<1>5. CASE TracingMachine
  <2>1. CASE TracingReturn \/ StartTracing \/ RootsCollected \/ TracingStepped
               \/ MutationsDrained \/ MutationStepped
    BY <1>0, <2>1 DEF TracingReturn, StartTracing, RootsCollected, TracingStepped,
                      MutationsDrained, MutationStepped
  <2>2. CASE LostCyclePop \/ ReclaimingDone \/ ScanSkip \/ ScanUnmarked \/ ScanEnqueue
    BY <1>0, <2>2 DEF LostCyclePop, ReclaimingDone, ScanSkip, ScanUnmarked, ScanEnqueue
  <2>3. CASE \E s \in Stack : PushRoot(s)
    BY <1>0, <2>3 DEF PushRoot
  <2>4. CASE \E f \in Field : TraceChild(f)
    BY <1>0, <2>4 DEF TraceChild
  <2>5. CASE TracingPop
    <3> DEFINE o == Last(tracing_worklist)
    <3>1. tracing_worklist \in Seq(Object) /\ tracing_worklist # <<>>
      BY <1>0, <2>5 DEF TypeOK, TracingPop
    <3>2. o \in alive
      BY <2>5, <3>1, PopSet DEF TracingPop, At, NoDangling, Queued
    <3>3. Same \/ (alive' = alive \ {o} /\ cyclic_obj' = CyclicObjAfterFree(o))
      BY <2>5 DEF TracingPop, FreeCell
    <3>4. pc # "mutator" /\ pc' # "mutation_children"
      BY <2>5 DEF TracingPop, At
    <3> HIDE DEF o
    <3> QED BY <1>0, <3>2, <3>3, <3>4, AccountedFree DEF Accounted
  <2>6. CASE MutationPop
    BY <1>0, <2>6 DEF MutationPop, FreeCell, FreeUnaccounted, UnaccountedAt
  <2>7. ASSUME NEW f \in Field, LostCycleChildDecr(f)
        PROVE  Accounted
    <3>1. Same \/ FreeReleasedObject(value[walk_obj][f])
      BY <2>7 DEF LostCycleChildDecr
    <3>2. value[walk_obj][f] \in alive
      BY <1>2, <2>7 DEF LostCycleChildDecr, At, IsLeast, WalkPCs
    <3>3. pc # "mutator" /\ pc' # "mutation_children"
      BY <2>7 DEF LostCycleChildDecr, At
    <3> QED BY <1>0, <3>1, <3>2, <3>3, FreeReleasedAccount DEF Accounted
  <2>8. CASE LostCycleFree
    BY <1>0, <1>3, <2>8, FreeReleasedAccount DEF LostCycleFree, At, Accounted
  <2> QED BY <1>5, <2>1, <2>2, <2>3, <2>4, <2>5, <2>6, <2>7, <2>8 DEF TracingMachine
<1>6. CASE UNCHANGED vars
  BY <1>0, <1>6 DEF vars
<1> QED BY <1>1, <1>4, <1>5, <1>6 DEF Next

LEMMA InitExcess == Init => cyclic_obj \in Int /\ Excess = 0
<1>1. {} \cap Cyclic = {} /\ Cardinality({}) = 0
  BY FS_EmptySet
<1> QED BY <1>1 DEF Init, Excess

LEMMA DriftStep ==
    ASSUME TypeInv, [Next]_vars
    PROVE  /\ Excess' = Excess + Cardinality(Unaccounted)
           /\ Cardinality(Unaccounted) \in Nat /\ Excess \in Int
<1> DEFINE S == alive \cap Cyclic
<1>1. IsFiniteSet(S) /\ Cardinality(S) \in Nat /\ cyclic_obj \in Int
  BY CyclicFinite DEF TypeInv, TypeOK
<1>2. Excess \in Int
  BY <1>1 DEF Excess
<1>3. CASE Unaccounted = {} /\ Excess' = Excess
  BY <1>2, <1>3, FS_EmptySet
<1>4. CASE Accounted
  BY <1>3, <1>4 DEF Accounted, Unaccounted, UnaccountedAt
<1>5. CASE FreeUnaccounted
  <2>1. PICK o : UnaccountedAt(o) /\ alive' = alive \ {o} /\ UNCHANGED cyclic_obj
    BY <1>5 DEF FreeUnaccounted
  <2>2. CASE o \in S
    <3>1. alive' \cap Cyclic = S \ {o} /\ Unaccounted = {o}
      BY <2>1, <2>2 DEF Unaccounted, UnaccountedAt
    <3>2. Cardinality(S \ {o}) = Cardinality(S) - 1
      BY <1>1, <2>2, FS_RemoveElement
    <3>3. Cardinality({o}) = 1
      BY FS_Singleton
    <3>4. Excess' = cyclic_obj - Cardinality(S \ {o}) /\ Excess = cyclic_obj - Cardinality(S)
      BY <2>1, <3>1 DEF Excess
    <3> HIDE DEF S
    <3> QED BY <1>1, <1>2, <3>1, <3>2, <3>3, <3>4
  <2>3. CASE o \notin S
    <3>1. alive' \cap Cyclic = alive \cap Cyclic /\ Unaccounted = {}
      BY <2>1, <2>3 DEF Unaccounted
    <3> QED BY <1>3, <2>1, <3>1 DEF Excess
  <2> QED BY <2>2, <2>3
<1> QED BY <1>4, <1>5, AccountStep

\* The account of cyclic objects drifts from the heap in two steps only, the
\* immediate free of a cyclic leaf and Mutation_Prepare's free, by one object each:
\* every other free, through whatever worklist and however often it is deferred, is
\* accounted exactly once.
THEOREM AccountingDriftCorrect == Spec => AccountingDrift
<1> DEFINE A == Excess' = Excess + Cardinality({o \in (alive \ alive') \cap Cyclic :
                              \/ Layout[o] = "MonoImm" /\ pc = "mutator"
                              \/ pc' = "mutation_children"})
<1>1. TypeInv /\ [Next]_vars => [A]_vars
  BY DriftStep DEF Unaccounted, UnaccountedAt
<1> QED BY <1>1, TypeInvariant, PTL DEF Spec, AccountingDrift

\* The accounting is never below the heap: gc_account_cyclic_free is called at
\* most once for every cyclic object allocated, so cyclic_obj_dealloc never
\* passes cyclic_obj_alloc.
AccountingNeverLow == cyclic_obj >= Cardinality(alive \cap Cyclic)

\* The test in gc_current_cyclic_obj that keeps the unsigned difference of the two
\* counters from wrapping around never fails: the accounting errs only upwards.
THEOREM AccountingNeverLowCorrect == Spec => []AccountingNeverLow
<1>1. Init => Excess >= 0
  BY InitExcess
<1>2. TypeInv /\ Excess >= 0 /\ [Next]_vars => (Excess >= 0)'
  BY DriftStep
<1>3. TypeInv /\ Excess >= 0 => AccountingNeverLow
  BY CyclicFinite DEF TypeInv, TypeOK, Excess, AccountingNeverLow
<1> QED BY <1>1, <1>2, <1>3, TypeInvariant, PTL DEF Spec

=============================================================================
