---------------------------- MODULE SyliGCReclaim ----------------------------
(***************************************************************************)
(* Proofs that the memory manager implements the abstract heap, for every  *)
(* heap, budget and threshold, as long as marking misses nothing and the   *)
(* two collectors share no object; that a program without cyclic types     *)
(* needs neither condition; and that no step of the program or of the      *)
(* tracer hides a live object from a trace under way, so that a trace that *)
(* meets marked roots when it ends has marked all the program can reach.   *)
(***************************************************************************)
EXTENDS SyliGCCounting

-----------------------------------------------------------------------------
(***************************************************************************)
(* The shape of the heap                                                   *)
(***************************************************************************)

\* Only reference fields hold references, and only to objects their type allows.
FieldsTyped ==
    \A o \in Object : \A f \in Field :
        value[o][f] # Null => f \in Refs[o] /\ value[o][f] \in MayPoint[o]

\* The lost-cycle collector handles allocated objects with fields.
LostTyped ==
    /\ candidate_flag \subseteq CyclicMutable
    /\ children_released \subseteq alive
    /\ \A o \in children_released \cup ToSet(lost_cycle_worklist) : Layout[o] # "MonoImm"

ShapeInv == FieldsTyped /\ LostTyped /\ RegistryConsistent

\* Clearing the fields of a cell keeps the others typed.
LEMMA FreeCellTyped ==
    ASSUME TypeOK, FieldsTyped, NEW o, FreeCell(o)
    PROVE  FieldsTyped'
  BY DEF TypeOK, FieldsTyped, FreeCell, NoFields

LEMMA FreeReleasedTyped ==
    ASSUME TypeOK, FieldsTyped, NEW o, FreeReleasedObject(o)
    PROVE  FieldsTyped'
<1>1. CASE DeferFree(o)
  BY <1>1 DEF FreeReleasedObject, FieldsTyped
<1>2. CASE ~DeferFree(o)
  BY <1>2, FreeCellTyped DEF FreeReleasedObject
<1> QED BY <1>1, <1>2

\* Every step keeps the fields typed.
LEMMA FieldsTypedStep ==
    ASSUME BaseInv, FieldsTyped, [Next]_vars
    PROVE  FieldsTyped'
<1> USE DEF header_vars, free_vars
<1>0. TypeOK /\ (value' = value => FieldsTyped')
  BY DEF BaseInv, TypeInv, FieldsTyped
<1>1. CASE Mutator
  <2>1. ASSUME NEW s \in Slot, NEW f \in Field, NEW v, NEW ref, NEW live, NEW owned,
               Assign(s, f, v, ref, live, owned)
        PROVE  FieldsTyped'
    <3>1. PICK x : x = slot[s]
      OBVIOUS
    <3>2. /\ x # Null /\ f \in Refs[x] /\ (v # Null => v \in MayPoint[x])
          /\ value' = [value EXCEPT ![x][f] = v]
      BY <2>1, <3>1 DEF Assign
    <3>3. x \in Object
      BY <1>0, <3>1, <3>2 DEF TypeOK, Ref
    <3>4. \A p \in Object : \A g \in Field :
             value'[p][g] = IF p = x /\ g = f THEN v ELSE value[p][g]
      BY <1>0, <3>2, <3>3 DEF TypeOK
    <3> QED BY <3>2, <3>4 DEF FieldsTyped
  <2>2. ASSUME NEW s \in Stack, NEW o \in Object, Alloc(s, o)
        PROVE  FieldsTyped'
    BY <1>0, <2>2 DEF Alloc, FieldsTyped, NoFields, TypeOK
  <2>3. CASE \E s \in Slot, t \in Stack : \E f \in Field : \E live, owned \in BOOLEAN :
                Store(s, f, t, live, owned)
    BY <2>1, <2>3 DEF Store
  <2>4. CASE \E s \in Slot : \E f \in Field : StoreConstant(s, f)
    BY <2>1, <2>4 DEF StoreConstant
  <2>5. CASE \E s \in Stack : Release(s)
    BY <1>0, <2>5 DEF Release
  <2>6. CASE \E s \in Slot, t \in Stack : Share(s, t)
    BY <1>0, <2>6 DEF Share
  <2>7. CASE \E s \in Slot, t \in Stack : \E f \in Field : Load(s, f, t)
    BY <1>0, <2>7 DEF Load
  <2>8. CASE \E s \in Stack, g \in Global : StoreGlobal(s, g)
    BY <1>0, <2>8 DEF StoreGlobal
  <2>9. CASE GcCycle
    BY <1>0, <2>9 DEF GcCycle
  <2> QED BY <1>1, <2>2, <2>3, <2>4, <2>5, <2>6, <2>7, <2>8, <2>9 DEF Mutator
<1>2. CASE ReleasingMachine
  <2>1. CASE ReleasingReturn \/ SetReleasingWorking \/ ReleasingPop
    BY <1>0, <2>1 DEF ReleasingReturn, SetReleasingWorking, ReleasingPop
  <2>2. ASSUME NEW f \in Field, ReleaseChild(f)
        PROVE  FieldsTyped'
    BY <1>0, <2>2, FreeReleasedTyped DEF ReleaseChild
  <2>3. CASE ReleasingFree
    BY <1>0, <2>3, FreeReleasedTyped DEF ReleasingFree
  <2> QED BY <1>2, <2>1, <2>2, <2>3 DEF ReleasingMachine
<1>3. CASE TracingMachine
  <2>1. CASE TracingReturn \/ StartTracing \/ RootsCollected \/ TracingStepped
               \/ MutationsDrained \/ MutationStepped
    BY <1>0, <2>1 DEF TracingReturn, StartTracing, RootsCollected, TracingStepped,
                      MutationsDrained, MutationStepped
  <2>2. CASE LostCyclePop \/ ReclaimingDone \/ ScanSkip \/ ScanUnmarked \/ ScanEnqueue
    BY <1>0, <2>2 DEF LostCyclePop, ReclaimingDone, ScanSkip, ScanUnmarked, ScanEnqueue
  <2>3. CASE \E s \in Stack : PushRoot(s)
    BY <1>0, <2>3 DEF PushRoot
  <2>4. CASE \E f \in Field : TraceChild(f)
    BY <1>0, <2>4 DEF TraceChild
  <2>5. CASE TracingPop \/ MutationPop
    BY <1>0, <2>5, FreeCellTyped DEF TracingPop, MutationPop
  <2>6. ASSUME NEW f \in Field, LostCycleChildDecr(f)
        PROVE  FieldsTyped'
    BY <1>0, <2>6, FreeReleasedTyped DEF LostCycleChildDecr
  <2>7. CASE LostCycleFree
    BY <1>0, <2>7, FreeReleasedTyped DEF LostCycleFree
  <2> QED BY <1>3, <2>1, <2>2, <2>3, <2>4, <2>5, <2>6, <2>7 DEF TracingMachine
<1>4. CASE UNCHANGED vars
  BY <1>0, <1>4 DEF vars
<1> QED BY <1>1, <1>2, <1>3, <1>4 DEF Next

\* What the frees do to the sets of the lost-cycle collector.
LEMMA FreeCellLost ==
    ASSUME LostTyped, NEW o, FreeCell(o), candidate_flag' \subseteq candidate_flag,
           UNCHANGED lost_cycle_worklist
    PROVE  LostTyped'
  BY DEF LostTyped, FreeCell

LEMMA FreeReleasedLost ==
    ASSUME LostTyped, NEW o, FreeReleasedObject(o), UNCHANGED lost_cycle_worklist
    PROVE  LostTyped'
<1>1. CASE DeferFree(o)
  BY <1>1 DEF FreeReleasedObject, LostTyped
<1>2. CASE ~DeferFree(o)
  BY <1>2, FreeCellLost DEF FreeReleasedObject
<1> QED BY <1>1, <1>2

\* Every step keeps the lost-cycle collector to allocated objects with fields.
LEMMA LostTypedStep ==
    ASSUME BaseInv, CountInv, RegistryConsistent, LostTyped, [Next]_vars
    PROVE  LostTyped'
<1> USE DEF header_vars, flag_vars, free_vars
<1>0. /\ TypeOK /\ LostTyped
      /\ UNCHANGED <<alive, candidate_flag, children_released, lost_cycle_worklist>> => LostTyped'
  BY DEF BaseInv, TypeInv, LostTyped
<1>1. CASE Mutator
  <2>0. ASSUME NEW c, alive' = AliveAfterDecr(c),
               UNCHANGED <<candidate_flag, children_released, lost_cycle_worklist>>
        PROVE  LostTyped'
    BY <2>0 DEF LostTyped, AliveAfterDecr
  <2>1. ASSUME NEW s \in Slot, NEW f \in Field, NEW v, NEW ref, NEW live, NEW owned,
               Assign(s, f, v, ref, live, owned)
        PROVE  LostTyped'
    BY <2>0, <2>1 DEF Assign
  <2>2. ASSUME NEW s \in Stack, NEW o \in Object, Alloc(s, o)
        PROVE  LostTyped'
    BY <2>2 DEF Alloc, LostTyped
  <2>3. CASE \E s \in Slot, t \in Stack : \E f \in Field : \E live, owned \in BOOLEAN :
                Store(s, f, t, live, owned)
    BY <2>1, <2>3 DEF Store
  <2>4. CASE \E s \in Slot : \E f \in Field : StoreConstant(s, f)
    BY <2>1, <2>4 DEF StoreConstant
  <2>5. CASE \E s \in Stack : Release(s)
    BY <2>0, <2>5 DEF Release
  <2>6. CASE \E s \in Slot, t \in Stack : Share(s, t)
    BY <1>0, <2>6 DEF Share
  <2>7. CASE \E s \in Slot, t \in Stack : \E f \in Field : Load(s, f, t)
    BY <1>0, <2>7 DEF Load
  <2>8. CASE \E s \in Stack, g \in Global : StoreGlobal(s, g)
    BY <1>0, <2>8 DEF StoreGlobal
  <2>9. CASE GcCycle
    BY <1>0, <2>9 DEF GcCycle
  <2> QED BY <1>1, <2>2, <2>3, <2>4, <2>5, <2>6, <2>7, <2>8, <2>9 DEF Mutator
<1>2. CASE ReleasingMachine
  <2>1. CASE ReleasingReturn \/ SetReleasingWorking \/ ReleasingPop
    BY <1>0, <2>1 DEF ReleasingReturn, SetReleasingWorking, ReleasingPop
  <2>2. ASSUME NEW f \in Field, ReleaseChild(f)
        PROVE  LostTyped'
    BY <1>0, <2>2, FreeReleasedLost DEF ReleaseChild
  <2>3. CASE ReleasingFree
    BY <1>0, <2>3, FreeReleasedLost DEF ReleasingFree
  <2> QED BY <1>2, <2>1, <2>2, <2>3 DEF ReleasingMachine
<1>3. CASE TracingMachine
  <2>1. CASE TracingReturn \/ StartTracing \/ RootsCollected \/ TracingStepped
               \/ MutationsDrained \/ MutationStepped
    BY <1>0, <2>1 DEF TracingReturn, StartTracing, RootsCollected, TracingStepped,
                      MutationsDrained, MutationStepped
  <2>2. CASE ReclaimingDone \/ ScanSkip
    BY <1>0, <2>2 DEF ReclaimingDone, ScanSkip
  <2>3. CASE \E s \in Stack : PushRoot(s)
    BY <1>0, <2>3 DEF PushRoot
  <2>4. CASE \E f \in Field : TraceChild(f)
    BY <1>0, <2>4 DEF TraceChild
  <2>5. CASE TracingPop \/ MutationPop
    BY <1>0, <2>5, FreeCellLost DEF TracingPop, MutationPop
  <2>6. ASSUME NEW f \in Field, LostCycleChildDecr(f)
        PROVE  LostTyped'
    <3>1. PICK c : c = value[walk_obj][f]
      OBVIOUS
    <3>2. \/ UNCHANGED <<alive, candidate_flag, children_released, lost_cycle_worklist>>
          \/ FreeReleasedObject(c) /\ UNCHANGED lost_cycle_worklist
          \/ /\ Layout[c] # "MonoImm" /\ lost_cycle_worklist' = Append(lost_cycle_worklist, c)
             /\ UNCHANGED <<alive, candidate_flag, children_released>>
      BY <2>6, <3>1 DEF LostCycleChildDecr
    <3>3. c \in Object /\ lost_cycle_worklist \in Seq(Object)
      BY <1>0, <2>6, <3>1, ChildIsObject DEF LostCycleChildDecr, At, IsLeast, WalkPCs, BaseInv, TypeOK
    <3>4. ToSet(Append(lost_cycle_worklist, c)) = ToSet(lost_cycle_worklist) \cup {c}
      BY <3>3, AppendSet
    <3> QED BY <1>0, <3>2, <3>4, FreeReleasedLost DEF LostTyped
  <2>7. CASE LostCycleFree
    BY <1>0, <2>7, FreeReleasedLost DEF LostCycleFree
  <2>8. CASE LostCyclePop
    <3>1. lost_cycle_worklist \in Seq(Object) /\ lost_cycle_worklist # <<>>
      BY <1>0, <2>8 DEF TypeOK, LostCyclePop
    <3>2. ToSet(lost_cycle_worklist) =
             ToSet(Front(lost_cycle_worklist)) \cup {Last(lost_cycle_worklist)}
      BY <3>1, PopSet
    <3>3. ToSet(lost_cycle_worklist) \subseteq alive
      BY <2>8 DEF LostCyclePop, Reclaiming, At, NoDangling, Queued
    <3> QED BY <2>8, <3>2, <3>3 DEF LostCyclePop, LostCycleWalk, LostTyped
  <2>9. CASE ScanUnmarked
    <3>1. PICK o : o = cyclic_candidates[ScanIndex]
      OBVIOUS
    <3>2. o \in ToSet(cyclic_candidates)
      BY <2>9, <3>1, ScanEntry DEF ScanUnmarked
    <3>3. o \in alive
      BY <2>9, <3>2 DEF ScanUnmarked, Reclaiming, At, NoDangling, Queued
    <3>4. Layout[o] # "MonoImm"
      BY <3>2, HeaderAssumption DEF RegistryConsistent, LostTyped
    <3>5. children_released' = children_released \cup {o}
      BY <2>9, <3>1 DEF ScanUnmarked, LostCycleWalk
    <3> QED BY <2>9, <3>3, <3>4, <3>5 DEF ScanUnmarked, LostTyped
  <2>10. CASE ScanEnqueue
    <3>1. PICK w : w = walk_obj
      OBVIOUS
    <3>2. /\ w \in children_released /\ w \in Object /\ lost_cycle_worklist \in Seq(Object)
          /\ UNCHANGED <<alive, candidate_flag, children_released>>
          /\ lost_cycle_worklist' \in {lost_cycle_worklist, Append(lost_cycle_worklist, w)}
      BY <1>0, <2>10, <3>1 DEF ScanEnqueue, At, CountInv, DownOK, TypeOK
    <3>3. ToSet(Append(lost_cycle_worklist, w)) = ToSet(lost_cycle_worklist) \cup {w}
      BY <3>2, AppendSet
    <3> QED BY <3>2, <3>3 DEF LostTyped
  <2> QED BY <1>3, <2>1, <2>2, <2>3, <2>4, <2>5, <2>6, <2>7, <2>8, <2>9, <2>10 DEF TracingMachine
<1>4. CASE UNCHANGED vars
  BY <1>0, <1>4 DEF vars
<1> QED BY <1>1, <1>2, <1>3, <1>4 DEF Next

LEMMA ShapeStep ==
    ASSUME BaseInv, CountInv, ShapeInv, [Next]_vars
    PROVE  ShapeInv'
  BY FieldsTypedStep, LostTypedStep, RegistryStep DEF ShapeInv, BaseInv

LEMMA ShapeInit == Init => ShapeInv
  BY DEF Init, ShapeInv, FieldsTyped, LostTyped, RegistryConsistent, ToSet, NoFields

-----------------------------------------------------------------------------
(***************************************************************************)
(* Reachability                                                            *)
(***************************************************************************)

\* Reachable is closed, and is contained in every closed set.
LEMMA ReachableIsLeast ==
    ASSUME TypeOK
    PROVE  /\ Heap!Closed(Heap!Reachable)
           /\ Heap!Reachable \subseteq Object
           /\ \A S \in SUBSET Object : Heap!Closed(S) => Heap!Reachable \subseteq S
<1>1. Heap!Reachable \subseteq Object
  BY DEF Heap!Reachable
<1>2. \A S \in SUBSET Object : Heap!Closed(S) => Heap!Reachable \subseteq S
  BY DEF Heap!Reachable
<1>3. ASSUME NEW s \in Slot, slot[s] # Null
      PROVE  slot[s] \in Heap!Reachable
  BY <1>3 DEF Heap!Reachable, Heap!Closed, TypeOK, Ref
<1>4. ASSUME NEW o \in Heap!Reachable, NEW f \in Field, value[o][f] # Null
      PROVE  value[o][f] \in Heap!Reachable
  <2>1. value[o][f] \in Object
    BY <1>1, <1>4 DEF TypeOK, Ref
  <2> QED BY <1>4, <2>1 DEF Heap!Reachable, Heap!Closed
<1> QED BY <1>1, <1>2, <1>3, <1>4 DEF Heap!Closed

\* What the next state can reach is bounded by any set closed in it.
LEMMA ReachableNext ==
    ASSUME NEW S \in SUBSET Object,
           \A s \in Slot : slot'[s] # Null => slot'[s] \in S,
           \A o \in S : \A f \in Field : value'[o][f] # Null => value'[o][f] \in S
    PROVE  Heap!Reachable' \subseteq S
<1>1. Heap!Closed(S)'
  BY DEF Heap!Closed
<1> QED BY <1>1 DEF Heap!Reachable

\* The objects the program can reach are allocated and referenced, and no
\* collector is freeing them, provided none is torn down.
LEMMA ReachableIsLive ==
    ASSUME BaseInv, CountInv, ShapeInv, children_released \cap Heap!Reachable = {}
    PROVE  \A o \in Heap!Reachable : o \in alive /\ rc[o] # 0 /\ o \notin Dying
<1> DEFINE R == Heap!Reachable
           S == {o \in R : o \in alive /\ rc[o] # 0 /\ o \notin Dying}
<1>1. TypeOK
  BY DEF BaseInv, TypeInv
<1>2. Heap!Closed(R) /\ R \subseteq Object
  BY <1>1, ReachableIsLeast
<1>3. ASSUME NEW s \in Slot, slot[s] # Null
      PROVE  slot[s] \in S
  <2>1. slot[s] \in R
    BY <1>2, <1>3 DEF Heap!Closed
  <2> QED BY <1>3, <2>1, HeldNotDying
<1>4. ASSUME NEW o \in S, NEW f \in Field, value[o][f] # Null
      PROVE  value[o][f] \in S
  <2>1. value[o][f] \in R /\ o \in Object
    BY <1>2, <1>4 DEF Heap!Closed
  <2>2. f \in OwnFields(o)
    BY <1>2, <1>4 DEF OwnFields, ShapeInv, FieldsTyped
  <2>3. o \notin children_released /\ o \notin waiting_remove
    BY DEF Dying
  <2>4. pc \in DownPCs => o # walk_obj
    <3>1. CASE pc = "scan_children"
      BY <3>1, <2>3 DEF CountInv, DownOK
    <3>2. CASE pc \in {"release_children", "lost_children"}
      BY <1>2, <3>2 DEF Dying
    <3> QED BY <3>1, <3>2 DEF DownPCs
  <2>5. HeldFields(o) = OwnFields(o)
    BY <2>3, <2>4 DEF HeldFields, DownPCs
  <2>6. Target(o, f) = value[o][f]
    BY <2>2, <2>5 DEF Target
  <2> QED BY <1>2, <1>4, <2>1, <2>6, HeldNotDying
<1>5. Heap!Closed(S)
  BY <1>3, <1>4 DEF Heap!Closed
<1>6. R \subseteq S
  <2>1. S \in SUBSET Object
    BY <1>2
  <2> HIDE DEF S
  <2> QED BY <1>1, <1>5, <2>1, ReachableIsLeast
<1> QED BY <1>6

-----------------------------------------------------------------------------
(***************************************************************************)
(* What a step does to the heap the program sees                           *)
(***************************************************************************)

\* The part of the state the abstract heap, the marks and the flags consist of.
heap_vars == <<alive, value, slot, mark, tracing_current_bit_mark>>

\* A step of a collector frees cells and may set marks: it changes nothing else
\* of what the program sees.
CollectorEffect ==
    /\ slot' = slot
    /\ alive' \subseteq alive
    /\ \A p \in Object : value'[p] = value[p] \/ (p \notin alive' /\ value'[p] = NoFields)
    /\ \A p \in alive' : mark'[p] \in {mark[p], tracing_current_bit_mark}
    /\ children_released' \subseteq children_released \/ LostCyclePop \/ ScanUnmarked

\* The effect of any step, provided the collectors freed nothing reachable.
StepEffect ==
    /\ Heap!Reachable' \subseteq alive' => Heap!Next
    /\ Heap!Reachable' \subseteq Heap!Reachable \cup (alive' \ alive)
    /\ \A p \in alive' : IF p \in alive THEN mark'[p] \in {mark[p], tracing_current_bit_mark}
                         ELSE mark'[p] = tracing_current_bit_mark
    /\ children_released' \subseteq children_released \/ LostCyclePop \/ ScanUnmarked

\* How the state of the tracer and its mark generation move.
PhaseEffect ==
    /\ tracing_state # "Tracing_Idle" => tracing_current_bit_mark' = tracing_current_bit_mark
    /\ tracing_state' = "Reclaiming_Cyclic_Candidates" /\ tracing_state' # tracing_state
         => UNCHANGED heap_vars

LEMMA FreeCellEffect ==
    ASSUME TypeOK, NEW o, FreeCell(o)
    PROVE  /\ alive' \subseteq alive
           /\ \A p \in Object : value'[p] = value[p] \/ (p \notin alive' /\ value'[p] = NoFields)
           /\ \A p \in alive' : mark'[p] \in {mark[p], tracing_current_bit_mark}
           /\ children_released' \subseteq children_released
  BY DEF TypeOK, FreeCell

LEMMA FreeReleasedEffect ==
    ASSUME TypeOK, NEW o, FreeReleasedObject(o)
    PROVE  /\ alive' \subseteq alive
           /\ \A p \in Object : value'[p] = value[p] \/ (p \notin alive' /\ value'[p] = NoFields)
           /\ \A p \in alive' : mark'[p] \in {mark[p], tracing_current_bit_mark}
           /\ children_released' \subseteq children_released
<1>1. CASE DeferFree(o)
  BY <1>1 DEF FreeReleasedObject
<1>2. CASE ~DeferFree(o)
  BY <1>2, FreeCellEffect DEF FreeReleasedObject
<1> QED BY <1>1, <1>2

\* The steps of both machines are steps of a collector.
LEMMA MachineEffect ==
    ASSUME BaseInv, GcCycle \/ ReleasingMachine \/ TracingMachine
    PROVE  CollectorEffect
<1> USE DEF header_vars, flag_vars, free_vars, CollectorEffect
<1>0. TypeOK
  BY DEF BaseInv, TypeInv
<1>1. CASE GcCycle \/ ReleasingReturn \/ SetReleasingWorking \/ ReleasingPop
  BY <1>1 DEF GcCycle, ReleasingReturn, SetReleasingWorking, ReleasingPop
<1>2. ASSUME NEW f \in Field, ReleaseChild(f)
      PROVE  CollectorEffect
  <2>1. PICK c : c = value[walk_obj][f]
    OBVIOUS
  <2>2. slot' = slot /\ \/ UNCHANGED <<alive, value, mark, children_released>>
                        \/ FreeReleasedObject(c)
                        \/ mark' = MarkAfterDecr(c) /\ UNCHANGED <<alive, value, children_released>>
    BY <1>2, <2>1 DEF ReleaseChild
  <2>3. CASE UNCHANGED <<alive, value, mark, children_released>>
    BY <2>2, <2>3
  <2>4. CASE FreeReleasedObject(c)
    BY <1>0, <2>2, <2>4, FreeReleasedEffect
  <2>5. CASE mark' = MarkAfterDecr(c) /\ UNCHANGED <<alive, value, children_released>>
    BY <1>0, <2>2, <2>5 DEF MarkAfterDecr, TypeOK
  <2> QED BY <2>2, <2>3, <2>4, <2>5
<1>3. CASE ReleasingFree
  BY <1>0, <1>3, FreeReleasedEffect DEF ReleasingFree
<1>4. CASE TracingReturn \/ StartTracing \/ RootsCollected \/ TracingStepped
             \/ MutationsDrained \/ MutationStepped
  BY <1>4 DEF TracingReturn, StartTracing, RootsCollected, TracingStepped,
              MutationsDrained, MutationStepped
<1>5. CASE LostCyclePop \/ ReclaimingDone \/ ScanSkip \/ ScanUnmarked \/ ScanEnqueue
  BY <1>5 DEF LostCyclePop, ReclaimingDone, ScanSkip, ScanUnmarked, ScanEnqueue
<1>6. CASE \E s \in Stack : PushRoot(s)
  BY <1>6 DEF PushRoot
<1>7. CASE \E f \in Field : TraceChild(f)
  BY <1>7 DEF TraceChild
<1>8. CASE TracingPop \/ MutationPop
  <2>1. PICK o : slot' = slot /\ \/ UNCHANGED <<alive, value, children_released, mark>>
                                 \/ FreeCell(o)
                                 \/ /\ mark' = [mark EXCEPT ![o] = tracing_current_bit_mark]
                                    /\ UNCHANGED <<alive, value, children_released>>
    BY <1>8 DEF TracingPop, MutationPop
  <2>2. CASE UNCHANGED <<alive, value, children_released, mark>>
    BY <2>1, <2>2
  <2>3. CASE FreeCell(o)
    BY <1>0, <2>1, <2>3, FreeCellEffect
  <2>4. CASE /\ mark' = [mark EXCEPT ![o] = tracing_current_bit_mark]
             /\ UNCHANGED <<alive, value, children_released>>
    BY <1>0, <2>1, <2>4 DEF TypeOK
  <2> QED BY <2>1, <2>2, <2>3, <2>4
<1>9. ASSUME NEW f \in Field, LostCycleChildDecr(f)
      PROVE  CollectorEffect
  BY <1>0, <1>9, FreeReleasedEffect DEF LostCycleChildDecr
<1>10. CASE LostCycleFree
  BY <1>0, <1>10, FreeReleasedEffect DEF LostCycleFree
<1> QED BY <1>1, <1>2, <1>3, <1>4, <1>5, <1>6, <1>7, <1>8, <1>9, <1>10
        DEF ReleasingMachine, TracingMachine

\* A step of a collector is a step of the abstract one.
LEMMA CollectorStep ==
    ASSUME BaseInv, CollectorEffect
    PROVE  StepEffect
<1>1. TypeOK
  BY DEF BaseInv, TypeInv
<1>2. PICK S : S = Heap!Reachable
  OBVIOUS
<1>3. S \in SUBSET Object /\ Heap!Closed(S)
  BY <1>1, <1>2, ReachableIsLeast
<1>4. Heap!Reachable' \subseteq S
  <2>1. \A s \in Slot : slot'[s] # Null => slot'[s] \in S
    BY <1>3 DEF CollectorEffect, Heap!Closed
  <2>2. \A o \in S : \A f \in Field : value'[o][f] # Null => value'[o][f] \in S
    BY <1>3 DEF CollectorEffect, Heap!Closed, NoFields
  <2> QED BY <1>3, <2>1, <2>2, ReachableNext
<1>5. ASSUME Heap!Reachable' \subseteq alive'
      PROVE  Heap!Next
  <2>1. \A o \in Heap!Reachable' : value'[o] = value[o]
    <3>1. Heap!Reachable' \subseteq Object
      BY DEF Heap!Reachable
    <3> QED BY <1>5, <3>1 DEF CollectorEffect
  <2>2. Heap!Collect
    BY <1>5, <2>1 DEF Heap!Collect, Heap!Collected, CollectorEffect
  <2> QED BY <2>2 DEF Heap!Next
<1> QED BY <1>2, <1>4, <1>5 DEF CollectorEffect, StepEffect

\* An operation of the program that moves references between variables, and
\* frees at most what it dropped.
LEMMA SlotReach ==
    ASSUME TypeOK, value' = value,
           \A s \in Slot : slot'[s] # Null => slot'[s] \in Heap!Reachable
    PROVE  /\ Heap!Reachable' \subseteq Heap!Reachable
           /\ alive' \subseteq alive /\ Heap!Reachable' \subseteq alive' => Heap!Collected(alive, value)
<1>1. PICK S : S = Heap!Reachable
  OBVIOUS
<1>2. S \in SUBSET Object /\ Heap!Closed(S)
  BY <1>1, ReachableIsLeast
<1>3. Heap!Reachable' \subseteq S
  BY <1>1, <1>2, ReachableNext DEF Heap!Closed
<1> QED BY <1>1, <1>3 DEF Heap!Collected

\* syli_rt_object_decr only sets marks of the current generation, and frees at
\* most its argument.
LEMMA DecrEffect ==
    ASSUME TypeOK, NEW c, NEW p \in Object
    PROVE  /\ AliveAfterDecr(c) \subseteq alive
           /\ MarkAfterDecr(c)[p] \in {mark[p], tracing_current_bit_mark}
  BY DEF TypeOK, AliveAfterDecr, MarkAfterDecr

LEMMA AllocEffect ==
    ASSUME BaseInv, NEW s \in Stack, NEW o \in Object, Alloc(s, o)
    PROVE  StepEffect
<1>1. TypeOK /\ s \in Slot /\ o \notin alive
  BY DEF BaseInv, TypeInv, Stack, Alloc
<1>2. PICK S : S = Heap!Reachable
  OBVIOUS
<1>3. S \in SUBSET Object /\ Heap!Closed(S)
  BY <1>1, <1>2, ReachableIsLeast
<1>4. /\ alive' = alive \cup {o} /\ value' = [value EXCEPT ![o] = NoFields]
      /\ slot' = [slot EXCEPT ![s] = o] /\ slot[s] = Null
      /\ mark' = [mark EXCEPT ![o] = tracing_current_bit_mark]
      /\ children_released' = children_released
  BY DEF Alloc, BirthMark
<1>5. Heap!Reachable' \subseteq S \cup {o}
  <2>1. \A t \in Slot : slot'[t] # Null => slot'[t] \in S \cup {o}
    BY <1>1, <1>3, <1>4 DEF Heap!Closed, TypeOK
  <2>2. \A p \in S \cup {o} : \A f \in Field : value'[p][f] # Null => value'[p][f] \in S \cup {o}
    BY <1>1, <1>3, <1>4 DEF Heap!Closed, TypeOK, NoFields
  <2>3. S \cup {o} \in SUBSET Object
    BY <1>3
  <2> QED BY <2>1, <2>2, <2>3, ReachableNext
<1>6. ASSUME Heap!Reachable' \subseteq alive'
      PROVE  Heap!Next
  <2>1. Heap!New(s, o)
    BY <1>1, <1>4, <1>6 DEF Heap!New, Heap!Collected, NoFields
  <2> QED BY <1>1, <2>1 DEF Heap!Next
<1>7. \A p \in alive' : IF p \in alive THEN mark'[p] \in {mark[p], tracing_current_bit_mark}
                         ELSE mark'[p] = tracing_current_bit_mark
  BY <1>1, <1>4 DEF TypeOK
<1> QED BY <1>1, <1>2, <1>4, <1>5, <1>6, <1>7 DEF StepEffect

LEMMA ReleaseEffect ==
    ASSUME BaseInv, NEW s \in Stack, Release(s)
    PROVE  StepEffect
<1> USE DEF flag_vars
<1>1. TypeOK /\ s \in Slot /\ Heap!Closed(Heap!Reachable)
  BY ReachableIsLeast DEF BaseInv, TypeInv, Stack
<1>2. /\ value' = value /\ slot' = [slot EXCEPT ![s] = Null] /\ slot[s] # Null
      /\ alive' = AliveAfterDecr(slot[s]) /\ mark' = MarkAfterDecr(slot[s])
      /\ children_released' = children_released
  BY DEF Release
<1>3. \A t \in Slot : slot'[t] # Null => slot'[t] \in Heap!Reachable
  BY <1>1, <1>2 DEF Heap!Closed, TypeOK
<1>4. /\ alive' \subseteq alive
      /\ \A p \in alive' : mark'[p] \in {mark[p], tracing_current_bit_mark}
  <2>1. alive' \subseteq alive /\ alive \subseteq Object
    BY <1>1, <1>2 DEF AliveAfterDecr, TypeOK
  <2>2. \A p \in Object : MarkAfterDecr(slot[s])[p] \in {mark[p], tracing_current_bit_mark}
    BY <1>1, DecrEffect
  <2> QED BY <1>2, <2>1, <2>2
<1>5. ASSUME Heap!Reachable' \subseteq alive'
      PROVE  Heap!Next
  <2>1. Heap!Drop(s)
    BY <1>1, <1>2, <1>3, <1>4, <1>5, SlotReach DEF Heap!Drop
  <2> QED BY <1>1, <2>1 DEF Heap!Next
<1> QED BY <1>1, <1>2, <1>3, <1>4, <1>5, SlotReach DEF StepEffect

LEMMA ShareEffect ==
    ASSUME BaseInv, NEW s \in Slot, NEW t \in Stack, Share(s, t)
    PROVE  StepEffect
<1> USE DEF flag_vars
<1>1. TypeOK /\ t \in Slot /\ Heap!Closed(Heap!Reachable)
  BY ReachableIsLeast DEF BaseInv, TypeInv, Stack
<1>2. /\ UNCHANGED <<alive, value, mark, children_released>>
      /\ slot' = [slot EXCEPT ![t] = slot[s]] /\ slot[s] # Null /\ slot[t] = Null
  BY DEF Share
<1>3. \A u \in Slot : slot'[u] # Null => slot'[u] \in Heap!Reachable
  BY <1>1, <1>2 DEF Heap!Closed, TypeOK
<1>4. ASSUME Heap!Reachable' \subseteq alive'
      PROVE  Heap!Next
  <2>1. Heap!Copy(s, t)
    BY <1>1, <1>2, <1>3, <1>4, SlotReach DEF Heap!Copy
  <2> QED BY <1>1, <2>1 DEF Heap!Next
<1> QED BY <1>1, <1>2, <1>3, <1>4, SlotReach DEF StepEffect

LEMMA LoadEffect ==
    ASSUME BaseInv, NEW s \in Slot, NEW t \in Stack, NEW f \in Field, Load(s, f, t)
    PROVE  StepEffect
<1> USE DEF flag_vars
<1>1. TypeOK /\ t \in Slot /\ Heap!Closed(Heap!Reachable)
  BY ReachableIsLeast DEF BaseInv, TypeInv, Stack
<1>2. /\ UNCHANGED <<alive, value, mark, children_released>>
      /\ slot' = [slot EXCEPT ![t] = value[slot[s]][f]] /\ slot[s] # Null /\ slot[t] = Null
      /\ value[slot[s]][f] # Null
  BY DEF Load, OwnFields
<1>3. \A u \in Slot : slot'[u] # Null => slot'[u] \in Heap!Reachable
  <2>1. slot[s] \in Heap!Reachable
    BY <1>1, <1>2 DEF Heap!Closed
  <2>2. value[slot[s]][f] \in Heap!Reachable
    BY <1>1, <1>2, <2>1 DEF Heap!Closed
  <2> QED BY <1>1, <1>2, <2>2 DEF Heap!Closed, TypeOK
<1>4. ASSUME Heap!Reachable' \subseteq alive'
      PROVE  Heap!Next
  <2>1. Heap!Read(s, f, t)
    BY <1>1, <1>2, <1>3, <1>4, SlotReach DEF Heap!Read
  <2> QED BY <1>1, <2>1 DEF Heap!Next
<1> QED BY <1>1, <1>2, <1>3, <1>4, SlotReach DEF StepEffect

LEMMA StoreGlobalEffect ==
    ASSUME BaseInv, NEW s \in Stack, NEW g \in Global, StoreGlobal(s, g)
    PROVE  StepEffect
<1> USE DEF flag_vars, header_vars
<1>1. TypeOK /\ s \in Slot /\ g \in Slot /\ Heap!Closed(Heap!Reachable)
  BY ReachableIsLeast, HeapAssumption DEF BaseInv, TypeInv, Stack
<1>2. /\ UNCHANGED <<alive, value, mark, children_released>>
      /\ slot' = [slot EXCEPT ![s] = Null, ![g] = slot[s]] /\ slot[s] # Null /\ slot[g] = Null
  BY DEF StoreGlobal
<1>3. \A u \in Slot : slot'[u] # Null => slot'[u] \in Heap!Reachable
  BY <1>1, <1>2 DEF Heap!Closed, TypeOK
<1>4. ASSUME Heap!Reachable' \subseteq alive'
      PROVE  Heap!Next
  <2>1. Heap!Move(s, g)
    BY <1>1, <1>2, <1>3, <1>4, SlotReach DEF Heap!Move
  <2> QED BY <1>1, <2>1 DEF Heap!Next
<1> QED BY <1>1, <1>2, <1>3, <1>4, SlotReach DEF StepEffect

LEMMA AssignEffect ==
    ASSUME BaseInv, NEW s \in Slot, NEW f \in Field, NEW ref \in Slot,
           NEW v \in Ref, v # Null => slot[ref] = v,
           NEW live \in BOOLEAN, NEW owned, Assign(s, f, v, ref, live, owned)
    PROVE  StepEffect
<1> USE DEF flag_vars
<1>1. TypeOK
  BY DEF BaseInv, TypeInv
<1>2. PICK S, x, old : S = Heap!Reachable /\ x = slot[s] /\ old = value[x][f]
  OBVIOUS
<1>3. S \in SUBSET Object /\ Heap!Closed(S)
  BY <1>1, <1>2, ReachableIsLeast
<1>4. /\ x # Null /\ value' = [value EXCEPT ![x][f] = v] /\ alive' = AliveAfterDecr(old)
      /\ slot' \in {slot, [slot EXCEPT ![ref] = Null]}
      /\ v = Null => slot' = slot
      /\ children_released' = children_released
      /\ \/ mark' = MarkAfterDecr(old)
         \/ mark' = [MarkAfterDecr(old) EXCEPT ![v] = tracing_current_bit_mark]
  BY <1>2 DEF Assign
<1>5. x \in S /\ x \in Object /\ (v # Null => v \in S)
  BY <1>2, <1>3, <1>4 DEF Heap!Closed
<1>6. Heap!Reachable' \subseteq S
  <2>1. \A t \in Slot : slot'[t] # Null => slot'[t] \in S
    BY <1>1, <1>3, <1>4 DEF Heap!Closed, TypeOK
  <2>2. \A p \in S : \A g \in Field :
            value'[p][g] = IF p = x /\ g = f THEN v ELSE value[p][g]
    BY <1>1, <1>3, <1>4, <1>5 DEF TypeOK
  <2>3. \A p \in S : \A g \in Field : value'[p][g] # Null => value'[p][g] \in S
    BY <1>3, <1>5, <2>2 DEF Heap!Closed
  <2> QED BY <1>3, <2>1, <2>3, ReachableNext
<1>7. /\ alive' \subseteq alive
      /\ \A p \in alive' : mark'[p] \in {mark[p], tracing_current_bit_mark}
  <2>1. alive' \subseteq alive /\ alive \subseteq Object
    BY <1>1, <1>4 DEF AliveAfterDecr, TypeOK
  <2>2. MarkAfterDecr(old) = [p \in Object |-> MarkAfterDecr(old)[p]]
    BY <1>1 DEF MarkAfterDecr, TypeOK
  <2>3. \A p \in Object : MarkAfterDecr(old)[p] \in {mark[p], tracing_current_bit_mark}
    BY <1>1, DecrEffect
  <2> QED BY <1>4, <2>1, <2>2, <2>3
<1>8. ASSUME Heap!Reachable' \subseteq alive'
      PROVE  Heap!Next
  <2>1. CASE v # Null
    <3>1. Heap!Write(s, f, ref)
      BY <1>2, <1>4, <1>7, <1>8, <2>1 DEF Heap!Write, Heap!Collected
    <3> QED BY <3>1 DEF Heap!Next
  <2>2. CASE v = Null
    <3>1. Heap!Clear(s, f)
      BY <1>2, <1>4, <1>7, <1>8, <2>2 DEF Heap!Clear, Heap!Collected
    <3> QED BY <3>1 DEF Heap!Next
  <2> QED BY <2>1, <2>2
<1> QED BY <1>2, <1>4, <1>6, <1>7, <1>8 DEF StepEffect

\* Every step of SyliGC is a step of the abstract heap, as long as nothing
\* reachable is freed.
LEMMA NextEffect ==
    ASSUME BaseInv, Next
    PROVE  StepEffect
<1>0. Stack \subseteq Slot
  BY DEF Stack
<1>1. ASSUME NEW s \in Slot, NEW t \in Stack, NEW f \in Field, NEW live \in BOOLEAN,
             NEW owned \in BOOLEAN, Store(s, f, t, live, owned)
      PROVE  StepEffect
  <2>1. slot[t] \in Ref
    BY <1>0 DEF BaseInv, TypeInv, TypeOK
  <2> QED BY <1>0, <1>1, <2>1, AssignEffect DEF Store
<1>2. ASSUME NEW s \in Slot, NEW f \in Field, StoreConstant(s, f)
      PROVE  StepEffect
  BY <1>2, AssignEffect DEF StoreConstant, Ref
<1>3. CASE GcCycle \/ ReleasingMachine \/ TracingMachine
  BY <1>3, MachineEffect, CollectorStep
<1>4. CASE Mutator
  BY <1>1, <1>2, <1>3, <1>4, AllocEffect, ReleaseEffect, ShareEffect, LoadEffect,
     StoreGlobalEffect DEF Mutator
<1> QED BY <1>3, <1>4 DEF Next

\* The generation changes only when an idle tracer starts, and a trace turns to
\* the candidates in a step that changes nothing else.
LEMMA NextPhase ==
    ASSUME BaseInv, Next
    PROVE  PhaseEffect
<1> USE DEF header_vars, state_vars, PhaseEffect, heap_vars
<1> DEFINE Same == UNCHANGED <<tracing_state, tracing_current_bit_mark>>
<1>0. Same => PhaseEffect
  OBVIOUS
<1>1. CASE Mutator
  <2>1. ASSUME NEW s, NEW f, NEW v, NEW ref, NEW live, NEW owned,
               Assign(s, f, v, ref, live, owned)
        PROVE  Same
    BY <2>1 DEF Assign
  <2>2. CASE \E s \in Slot, t \in Stack : \E f \in Field : \E live, owned \in BOOLEAN :
                Store(s, f, t, live, owned)
    BY <1>0, <2>1, <2>2 DEF Store
  <2>3. CASE \E s \in Slot : \E f \in Field : StoreConstant(s, f)
    BY <1>0, <2>1, <2>3 DEF StoreConstant
  <2>4. CASE \E s \in Stack : \E o \in Object : Alloc(s, o)
    BY <1>0, <2>4 DEF Alloc
  <2>5. CASE \E s \in Stack : Release(s)
    BY <1>0, <2>5 DEF Release
  <2>6. CASE \E s \in Slot, t \in Stack : Share(s, t)
    BY <1>0, <2>6 DEF Share
  <2>7. CASE \E s \in Slot, t \in Stack : \E f \in Field : Load(s, f, t)
    BY <1>0, <2>7 DEF Load
  <2>8. CASE \E s \in Stack, g \in Global : StoreGlobal(s, g)
    BY <1>0, <2>8 DEF StoreGlobal
  <2>9. CASE GcCycle
    BY <1>0, <2>9 DEF GcCycle
  <2> QED BY <1>1, <2>2, <2>3, <2>4, <2>5, <2>6, <2>7, <2>8, <2>9 DEF Mutator
<1>2. CASE ReleasingMachine
  <2>1. CASE \E f \in Field : ReleaseChild(f)
    BY <1>0, <2>1 DEF ReleaseChild
  <2>2. CASE ReleasingReturn \/ SetReleasingWorking \/ ReleasingPop \/ ReleasingFree
    BY <1>0, <2>2 DEF ReleasingReturn, SetReleasingWorking, ReleasingPop, ReleasingFree
  <2> QED BY <1>2, <2>1, <2>2 DEF ReleasingMachine
<1>3. CASE TracingMachine
  <2>1. CASE TracingReturn \/ TracingPop \/ MutationPop \/ MutationStepped \/ LostCyclePop
               \/ LostCycleFree \/ ScanSkip \/ ScanUnmarked \/ ScanEnqueue
    BY <1>0, <2>1 DEF TracingReturn, TracingPop, MutationPop, MutationStepped, LostCyclePop,
                      LostCycleFree, ScanSkip, ScanUnmarked, ScanEnqueue
  <2>2. CASE StartTracing \/ ReclaimingDone
    BY <2>2 DEF StartTracing, ReclaimingDone
  <2>3. CASE RootsCollected \/ TracingStepped \/ MutationsDrained
    BY <2>3 DEF RootsCollected, TracingStepped, MutationsDrained
  <2>4. CASE \E s \in Stack : PushRoot(s)
    BY <1>0, <2>4 DEF PushRoot
  <2>5. CASE \E f \in Field : TraceChild(f)
    BY <1>0, <2>5 DEF TraceChild
  <2>6. CASE \E f \in Field : LostCycleChildDecr(f)
    BY <1>0, <2>6 DEF LostCycleChildDecr
  <2> QED BY <1>3, <2>1, <2>2, <2>3, <2>4, <2>5, <2>6 DEF TracingMachine
<1> QED BY <1>1, <1>2, <1>3 DEF Next

-----------------------------------------------------------------------------
(***************************************************************************)
(* Only garbage is collected                                               *)
(***************************************************************************)

\* When the trace turns to the candidates, it has marked everything traceable
\* that the program can reach.
Handover ==
    tracing_state # tracing_state' /\ tracing_state' = "Reclaiming_Cyclic_Candidates"
      => MarkedIn(Heap!Reachable)

\* Nothing that is torn down is reachable, and while candidates are reclaimed the
\* reachable objects are marked.
NotTorn == children_released \cap Heap!Reachable = {}

ReclaimInv ==
    /\ NotTorn
    /\ tracing_state = "Reclaiming_Cyclic_Candidates" => MarkedIn(Heap!Reachable)

\* The invariants this section builds on.
SafeInv == BaseInv /\ CountInv /\ ShapeInv

ReachableOK == \A o \in Heap!Reachable : o \in alive /\ rc[o] # 0 /\ o \notin Dying

LEMMA ReachableIsOK == SafeInv /\ NotTorn => ReachableOK
  BY ReachableIsLive DEF SafeInv, NotTorn, ReachableOK

LEMMA ReachableIsOKNext == SafeInv' /\ NotTorn' => ReachableOK'
<1>1. SafeInv /\ NotTorn => ReachableOK
  BY ReachableIsOK
<1> QED BY <1>1, PTL

\* A step tears down only what the program cannot reach.
LEMMA NotTornStep ==
    ASSUME SafeInv, ReclaimInv, Next
    PROVE  NotTorn'
<1>1. StepEffect /\ TypeOK
  BY NextEffect DEF SafeInv, BaseInv, TypeInv
<1>2. CASE children_released' \subseteq children_released
  <2>1. children_released \subseteq alive
    BY DEF SafeInv, ShapeInv, LostTyped
  <2> QED BY <1>1, <1>2, <2>1 DEF StepEffect, ReclaimInv, NotTorn
<1>3. CASE LostCyclePop \/ ScanUnmarked
  <2>1. PICK o : /\ children_released' = children_released \cup {o}
                 /\ \/ o = Last(lost_cycle_worklist) /\ lost_cycle_worklist # <<>>
                    \/ /\ o = cyclic_candidates[ScanIndex] /\ ScanIndex # 0 /\ ~Marked(o)
                       /\ tracing_state = "Reclaiming_Cyclic_Candidates"
    BY <1>3 DEF LostCyclePop, ScanUnmarked, LostCycleWalk, Reclaiming
  <2>2. o \notin Heap!Reachable
    <3>1. CASE o = Last(lost_cycle_worklist) /\ lost_cycle_worklist # <<>>
      <4>1. o \in ToSet(lost_cycle_worklist)
        BY <1>1, <3>1, PopSet DEF TypeOK
      <4>2. o \in Dying
        BY <4>1 DEF Dying
      <4> QED BY <4>2, ReachableIsOK DEF ReclaimInv, ReachableOK
    <3>2. CASE /\ o = cyclic_candidates[ScanIndex] /\ ScanIndex # 0 /\ ~Marked(o)
               /\ tracing_state = "Reclaiming_Cyclic_Candidates"
      <4>1. o \in candidate_flag
        BY <3>2, ScanEntry DEF SafeInv, ShapeInv, RegistryConsistent
      <4>2. o \in Traceable
        BY <4>1, HeaderAssumption DEF SafeInv, ShapeInv, LostTyped
      <4> QED BY <3>2, <4>2 DEF ReclaimInv, MarkedIn
    <3> QED BY <2>1, <3>1, <3>2
  <2>3. alive' = alive
    BY <1>3 DEF LostCyclePop, ScanUnmarked, header_vars
  <2>4. Heap!Reachable' \subseteq Heap!Reachable
    BY <1>1, <2>3 DEF StepEffect
  <2> QED BY <2>1, <2>2, <2>4 DEF ReclaimInv, NotTorn
<1> QED BY <1>1, <1>2, <1>3 DEF StepEffect

\* While candidates are reclaimed the reachable objects stay marked.
LEMMA MarkedStep ==
    ASSUME SafeInv, ReclaimInv, Next, Handover, ReachableOK',
           tracing_state' = "Reclaiming_Cyclic_Candidates"
    PROVE  MarkedIn(Heap!Reachable)'
<1>1. StepEffect /\ PhaseEffect
  BY NextEffect, NextPhase DEF SafeInv
<1>2. CASE tracing_state = "Reclaiming_Cyclic_Candidates"
  <2>1. tracing_current_bit_mark' = tracing_current_bit_mark
    BY <1>1, <1>2 DEF PhaseEffect
  <2>2. ASSUME NEW o \in Heap!Reachable', o \in Traceable
        PROVE  mark'[o] = tracing_current_bit_mark
    <3>1. o \in alive'
      BY DEF ReachableOK
    <3>2. CASE o \in alive
      <4>1. o \in Heap!Reachable
        BY <1>1, <3>2 DEF StepEffect
      <4>2. mark[o] = tracing_current_bit_mark
        BY <1>2, <2>2, <4>1 DEF ReclaimInv, MarkedIn, Marked
      <4> QED BY <1>1, <3>1, <3>2, <4>2 DEF StepEffect
    <3>3. CASE o \notin alive
      BY <1>1, <3>1, <3>3 DEF StepEffect
    <3> QED BY <3>2, <3>3
  <2> QED BY <2>1, <2>2 DEF MarkedIn, Marked
<1>3. CASE tracing_state # "Reclaiming_Cyclic_Candidates"
  <2>1. UNCHANGED heap_vars
    BY <1>1, <1>3 DEF PhaseEffect
  <2>2. MarkedIn(Heap!Reachable)
    BY <1>3 DEF Handover
  <2>3. Heap!Reachable' \subseteq Heap!Reachable
    BY <1>1, <2>1 DEF StepEffect, heap_vars
  <2> QED BY <2>1, <2>2, <2>3 DEF MarkedIn, Marked, heap_vars
<1> QED BY <1>2, <1>3

LEMMA ReclaimStep ==
    ASSUME SafeInv, SafeInv', ReclaimInv, [Next]_vars, [Handover]_vars
    PROVE  ReclaimInv'
<1>1. CASE Next /\ Handover
  <2>1. NotTorn'
    BY <1>1, NotTornStep
  <2>2. ReachableOK'
    BY <2>1, ReachableIsOKNext
  <2> QED BY <1>1, <2>1, <2>2, MarkedStep DEF ReclaimInv
<1>2. CASE UNCHANGED vars
  <2>1. UNCHANGED <<children_released, value, slot, mark, tracing_current_bit_mark, tracing_state>>
    BY <1>2 DEF vars, header_vars, flag_vars, state_vars
  <2>2. Heap!Reachable' = Heap!Reachable
    BY <2>1 DEF Heap!Reachable, Heap!Closed
  <2> QED BY <2>1, <2>2 DEF ReclaimInv, NotTorn, MarkedIn, Marked
<1> QED BY <1>1, <1>2

LEMMA ReclaimInit == Init => ReclaimInv
  BY DEF Init, ReclaimInv, NotTorn

LEMMA SafeInvariant == Spec /\ []TornNotQueued => []SafeInv
<1>1. BaseInv /\ CountInv /\ ShapeInv /\ [Next]_vars => ShapeInv'
  BY ShapeStep
<1>2. BaseInv /\ CountInv /\ ShapeInv <=> SafeInv
  BY DEF SafeInv
<1> QED BY <1>1, <1>2, ShapeInit, BaseInvariant, CountInvariant, PTL DEF Spec

LEMMA ReclaimInvariant == Spec /\ []TornNotQueued /\ [][Handover]_vars => []ReclaimInv
<1>1. SafeInv /\ SafeInv' /\ ReclaimInv /\ [Next]_vars /\ [Handover]_vars => ReclaimInv'
  BY ReclaimStep
<1> QED BY <1>1, ReclaimInit, SafeInvariant, PTL DEF Spec

\* What either collector treats as garbage is garbage, for every heap, budget
\* and threshold: as long as every trace has marked what the program can reach
\* when it turns to the candidates, and the releasing machine takes no object
\* that the lost-cycle collector has torn down.
THEOREM OnlyGarbageIsLost ==
    Spec /\ []TornNotQueued /\ [][Handover]_vars => []LostIsUnreachable
<1>1. SafeInv /\ ReclaimInv => LostIsUnreachable
  BY ReachableIsOK DEF ReclaimInv, NotTorn, ReachableOK, LostIsUnreachable, Dying, Queue
<1> QED BY <1>1, SafeInvariant, ReclaimInvariant, PTL

\* Under the same two conditions the memory manager implements the abstract heap:
\* no object the program can reach is freed or changed behind its back.
THEOREM HeapRefinement ==
    Spec /\ []TornNotQueued /\ [][Handover]_vars => ImplementsHeap
<1>1. Init => Heap!Init
  BY DEF Init, Heap!Init, NoFields
<1>2. ASSUME SafeInv, SafeInv', ReclaimInv', [Next]_vars
      PROVE  [Heap!Next]_(Heap!vars)
  <2>1. CASE Next
    <3>1. ReachableOK'
      BY <1>2, ReachableIsOKNext DEF ReclaimInv
    <3>2. Heap!Reachable' \subseteq alive'
      BY <3>1 DEF ReachableOK
    <3> QED BY <1>2, <2>1, <3>2, NextEffect DEF SafeInv, StepEffect
  <2>2. CASE UNCHANGED vars
    BY <2>2 DEF vars, header_vars, Heap!vars
  <2> QED BY <1>2, <2>1, <2>2
<1>3. SafeInv /\ SafeInv' /\ ReclaimInv' /\ [Next]_vars => [Heap!Next]_(Heap!vars)
  BY <1>2
<1> QED BY <1>1, <1>3, SafeInvariant, ReclaimInvariant, PTL DEF Spec, ImplementsHeap, Heap!Spec

\* While lost cycles are reclaimed, an object the program can reach is torn down
\* or queued only if marking missed one: the property of every single step that
\* the two theorems above build on, without their condition on the marks.
THEOREM LostOnlyIfMissedCorrect == Spec /\ []TornNotQueued => LostOnlyIfMissed
<1> DEFINE Premise ==
              LostIsUnreachable /\ RcExact
                /\ (tracing_state = "Reclaiming_Cyclic_Candidates" => MarkedIn(Heap!Reachable))
<1>1. ASSUME SafeInv, SafeInv', [Next]_vars
      PROVE  [Premise => LostIsUnreachable']_vars
  <2>1. ASSUME Next, Premise
        PROVE  LostIsUnreachable'
    <3>1. ReclaimInv
      BY <2>1 DEF ReclaimInv, NotTorn, LostIsUnreachable
    <3>2. NotTorn'
      BY <1>1, <2>1, <3>1, NotTornStep
    <3>3. ReachableOK'
      BY <1>1, <3>2, ReachableIsOKNext
    <3> QED BY <3>2, <3>3 DEF NotTorn, ReachableOK, LostIsUnreachable, Dying, Queue
  <2> QED BY <1>1, <2>1
<1>2. SafeInv /\ SafeInv' /\ [Next]_vars => [Premise => LostIsUnreachable']_vars
  BY <1>1
<1> QED BY <1>2, SafeInvariant, PTL DEF Spec, LostOnlyIfMissed

-----------------------------------------------------------------------------
(***************************************************************************)
(* Programs without cyclic types                                           *)
(***************************************************************************)

\* The tracer never runs.
AcyclicInv ==
    /\ tracing_state = "Tracing_Idle"
    /\ cyclic_obj = 0
    /\ children_released = {}
    /\ lost_cycle_worklist = <<>>
    /\ candidate_flag = {}

LEMMA AcyclicFree ==
    ASSUME Cyclic = {}, AcyclicInv, NEW o, FreeReleasedObject(o)
    PROVE  cyclic_obj' = 0 /\ children_released' = {} /\ candidate_flag' = {}
<1>1. CASE DeferFree(o)
  BY <1>1 DEF AcyclicInv, FreeReleasedObject
<1>2. CASE ~DeferFree(o)
  BY <1>2 DEF AcyclicInv, FreeReleasedObject, FreeCell, CyclicObjAfterFree
<1> QED BY <1>1, <1>2

\* Without cyclic objects no trace is ever started.
LEMMA AcyclicStep ==
    ASSUME Cyclic = {}, BaseInv, AcyclicInv, [Next]_vars
    PROVE  AcyclicInv'
<1> USE DEF flag_vars, registry, state_vars, account, free_vars
<1> DEFINE Same == UNCHANGED <<tracing_state, cyclic_obj, children_released,
                               lost_cycle_worklist, candidate_flag>>
<1>0. /\ Same => AcyclicInv'
      /\ CyclicMutable = {}
      /\ pc \notin {"roots", "trace_children", "mutation_children",
                    "scan_children", "lost_children"}
  BY HeaderAssumption DEF AcyclicInv, BaseInv, PhaseInv, PhaseOK
<1>1. CASE Mutator
  <2>1. ASSUME NEW s, NEW f, NEW v, NEW ref, NEW live, NEW owned,
               Assign(s, f, v, ref, live, owned)
        PROVE  Same
    BY <2>1 DEF Assign
  <2>2. CASE \E s \in Slot, t \in Stack : \E f \in Field : \E live, owned \in BOOLEAN :
                Store(s, f, t, live, owned)
    BY <1>0, <2>1, <2>2 DEF Store
  <2>3. CASE \E s \in Slot : \E f \in Field : StoreConstant(s, f)
    BY <1>0, <2>1, <2>3 DEF StoreConstant
  <2>4. CASE \E s \in Stack : \E o \in Object : Alloc(s, o)
    BY <1>0, <2>4 DEF Alloc
  <2>5. CASE \E s \in Stack : Release(s)
    BY <1>0, <2>5 DEF Release
  <2>6. CASE \E s \in Slot, t \in Stack : Share(s, t)
    BY <1>0, <2>6 DEF Share
  <2>7. CASE \E s \in Slot, t \in Stack : \E f \in Field : Load(s, f, t)
    BY <1>0, <2>7 DEF Load
  <2>8. CASE \E s \in Stack, g \in Global : StoreGlobal(s, g)
    BY <1>0, <2>8 DEF StoreGlobal
  <2>9. CASE GcCycle
    BY <1>0, <2>9 DEF GcCycle
  <2> QED BY <1>1, <2>2, <2>3, <2>4, <2>5, <2>6, <2>7, <2>8, <2>9 DEF Mutator
<1>2. CASE ReleasingMachine
  <2>1. ASSUME NEW f \in Field, ReleaseChild(f)
        PROVE  AcyclicInv'
    BY <1>0, <2>1, AcyclicFree DEF ReleaseChild, AcyclicInv
  <2>2. CASE ReleasingFree
    BY <2>2, AcyclicFree DEF ReleasingFree, AcyclicInv
  <2>3. CASE ReleasingReturn \/ SetReleasingWorking \/ ReleasingPop
    BY <1>0, <2>3 DEF ReleasingReturn, SetReleasingWorking, ReleasingPop
  <2> QED BY <1>2, <2>1, <2>2, <2>3 DEF ReleasingMachine
<1>3. CASE TracingMachine
  <2>1. CASE TracingReturn
    BY <1>0, <2>1 DEF TracingReturn
  <2>2. ~StartTracing
    BY DEF StartTracing, TraceTrigger, AcyclicInv
  <2>3. ~(RootsCollected \/ TracingPop \/ TracingStepped \/ MutationsDrained \/ MutationPop
            \/ MutationStepped \/ LostCyclePop \/ LostCycleFree \/ ReclaimingDone \/ ScanSkip
            \/ ScanUnmarked \/ ScanEnqueue)
    BY <1>0 DEF RootsCollected, TracingPop, TracingStepped, MutationsDrained, MutationPop,
                MutationStepped, LostCyclePop, LostCycleFree, ReclaimingDone, ScanSkip,
                ScanUnmarked, ScanEnqueue, Reclaiming, At, AcyclicInv
  <2>4. ~(\E s \in Stack : PushRoot(s))
        /\ ~(\E f \in Field : TraceChild(f) \/ LostCycleChildDecr(f))
    BY <1>0 DEF PushRoot, TraceChild, LostCycleChildDecr, At
  <2> QED BY <1>3, <2>1, <2>2, <2>3, <2>4 DEF TracingMachine
<1>4. CASE UNCHANGED vars
  BY <1>0, <1>4 DEF vars
<1> QED BY <1>1, <1>2, <1>3, <1>4 DEF Next

\* What is queued for release, or being released, is allocated.
QueueAlive == Queue \subseteq alive /\ (walk_obj # Null => walk_obj \in alive)

LEMMA DecrAlive ==
    ASSUME BaseInv, CountInv, QueueAlive, NEW c \in Ref, c # Null => c \in alive,
           alive' = AliveAfterDecr(c), releasing_waitlist' = WaitlistAfterDecr(c),
           pc = "mutator", UNCHANGED <<releasing_worklist, walk_obj>>
    PROVE  QueueAlive'
<1>1. walk_obj = Null /\ releasing_waitlist \in Seq(Object)
  BY DEF BaseInv, TypeInv, TypeOK, WalkOK
<1>2. CASE ~ReachesZero(c)
  BY <1>1, <1>2 DEF AliveAfterDecr, WaitlistAfterDecr, QueueAlive, Queue
<1>3. CASE ReachesZero(c)
  <2>1. c # Null /\ c \in Object /\ rc[c] = 1 /\ c \in alive
    BY <1>3 DEF ReachesZero, Ref
  <2>2. c \notin Queue
    BY <2>1 DEF CountInv, Dying
  <2>3. ToSet(Append(releasing_waitlist, c)) = ToSet(releasing_waitlist) \cup {c}
    BY <1>1, <2>1, AppendSet
  <2> QED BY <1>1, <2>1, <2>2, <2>3 DEF AliveAfterDecr, WaitlistAfterDecr, QueueAlive, Queue
<1> QED BY <1>2, <1>3

LEMMA FreeReleasedAlive ==
    ASSUME NEW o, FreeReleasedObject(o)
    PROVE  alive' \in {alive, alive \ {o}}
<1>1. CASE DeferFree(o)
  BY <1>1 DEF FreeReleasedObject
<1>2. CASE ~DeferFree(o)
  BY <1>2 DEF FreeReleasedObject, FreeCell
<1> QED BY <1>1, <1>2

\* Without cyclic objects what is queued for release stays allocated until its turn.
LEMMA AcyclicQueue ==
    ASSUME Cyclic = {}, BaseInv, CountInv, AcyclicInv, QueueAlive, [Next]_vars
    PROVE  QueueAlive'
<1> USE DEF header_vars, release_lists, control, account, free_vars, At
<1> DEFINE Same == /\ alive \subseteq alive' /\ walk_obj' = walk_obj
                   /\ UNCHANGED <<releasing_worklist, releasing_waitlist>>
<1>0. /\ Same => QueueAlive'
      /\ pc \notin {"roots", "trace_children", "mutation_children",
                    "scan_children", "lost_children"}
      /\ TypeOK
  BY DEF AcyclicInv, BaseInv, TypeInv, PhaseInv, PhaseOK, QueueAlive, Queue
<1>1. CASE Mutator
  <2>1. ASSUME NEW s \in Slot, NEW f \in Field, NEW v, NEW ref, NEW live, NEW owned,
               Assign(s, f, v, ref, live, owned)
        PROVE  QueueAlive'
    <3>1. PICK x, old : x = slot[s] /\ old = value[x][f]
      OBVIOUS
    <3>2. /\ NoDangling /\ pc = "mutator" /\ x # Null /\ f \in Refs[x]
          /\ alive' = AliveAfterDecr(old) /\ releasing_waitlist' = WaitlistAfterDecr(old)
          /\ UNCHANGED <<releasing_worklist, walk_obj>>
      BY <2>1, <3>1 DEF Assign
    <3>3. x \in alive /\ x \in Object /\ HeldFields(x) = OwnFields(x)
      BY <1>0, <3>1, <3>2 DEF NoDangling, HeldFields, TypeOK
    <3>4. old \in Ref
      BY <1>0, <3>1, <3>3 DEF TypeOK
    <3>5. old # Null => old \in alive
      BY <3>1, <3>2, <3>3 DEF NoDangling, OwnFields
    <3> QED BY <3>2, <3>4, <3>5, DecrAlive
  <2>2. CASE \E s \in Slot, t \in Stack : \E f \in Field : \E live, owned \in BOOLEAN :
                Store(s, f, t, live, owned)
    BY <2>1, <2>2 DEF Store
  <2>3. CASE \E s \in Slot : \E f \in Field : StoreConstant(s, f)
    BY <2>1, <2>3 DEF StoreConstant
  <2>4. CASE \E s \in Stack : \E o \in Object : Alloc(s, o)
    BY <1>0, <2>4 DEF Alloc
  <2>5. ASSUME NEW s \in Stack, Release(s)
        PROVE  QueueAlive'
    <3>1. PICK c : c = slot[s]
      OBVIOUS
    <3>2. /\ NoDangling /\ pc = "mutator"
          /\ alive' = AliveAfterDecr(c) /\ releasing_waitlist' = WaitlistAfterDecr(c)
          /\ UNCHANGED <<releasing_worklist, walk_obj>>
      BY <2>5, <3>1 DEF Release
    <3>3. c \in Ref /\ (c # Null => c \in alive)
      BY <1>0, <3>1, <3>2 DEF NoDangling, TypeOK, Stack
    <3> QED BY <3>2, <3>3, DecrAlive
  <2>6. CASE \E s \in Slot, t \in Stack : Share(s, t)
    BY <1>0, <2>6 DEF Share
  <2>7. CASE \E s \in Slot, t \in Stack : \E f \in Field : Load(s, f, t)
    BY <1>0, <2>7 DEF Load
  <2>8. CASE \E s \in Stack, g \in Global : StoreGlobal(s, g)
    BY <1>0, <2>8 DEF StoreGlobal
  <2>9. CASE GcCycle
    BY <1>0, <2>9 DEF GcCycle
  <2> QED BY <1>1, <2>2, <2>3, <2>4, <2>5, <2>6, <2>7, <2>8, <2>9 DEF Mutator
<1>2. CASE ReleasingMachine
  <2>1. ASSUME NEW f \in Field, ReleaseChild(f)
        PROVE  QueueAlive'
    <3>1. PICK c : c = value[walk_obj][f]
      OBVIOUS
    <3>2. /\ NoDangling /\ pc = "release_children" /\ f \in walk_todo
          /\ UNCHANGED <<releasing_worklist, walk_obj>>
          /\ \/ UNCHANGED <<alive, releasing_waitlist>>
             \/ rc[c] = 1 /\ FreeReleasedObject(c) /\ UNCHANGED releasing_waitlist
             \/ UNCHANGED alive /\ releasing_waitlist' = WaitlistAfterDecr(c)
      BY <2>1, <3>1 DEF ReleaseChild, IsLeast
    <3>3. walk_obj \in Object /\ c \in Object /\ c \in alive
      <4>1. walk_obj \in Object /\ c \in Object
        BY <3>1, <3>2, ChildIsObject DEF WalkPCs, BaseInv
      <4> QED BY <3>1, <3>2, <4>1, HeapAssumption DEF NoDangling
    <3>4. CASE rc[c] = 1 /\ FreeReleasedObject(c) /\ UNCHANGED releasing_waitlist
      <4>1. c \notin Dying
        BY <3>4 DEF CountInv
      <4>2. c \notin Queue /\ c # walk_obj
        BY <3>2, <3>3, <4>1 DEF Dying
      <4>3. alive' \in {alive, alive \ {c}}
        BY <3>4, FreeReleasedAlive
      <4> QED BY <3>2, <3>4, <4>2, <4>3 DEF QueueAlive, Queue
    <3>5. CASE UNCHANGED alive /\ releasing_waitlist' = WaitlistAfterDecr(c)
      <4>1. ToSet(Append(releasing_waitlist, c)) = ToSet(releasing_waitlist) \cup {c}
        BY <1>0, <3>3, AppendSet DEF TypeOK
      <4> QED BY <3>2, <3>3, <3>5, <4>1 DEF WaitlistAfterDecr, QueueAlive, Queue
    <3> QED BY <1>0, <3>2, <3>4, <3>5
  <2>2. CASE ReleasingFree
    <3>1. PICK w : w = walk_obj
      OBVIOUS
    <3>2. /\ alive' \in {alive, alive \ {w}} /\ walk_obj' = Null /\ w \notin Queue
          /\ UNCHANGED <<releasing_worklist, releasing_waitlist>>
      BY <2>2, <3>1, FreeReleasedAlive DEF ReleasingFree, CountInv, QueueOK
    <3> QED BY <3>2 DEF QueueAlive, Queue
  <2>3. CASE ReleasingReturn
    BY <1>0, <2>3 DEF ReleasingReturn
  <2>4. CASE SetReleasingWorking
    BY <2>4 DEF SetReleasingWorking, QueueAlive, Queue, ToSet
  <2>5. CASE ReleasingPop
    <3>1. releasing_worklist \in Seq(Object) /\ releasing_worklist # <<>>
      BY <1>0, <2>5 DEF ReleasingPop, TypeOK
    <3>2. ToSet(releasing_worklist) =
             ToSet(Front(releasing_worklist)) \cup {Last(releasing_worklist)}
      BY <3>1, PopSet
    <3> QED BY <2>5, <3>2 DEF ReleasingPop, QueueAlive, Queue
  <2> QED BY <1>2, <2>1, <2>2, <2>3, <2>4, <2>5 DEF ReleasingMachine
<1>3. CASE TracingMachine
  <2>1. CASE TracingReturn
    BY <1>0, <2>1 DEF TracingReturn
  <2>2. ~StartTracing
    BY DEF StartTracing, TraceTrigger, AcyclicInv
  <2>3. ~(RootsCollected \/ TracingPop \/ TracingStepped \/ MutationsDrained \/ MutationPop
            \/ MutationStepped \/ LostCyclePop \/ LostCycleFree \/ ReclaimingDone \/ ScanSkip
            \/ ScanUnmarked \/ ScanEnqueue)
    BY <1>0 DEF RootsCollected, TracingPop, TracingStepped, MutationsDrained, MutationPop,
                MutationStepped, LostCyclePop, LostCycleFree, ReclaimingDone, ScanSkip,
                ScanUnmarked, ScanEnqueue, Reclaiming, AcyclicInv
  <2>4. ~(\E s \in Stack : PushRoot(s))
        /\ ~(\E f \in Field : TraceChild(f) \/ LostCycleChildDecr(f))
    BY <1>0 DEF PushRoot, TraceChild, LostCycleChildDecr
  <2> QED BY <1>3, <2>1, <2>2, <2>3, <2>4 DEF TracingMachine
<1>4. CASE UNCHANGED vars
  BY <1>0, <1>4 DEF vars
<1> QED BY <1>1, <1>2, <1>3, <1>4 DEF Next

\* No pointer leads to freed memory.
LEMMA AcyclicNoDangling ==
    ASSUME Cyclic = {}, SafeInv, AcyclicInv, QueueAlive
    PROVE  NoDangling
<1>1. /\ TypeOK /\ WalkOK /\ FlagInv /\ CountInv /\ RegistryConsistent /\ alive \subseteq Object
      /\ tracing_worklist = <<>> /\ tracing_mutations_worklist = <<>>
      /\ pc \notin {"roots", "trace_children", "mutation_children", "scan_children", "lost_children"}
  BY DEF SafeInv, BaseInv, TypeInv, TypeOK, ShapeInv, PhaseInv, TraceListsDrained, PhaseOK, AcyclicInv
<1>2. ToSet(tracing_worklist) = {} /\ ToSet(tracing_mutations_worklist) = {}
      /\ ToSet(lost_cycle_worklist) = {}
  BY <1>1 DEF ToSet, AcyclicInv
<1>3. waiting_remove = {} /\ children_released = {} /\ ToSet(cyclic_candidates) = {}
  BY <1>1, <1>2 DEF FlagInv, TracingFlagExact, WaitingIsTraced, RegistryConsistent, AcyclicInv
<1>4. \A s \in Slot : slot[s] # Null => slot[s] \in alive
  BY <1>1, HeldNotDying
<1>5. ASSUME NEW o \in alive, NEW f \in HeldFields(o)
      PROVE  value[o][f] \in alive
  <2>1. f \in OwnFields(o)
    BY <1>1, <1>3, <1>5 DEF HeldFields, CountInv, DownOK, DownPCs
  <2>2. f \in Field /\ value[o][f] # Null /\ Target(o, f) = value[o][f]
    BY <1>1, <1>5, <2>1, HeaderAssumption DEF OwnFields, Target
  <2> QED BY <1>1, <1>5, <2>2, HeldNotDying
<1>6. Queued \subseteq alive
  BY <1>2, <1>3 DEF Queued, QueueAlive, Queue
<1>7. ASSUME walk_obj # Null
      PROVE  walk_obj \in alive /\ \A f \in walk_todo : value[walk_obj][f] \in alive
  <2>1. pc = "release_children"
    BY <1>1, <1>7 DEF WalkOK, TypeOK, ProgramPCs, WalkPCs
  <2>2. walk_obj \in alive /\ HeldFields(walk_obj) = walk_todo
    BY <1>7, <2>1 DEF QueueAlive, HeldFields
  <2> QED BY <1>5, <2>2
<1> QED BY <1>3, <1>4, <1>5, <1>6, <1>7 DEF NoDangling

LEMMA AcyclicInit == Init => AcyclicInv /\ QueueAlive
  BY DEF Init, AcyclicInv, QueueAlive, Queue, ToSet

\* The invariant of a program without cyclic types, whose tracer never runs.
LEMMA AcyclicInvariant ==
    ASSUME Cyclic = {}
    PROVE  Spec => [](AcyclicInv /\ SafeInv /\ QueueAlive)
<1>1. BaseInv /\ AcyclicInv /\ [Next]_vars => AcyclicInv'
  BY AcyclicStep
<1>2. BaseInv /\ CountInv /\ AcyclicInv /\ QueueAlive /\ [Next]_vars => QueueAlive'
  BY AcyclicQueue
<1>3. AcyclicInv => TornNotQueued
  BY DEF AcyclicInv, TornNotQueued
<1>4. SafeInv => BaseInv /\ CountInv
  BY DEF SafeInv
<1> QED BY <1>1, <1>2, <1>3, <1>4, AcyclicInit, BaseInvariant, SafeInvariant, PTL DEF Spec

\* Without cyclic types reference counting alone is safe, with no condition: the
\* counts are exact, no object is released twice, no pointer leads to freed
\* memory, and the memory manager implements the abstract heap.
THEOREM AcyclicCorrect ==
    ASSUME Cyclic = {}
    PROVE  Spec => [](RcExact /\ ReleasedOnce /\ NoDangling /\ LostIsUnreachable)
<1>1. SafeInv => RcExact /\ ReleasedOnce
  BY LedgerIsExact, QueueIsOnce DEF SafeInv
<1>2. AcyclicInv /\ SafeInv /\ QueueAlive => NoDangling
  BY AcyclicNoDangling
<1>3. AcyclicInv => TornNotQueued /\ NotTorn
  BY DEF AcyclicInv, TornNotQueued, NotTorn
<1>4. SafeInv /\ NotTorn => LostIsUnreachable
  BY ReachableIsOK DEF NotTorn, ReachableOK, LostIsUnreachable, Dying, Queue
<1> QED BY <1>1, <1>2, <1>3, <1>4, AcyclicInvariant, PTL

\* A program without cyclic types sees the abstract heap.
THEOREM AcyclicHeapRefinement ==
    ASSUME Cyclic = {}
    PROVE  Spec => ImplementsHeap
<1>1. AcyclicInv /\ AcyclicInv' => TornNotQueued /\ [Handover]_vars
  BY DEF AcyclicInv, TornNotQueued, Handover
<1> QED BY <1>1, AcyclicInvariant, HeapRefinement, PTL

-----------------------------------------------------------------------------
(***************************************************************************)
(* The list of lost objects                                                *)
(***************************************************************************)

LostPCs == {"scan_children", "lost_children"}

SelfRef(o) == \E f \in Refs[o] : value[o][f] = o

\* Only the last entry may be a second one, and only between the end of the scan
\* of an object that refers to itself and the next pop.
LostOrder ==
    \/ IsInjective(lost_cycle_worklist)
    \/ /\ lost_cycle_worklist # <<>> /\ IsInjective(Front(lost_cycle_worklist))
       /\ SelfRef(Last(lost_cycle_worklist))
       /\ pc \notin LostPCs

\* LostOrder, with what keeps the list away from the other collector, and with the
\* reason why the scanned object may be in the list already.
LostInv ==
    /\ lost_cycle_worklist # <<>> => tracing_state = "Reclaiming_Cyclic_Candidates"
    /\ LostOrder
    /\ pc = "scan_children" /\ walk_obj \in ToSet(lost_cycle_worklist) => SelfRef(walk_obj)
    /\ ToSet(lost_cycle_worklist) \cap Queue = {}
    /\ pc = "release_children" => walk_obj \notin ToSet(lost_cycle_worklist)

\* A step that leaves the list, and the fields of the objects in it, alone.
LEMMA LostKeep ==
    ASSUME TypeOK, LostInv, UNCHANGED lost_cycle_worklist,
           \A o \in ToSet(lost_cycle_worklist) : value'[o] = value[o],
           pc' \notin LostPCs \/ (pc' = pc /\ walk_obj' = walk_obj),
           ToSet(lost_cycle_worklist) \cap Queue' = {},
           pc' = "release_children" => walk_obj' \notin ToSet(lost_cycle_worklist),
           lost_cycle_worklist # <<>> => tracing_state' = tracing_state
    PROVE  LostInv'
<1>1. lost_cycle_worklist \in Seq(Object)
  BY DEF TypeOK
<1>2. LostOrder'
  <2>1. CASE IsInjective(lost_cycle_worklist)
    BY <2>1 DEF LostOrder
  <2>2. CASE ~IsInjective(lost_cycle_worklist)
    <3>1. /\ lost_cycle_worklist # <<>> /\ IsInjective(Front(lost_cycle_worklist))
          /\ SelfRef(Last(lost_cycle_worklist)) /\ pc \notin LostPCs
      BY <2>2 DEF LostInv, LostOrder
    <3>2. Last(lost_cycle_worklist) \in ToSet(lost_cycle_worklist)
      BY <1>1, <3>1, PopSet
    <3> QED BY <3>1, <3>2 DEF LostOrder, SelfRef
  <2> QED BY <2>1, <2>2
<1>3. pc' = "scan_children" /\ walk_obj' \in ToSet(lost_cycle_worklist) => SelfRef(walk_obj)'
  BY DEF LostInv, LostPCs, SelfRef
<1> QED BY <1>2, <1>3 DEF LostInv

\* An object in the list has no reference left, so no decrement queues it.
LEMMA LostDecr ==
    ASSUME TypeOK, CountInv, LostInv, NEW c \in Ref, releasing_waitlist' = WaitlistAfterDecr(c),
           UNCHANGED releasing_worklist
    PROVE  ToSet(lost_cycle_worklist) \cap Queue' = {}
<1>1. CASE releasing_waitlist' = releasing_waitlist
  BY <1>1 DEF Queue, LostInv
<1>2. CASE releasing_waitlist' # releasing_waitlist
  <2>1. rc[c] = 1 /\ c \in Object /\ releasing_waitlist' = Append(releasing_waitlist, c)
    BY <1>2 DEF WaitlistAfterDecr, ReachesZero, Ref
  <2>2. ToSet(releasing_waitlist') = ToSet(releasing_waitlist) \cup {c}
    BY <2>1, AppendSet DEF TypeOK
  <2>3. c \notin ToSet(lost_cycle_worklist)
    BY <2>1 DEF CountInv, Dying
  <2> QED BY <2>2, <2>3 DEF Queue, LostInv
<1> QED BY <1>1, <1>2

\* free_released_object touches the fields of its argument only.
LEMMA FreeReleasedValue ==
    ASSUME TypeOK, NEW o, FreeReleasedObject(o)
    PROVE  \A p \in Object : p # o => value'[p] = value[p]
<1>1. CASE DeferFree(o)
  BY <1>1 DEF FreeReleasedObject
<1>2. CASE ~DeferFree(o)
  BY <1>2 DEF FreeReleasedObject, FreeCell, TypeOK
<1> QED BY <1>1, <1>2

LEMMA LostMutator ==
    ASSUME SafeInv, LostInv, Mutator
    PROVE  LostInv'
<1> USE DEF header_vars, state_vars, release_lists, control
<1>0. TypeOK /\ CountInv /\ ToSet(lost_cycle_worklist) \subseteq Dying \cap Object
  BY DEF SafeInv, BaseInv, TypeInv, TypeOK, Dying, ToSet
<1>1. ASSUME UNCHANGED <<lost_cycle_worklist, value, release_lists, tracing_state>>,
             pc' \in {"mutator", "releasing"}
      PROVE  LostInv'
  <2>1. Queue' = Queue /\ pc' \notin LostPCs /\ pc' # "release_children"
    BY <1>1 DEF Queue, LostPCs
  <2> QED BY <1>0, <1>1, <2>1, LostKeep DEF LostInv
<1>2. ASSUME NEW s \in Slot, NEW f \in Field, NEW v, NEW ref, NEW live, NEW owned,
             Assign(s, f, v, ref, live, owned)
      PROVE  LostInv'
  <2>1. PICK x : x = slot[s]
    OBVIOUS
  <2>2. PICK c : c = value[x][f]
    OBVIOUS
  <2>3. /\ x # Null /\ value' = [value EXCEPT ![x][f] = v]
        /\ releasing_waitlist' = WaitlistAfterDecr(c)
        /\ UNCHANGED <<lost_cycle_worklist, releasing_worklist, tracing_state>>
        /\ pc' = "mutator"
    BY <1>2, <2>1, <2>2 DEF Assign, At
  <2>4. x \in Object /\ c \in Ref
    BY <1>0, <2>1, <2>2, <2>3 DEF TypeOK, Ref
  <2>5. x \notin Dying
    BY <1>0, <2>1, <2>3, HeldNotDying
  <2>6. \A o \in ToSet(lost_cycle_worklist) : value'[o] = value[o]
    BY <1>0, <2>3, <2>4, <2>5 DEF TypeOK
  <2>7. ToSet(lost_cycle_worklist) \cap Queue' = {}
    BY <1>0, <2>3, <2>4, LostDecr
  <2>8. pc' \notin LostPCs /\ pc' # "release_children"
    BY <2>3 DEF LostPCs
  <2> QED BY <1>0, <2>3, <2>6, <2>7, <2>8, LostKeep
<1>3. ASSUME NEW s \in Stack, NEW o \in Object, Alloc(s, o)
      PROVE  LostInv'
  <2>1. o \notin ToSet(lost_cycle_worklist)
    BY <1>3 DEF Alloc, At, NoDangling, Queued
  <2>2. /\ value' = [value EXCEPT ![o] = NoFields] /\ pc' = "mutator"
        /\ UNCHANGED <<lost_cycle_worklist, release_lists, tracing_state>>
    BY <1>3 DEF Alloc, At
  <2>3. \A p \in ToSet(lost_cycle_worklist) : value'[p] = value[p]
    BY <1>0, <2>1, <2>2 DEF TypeOK
  <2>4. Queue' = Queue /\ pc' \notin LostPCs /\ pc' # "release_children"
    BY <2>2 DEF Queue, LostPCs
  <2> QED BY <1>0, <2>2, <2>3, <2>4, LostKeep DEF LostInv
<1>4. ASSUME NEW s \in Stack, Release(s)
      PROVE  LostInv'
  <2>1. /\ UNCHANGED <<lost_cycle_worklist, value, releasing_worklist, tracing_state>>
        /\ pc' = "mutator" /\ releasing_waitlist' = WaitlistAfterDecr(slot[s])
    BY <1>4 DEF Release, At
  <2>2. slot[s] \in Ref
    BY <1>0 DEF TypeOK, Stack
  <2>3. ToSet(lost_cycle_worklist) \cap Queue' = {}
    BY <1>0, <2>1, <2>2, LostDecr
  <2>4. pc' \notin LostPCs /\ pc' # "release_children"
    BY <2>1 DEF LostPCs
  <2> QED BY <1>0, <2>1, <2>3, <2>4, LostKeep
<1>5. CASE \E s \in Slot, t \in Stack : \E f \in Field : \E live, owned \in BOOLEAN :
              Store(s, f, t, live, owned)
  BY <1>2, <1>5 DEF Store
<1>6. CASE \E s \in Slot : \E f \in Field : StoreConstant(s, f)
  BY <1>2, <1>6 DEF StoreConstant
<1>7. CASE \E s \in Slot, t \in Stack : Share(s, t)
  BY <1>1, <1>7 DEF Share, At
<1>8. CASE \E s \in Slot, t \in Stack : \E f \in Field : Load(s, f, t)
  BY <1>1, <1>8 DEF Load, At
<1>9. CASE \E s \in Stack, g \in Global : StoreGlobal(s, g)
  BY <1>1, <1>9 DEF StoreGlobal, At
<1>10. CASE GcCycle
  BY <1>1, <1>10 DEF GcCycle, At
<1> QED BY <1>3, <1>4, <1>5, <1>6, <1>7, <1>8, <1>9, <1>10 DEF Mutator

LEMMA LostReleasing ==
    ASSUME SafeInv, LostInv, ReleasingMachine
    PROVE  LostInv'
<1> USE DEF header_vars, state_vars, release_lists, control, free_vars
<1>0. TypeInv /\ TypeOK /\ CountInv /\ ToSet(lost_cycle_worklist) \subseteq Dying \cap Object
  BY SMTT(20) DEF SafeInv, BaseInv, TypeInv, TypeOK, Dying, ToSet
<1>1. CASE ReleasingReturn \/ SetReleasingWorking
  <2>1. /\ UNCHANGED <<lost_cycle_worklist, value, tracing_state>>
        /\ pc' \in {"tracing", "releasing"}
    BY <1>1 DEF ReleasingReturn, SetReleasingWorking, At
  <2>2. Queue' \subseteq Queue
    BY <1>1 DEF ReleasingReturn, SetReleasingWorking, Queue, ToSet
  <2>3. pc' \notin LostPCs /\ pc' # "release_children"
    BY <2>1 DEF LostPCs
  <2> QED BY <1>0, <2>1, <2>2, <2>3, LostKeep DEF LostInv
<1>2. CASE ReleasingPop
  <2>1. /\ UNCHANGED <<lost_cycle_worklist, value, tracing_state, releasing_waitlist>>
        /\ pc' = "release_children" /\ walk_obj' = Last(releasing_worklist)
        /\ releasing_worklist # <<>> /\ releasing_worklist' = Front(releasing_worklist)
        /\ releasing_worklist \in Seq(Object)
    BY <1>0, <1>2 DEF ReleasingPop, TypeOK
  <2>2. ToSet(releasing_worklist) =
           ToSet(releasing_worklist') \cup {Last(releasing_worklist)}
    BY <2>1, PopSet
  <2>3. Queue' \subseteq Queue /\ Last(releasing_worklist) \in Queue
    BY <2>1, <2>2 DEF Queue
  <2>4. pc' \notin LostPCs
    BY <2>1 DEF LostPCs
  <2> QED BY <1>0, <2>1, <2>3, <2>4, LostKeep DEF LostInv
<1>3. ASSUME NEW f \in Field, ReleaseChild(f)
      PROVE  LostInv'
  <2>1. PICK c : c = value[walk_obj][f]
    OBVIOUS
  <2>2. c \in Object
    BY <1>0, <1>3, <2>1, ChildIsObject DEF ReleaseChild, At, IsLeast, WalkPCs
  <2>3. /\ UNCHANGED <<lost_cycle_worklist, releasing_worklist, tracing_state, walk_obj>>
        /\ pc = "release_children" /\ pc' = pc
    BY <1>3 DEF ReleaseChild, At
  <2>4. \/ UNCHANGED <<value, releasing_waitlist>>
        \/ rc[c] = 1 /\ FreeReleasedObject(c) /\ UNCHANGED releasing_waitlist
        \/ releasing_waitlist' = WaitlistAfterDecr(c) /\ UNCHANGED value
    BY <1>3, <2>1 DEF ReleaseChild
  <2>5. \A o \in ToSet(lost_cycle_worklist) : value'[o] = value[o]
    <3>1. rc[c] = 1 => c \notin ToSet(lost_cycle_worklist)
      BY <1>0 DEF CountInv
    <3> QED BY <1>0, <2>4, <3>1, FreeReleasedValue
  <2>6. ToSet(lost_cycle_worklist) \cap Queue' = {}
    <3>1. UNCHANGED releasing_waitlist => Queue' = Queue
      BY <2>3 DEF Queue
    <3>2. c \in Ref
      BY <2>2 DEF Ref
    <3> QED BY <1>0, <2>3, <2>4, <3>1, <3>2, LostDecr DEF LostInv
  <2>7. walk_obj' \notin ToSet(lost_cycle_worklist)
    BY <2>3 DEF LostInv
  <2> QED BY <1>0, <2>3, <2>5, <2>6, <2>7, LostKeep
<1>4. CASE ReleasingFree
  <2>1. /\ UNCHANGED <<lost_cycle_worklist, releasing_worklist, releasing_waitlist, tracing_state>>
        /\ pc = "release_children" /\ pc' = "releasing" /\ FreeReleasedObject(walk_obj)
    BY <1>4 DEF ReleasingFree, At
  <2>2. walk_obj \notin ToSet(lost_cycle_worklist)
    BY <2>1 DEF LostInv
  <2>3. \A o \in ToSet(lost_cycle_worklist) : value'[o] = value[o]
    BY <1>0, <2>1, <2>2, FreeReleasedValue
  <2>4. Queue' = Queue /\ pc' \notin LostPCs /\ pc' # "release_children"
    BY <2>1 DEF Queue, LostPCs
  <2> QED BY <1>0, <2>1, <2>3, <2>4, LostKeep DEF LostInv
<1> QED BY <1>1, <1>2, <1>3, <1>4 DEF ReleasingMachine

\* lost_cycle_child_decr pushes an object whose last reference it dropped, which
\* was therefore not in the list.
LEMMA LostChild ==
    ASSUME SafeInv, LostInv, NEW f \in Field, LostCycleChildDecr(f)
    PROVE  LostInv'
<1> DEFINE L == lost_cycle_worklist
<1>0. /\ TypeInv /\ TypeOK /\ CountInv /\ PhaseInv /\ LostTyped
      /\ L \in Seq(Object) /\ ToSet(L) \subseteq Dying \cap Object
  BY DEF SafeInv, ShapeInv, BaseInv, TypeInv, TypeOK, Dying, ToSet
<1>1. PICK c : c = value[walk_obj][f]
  OBVIOUS
<1>2. c \in Object /\ walk_obj \in Object
  BY <1>0, <1>1, ChildIsObject DEF LostCycleChildDecr, At, IsLeast, WalkPCs
<1>3. /\ UNCHANGED <<releasing_worklist, releasing_waitlist, tracing_state, walk_obj>>
      /\ pc \in LostPCs /\ pc' = pc
  BY DEF LostCycleChildDecr, At, LostPCs, release_lists, state_vars
<1>4. /\ tracing_state = "Reclaiming_Cyclic_Candidates" /\ pc # "release_children"
      /\ IsInjective(L) /\ Queue' = Queue /\ Layout[walk_obj] # "MonoImm"
      /\ f \in Refs[walk_obj]
  <2>1. f \in Refs[walk_obj] /\ walk_obj \in children_released
    BY <1>0, <1>3 DEF LostCycleChildDecr, IsLeast, CountInv, DownOK, DownPCs, LostPCs, OwnFields
  <2> QED BY <1>0, <1>3, <2>1 DEF PhaseInv, PhaseOK, LostInv, LostOrder, LostPCs, Queue, LostTyped
<1>5. rc[c] = 1 => c \notin Dying
  BY <1>0 DEF CountInv
<1>6. CASE UNCHANGED <<value, lost_cycle_worklist>>
  BY <1>0, <1>3, <1>4, <1>6, LostKeep DEF LostInv
<1>7. CASE rc[c] = 1 /\ FreeReleasedObject(c) /\ UNCHANGED lost_cycle_worklist
  <2>1. \A o \in ToSet(L) : value'[o] = value[o]
    BY <1>0, <1>5, <1>7, FreeReleasedValue
  <2> QED BY <1>0, <1>3, <1>4, <1>7, <2>1, LostKeep DEF LostInv
<1>8. CASE rc[c] = 1 /\ lost_cycle_worklist' = Append(L, c) /\ UNCHANGED value
  <2>1. ToSet(L') = ToSet(L) \cup {c} /\ IsInjective(L')
    BY <1>0, <1>2, <1>4, <1>5, <1>8, AppendSet
  <2>2. c \notin Queue
    BY <1>5, <1>8 DEF Dying
  <2>3. pc = "scan_children" /\ walk_obj \in ToSet(L') => SelfRef(walk_obj)'
    BY <1>1, <1>3, <1>4, <1>8, <2>1 DEF LostInv, SelfRef
  <2>4. LostOrder'
    BY <2>1 DEF LostOrder
  <2> QED BY <1>3, <1>4, <2>1, <2>2, <2>3, <2>4 DEF LostInv
<1>9. \/ UNCHANGED <<value, lost_cycle_worklist>>
      \/ rc[c] = 1 /\ FreeReleasedObject(c) /\ UNCHANGED lost_cycle_worklist
      \/ rc[c] = 1 /\ lost_cycle_worklist' = Append(L, c) /\ UNCHANGED value
  BY <1>1 DEF LostCycleChildDecr, free_vars
<1> QED BY <1>6, <1>7, <1>8, <1>9

\* The end of the scan of a candidate may list it a second time, if it refers to
\* itself; and it is not queued for release.
LEMMA LostEnqueue ==
    ASSUME SafeInv, LostInv, TornNotQueued, ScanEnqueue
    PROVE  LostInv'
<1> DEFINE L == lost_cycle_worklist
<1>0. /\ TypeOK /\ PhaseInv /\ L \in Seq(Object)
      /\ walk_obj \in children_released /\ walk_obj \in Object
      /\ UNCHANGED <<releasing_worklist, releasing_waitlist, tracing_state, value>>
      /\ pc = "scan_children" /\ pc' = "tracing"
  BY DEF SafeInv, BaseInv, TypeInv, TypeOK, CountInv, DownOK, ScanEnqueue, At, release_lists,
         state_vars, header_vars
<1>1. /\ tracing_state = "Reclaiming_Cyclic_Candidates" /\ IsInjective(L) /\ Queue' = Queue
      /\ pc' \notin LostPCs /\ pc' # "release_children" /\ pc' # "scan_children"
  BY <1>0 DEF PhaseInv, PhaseOK, LostInv, LostOrder, LostPCs, Queue
<1>2. CASE lost_cycle_worklist' = L
  BY <1>0, <1>1, <1>2, LostKeep DEF LostInv
<1>3. CASE lost_cycle_worklist' = Append(L, walk_obj)
  <2>1. /\ ToSet(L') = ToSet(L) \cup {walk_obj} /\ L' # <<>>
        /\ walk_obj \notin ToSet(L) => IsInjective(L')
    BY <1>0, <1>1, <1>3, AppendSet
  <2>2. Front(L') = L /\ Last(L') = walk_obj
    BY <1>0, <1>3, AppendPop
  <2>3. walk_obj \in ToSet(L) => SelfRef(walk_obj)
    BY <1>0 DEF LostInv
  <2>4. LostOrder'
    BY <1>0, <1>1, <2>1, <2>2, <2>3 DEF LostOrder, SelfRef
  <2>5. walk_obj \notin Queue
    BY <1>0 DEF TornNotQueued
  <2> QED BY <1>0, <1>1, <2>1, <2>4, <2>5 DEF LostInv
<1> QED BY <1>2, <1>3 DEF ScanEnqueue

LEMMA LostTracing ==
    ASSUME SafeInv, LostInv, TornNotQueued, TracingMachine
    PROVE  LostInv'
<1> USE DEF header_vars, state_vars, release_lists, control, free_vars
<1> DEFINE L == lost_cycle_worklist
<1>0. /\ TypeInv /\ TypeOK /\ PhaseInv /\ L \in Seq(Object)
      /\ ToSet(L) \subseteq Object /\ (L = <<>> => ToSet(L) = {})
  <2>1. L \in Seq(Object)
    BY DEF SafeInv, BaseInv, TypeInv, TypeOK
  <2> QED BY <2>1, EmptySeq DEF SafeInv, BaseInv, TypeInv, ToSet
<1>1. ASSUME UNCHANGED <<lost_cycle_worklist, releasing_worklist, releasing_waitlist>>,
             L = <<>> \/ UNCHANGED <<tracing_state, value>>,
             pc' \notin LostPCs, pc' # "release_children"
      PROVE  LostInv'
  <2>1. Queue' = Queue
    BY <1>1 DEF Queue
  <2> QED BY <1>0, <1>1, <2>1, LostKeep DEF LostInv
<1>2. CASE TracingReturn \/ StartTracing \/ (\E s \in Stack : PushRoot(s))
             \/ (\E f \in Field : TraceChild(f)) \/ MutationStepped
  <2>1. UNCHANGED <<lost_cycle_worklist, releasing_worklist, releasing_waitlist>>
    BY <1>2 DEF TracingReturn, StartTracing, PushRoot, TraceChild, MutationStepped
  <2>2. pc' \in {"mutator", "roots", "tracing", "trace_children", "mutation_children"}
    BY <1>2 DEF TracingReturn, StartTracing, PushRoot, TraceChild, MutationStepped, At
  <2>3. L = <<>> \/ UNCHANGED <<tracing_state, value>>
    BY <1>2 DEF TracingReturn, StartTracing, PushRoot, TraceChild, MutationStepped, At, LostInv
  <2> QED BY <1>1, <2>1, <2>2, <2>3 DEF LostPCs
<1>3. CASE RootsCollected \/ TracingPop \/ TracingStepped \/ MutationsDrained \/ MutationPop
  <2>1. UNCHANGED <<lost_cycle_worklist, releasing_worklist, releasing_waitlist>>
    BY <1>3 DEF RootsCollected, TracingPop, TracingStepped, MutationsDrained, MutationPop
  <2>2. pc' \in {"tracing", "trace_children", "mutation_children"}
    BY <1>3 DEF RootsCollected, TracingPop, TracingStepped, MutationsDrained, MutationPop, At
  <2>3. tracing_state # "Reclaiming_Cyclic_Candidates"
    BY <1>0, <1>3 DEF RootsCollected, TracingPop, TracingStepped, MutationsDrained,
                      MutationPop, At, PhaseInv, PhaseOK
  <2> QED BY <1>1, <2>1, <2>2, <2>3 DEF LostPCs, LostInv
<1>4. CASE ReclaimingDone \/ ScanSkip
  BY <1>1, <1>4 DEF ReclaimingDone, ScanSkip, Reclaiming, At, LostPCs
<1>5. CASE ScanUnmarked
  <2>1. /\ UNCHANGED <<lost_cycle_worklist, releasing_worklist, releasing_waitlist>>
        /\ L = <<>> /\ pc' = "scan_children"
    BY <1>5 DEF ScanUnmarked
  <2>2. Queue' = Queue /\ LostOrder'
    BY <2>1 DEF Queue, LostOrder, LostInv, LostPCs
  <2> QED BY <1>0, <2>1, <2>2 DEF LostInv
<1>6. CASE LostCyclePop
  <2>1. /\ L # <<>> /\ L' = Front(L) /\ pc' = "lost_children"
        /\ UNCHANGED <<releasing_worklist, releasing_waitlist, tracing_state>>
        /\ tracing_state = "Reclaiming_Cyclic_Candidates"
    BY <1>6 DEF LostCyclePop, Reclaiming
  <2>2. ToSet(L) = ToSet(L') \cup {Last(L)} /\ Queue' = Queue
    BY <1>0, <2>1, PopSet DEF Queue
  <2>3. IsInjective(L')
    BY <1>0, <2>1, PopOnce DEF LostInv, LostOrder
  <2>4. LostOrder'
    BY <2>3 DEF LostOrder
  <2> QED BY <2>1, <2>2, <2>4 DEF LostInv
<1>7. CASE LostCycleFree
  <2>1. /\ UNCHANGED <<lost_cycle_worklist, releasing_worklist, releasing_waitlist, tracing_state>>
        /\ pc = "lost_children" /\ pc' = "tracing"
    BY <1>7 DEF LostCycleFree, At
  <2>2. Queue' = Queue /\ LostOrder'
    BY <2>1 DEF Queue, LostOrder, LostInv, LostPCs
  <2> QED BY <2>1, <2>2 DEF LostInv
<1> QED BY <1>2, <1>3, <1>4, <1>5, <1>6, <1>7, LostChild, LostEnqueue DEF TracingMachine

LEMMA LostInvariant == Spec /\ []TornNotQueued => []LostInv
<1>1. Init => LostInv
  BY DEF Init, LostInv, LostOrder, LostPCs, Queue, ToSet, IsInjective
<1>2. SafeInv /\ TornNotQueued /\ LostInv /\ [Next]_vars => LostInv'
  <2>1. UNCHANGED vars /\ LostInv => LostInv'
    BY DEF vars, header_vars, release_lists, state_vars, control, LostInv, LostOrder, LostPCs,
           Queue, SelfRef
  <2> QED BY <2>1, LostMutator, LostReleasing, LostTracing DEF Next
<1> QED BY <1>1, <1>2, SafeInvariant, PTL DEF Spec

\* A lost object is queued for freeing once, however many paths of a lost component
\* lead to it and however its frees are cut into slices, unless it refers to itself.
\* gc_one_step_free_unreachable frees what it pops without testing whether it did so
\* before, so a second entry is a second free: only a self-referring candidate gets
\* one, because both lost_cycle_child_decr and the end of gc_one_step_scan find its
\* count at 0.
THEOREM LostTwiceOnlySelfCorrect == Spec /\ []TornNotQueued => []LostTwiceOnlySelf
<1>1. SafeInv /\ LostInv => LostTwiceOnlySelf
  <2> DEFINE L == lost_cycle_worklist
  <2> SUFFICES ASSUME SafeInv, LostInv, NEW i \in DOMAIN L, NEW j \in DOMAIN L,
                      i # j, L[i] = L[j]
               PROVE  SelfRef(L[i])
    BY DEF LostTwiceOnlySelf, SelfRef
  <2>1. L \in Seq(Object)
    BY DEF SafeInv, BaseInv, TypeInv, TypeOK
  <2>2. ~IsInjective(L)
    BY DEF IsInjective
  <2>3. L # <<>> /\ IsInjective(Front(L)) /\ SelfRef(Last(L))
    BY <2>2 DEF LostInv, LostOrder
  <2>4. /\ DOMAIN L = 1 .. Len(L) /\ Len(L) \in Nat \ {0} /\ Last(L) = L[Len(L)]
        /\ DOMAIN Front(L) = 1 .. Len(L) - 1
        /\ \A k \in 1 .. Len(L) - 1 : Front(L)[k] = L[k]
    BY <2>1, <2>3, PopProperties, LenProperties
  <2>5. i = Len(L) \/ j = Len(L)
    <3> SUFFICES ASSUME i # Len(L), j # Len(L) PROVE FALSE
      OBVIOUS
    <3>1. i \in DOMAIN Front(L) /\ j \in DOMAIN Front(L) /\ Front(L)[i] = Front(L)[j]
      BY <2>4
    <3> QED BY <2>3, <3>1 DEF IsInjective
  <2> QED BY <2>3, <2>4, <2>5
<1> QED BY <1>1, SafeInvariant, LostInvariant, PTL

-----------------------------------------------------------------------------
(***************************************************************************)
(* Incremental marking                                                     *)
(***************************************************************************)

\* Marking is under way.
Marking == tracing_state \in {"Tracing", "Mutation_Prepare"}

\* Field f of the live object o holds a reference.
Held(o, f) == o \in alive \ children_released /\ rc[o] # 0 /\ f \in OwnFields(o)

\* The tracer knows of the reference in field f of o, or need not know: it is to
\* follow the objects of T.  The barrier covers the traceable objects only; of a
\* program that hands the tracer all it stores, every object is covered.
Covered(T, o, f) ==
    \/ Marked(value[o][f]) \/ value[o][f] \notin T
    \/ value[o][f] \in ToSet(tracing_worklist)
    \/ o \in ToSet(tracing_mutations_worklist)
    \/ o = walk_obj /\ f \in walk_todo

\* The tricolour invariant for one field.
TriAt(T, o, f) == Held(o, f) /\ Marked(o) /\ o \in T => Covered(T, o, f)

\* The object in variable s is marked, queued, or its root is still to be pushed.
RootAt(s) ==
    slot[s] # Null =>
        \/ Marked(slot[s])
        \/ slot[s] \in ToSet(tracing_worklist)
        \/ pc = "roots" /\ s \in walk_todo

RootInv == Marking => \A s \in Slot : RootAt(s)

\* What a store of the program adds to a field the tracer knows of: the barrier sees
\* to it when both objects are traceable, or the variable stored from is a root.
StoresCovered(T) == (T = Traceable /\ ~BorrowedStores) \/ RootInv

\* While marking is under way an object that is not torn down holds its fields.
LEMMA HeldTarget ==
    ASSUME BaseInv, CountInv, Marking, NEW o \in Object, NEW f \in Field
    PROVE  /\ Held(o, f) => Target(o, f) = value[o][f] /\ value[o][f] # Null
           /\ Held(o, f) => HeldFields(o) = OwnFields(o)
           /\ o \in alive /\ f \in HeldFields(o) /\ rc[o] # 0 => Held(o, f)
<1>1. pc \notin {"scan_children", "lost_children"}
  BY DEF BaseInv, PhaseInv, PhaseOK, Marking
<1>2. rc[o] # 0 => o \notin waiting_remove /\ ~(pc = "release_children" /\ o = walk_obj)
  BY DEF CountInv, Dying
<1>3. rc[o] # 0 => HeldFields(o) = IF o \in children_released THEN {} ELSE OwnFields(o)
  BY <1>1, <1>2 DEF HeldFields
<1> QED BY <1>3 DEF Held, Target, OwnFields

\* A held reference is to a live object.
HeldAreLive ==
    \A o \in Object, f \in Field : Held(o, f) => value[o][f] \in alive /\ rc[value[o][f]] # 0

LEMMA HeldLive == BaseInv /\ CountInv /\ Marking => HeldAreLive
<1> SUFFICES ASSUME BaseInv, CountInv, Marking,
                    NEW o \in Object, NEW f \in Field, Held(o, f)
             PROVE  value[o][f] \in alive /\ rc[value[o][f]] # 0
  BY DEF HeldAreLive
<1>1. Target(o, f) = value[o][f] /\ value[o][f] # Null
  BY HeldTarget
<1> QED BY <1>1, HeldNotDying

LEMMA HeldLiveNext == BaseInv' /\ CountInv' /\ Marking' => HeldAreLive'
<1>1. BaseInv /\ CountInv /\ Marking => HeldAreLive
  BY HeldLive
<1> QED BY <1>1, PTL

\* What the proofs about a single step assume.
MarkCtx ==
    /\ BaseInv /\ CountInv /\ StepEffect /\ PhaseEffect
    /\ BaseInv' /\ CountInv'
    /\ Marking /\ Marking'

\* A step that keeps a reference, forgets no entry and marks no object of its own
\* keeps the tricolour invariant of the field.
LEMMA TriKeep ==
    ASSUME MarkCtx, NEW T, NEW o \in Object, NEW f \in Field, TriAt(T, o, f), Held(o, f), Held(o, f)',
           value'[o][f] = value[o][f],
           mark'[o] = tracing_current_bit_mark => mark[o] = tracing_current_bit_mark,
           ToSet(tracing_worklist) \subseteq ToSet(tracing_worklist)',
           ToSet(tracing_mutations_worklist) \subseteq ToSet(tracing_mutations_worklist)',
           o = walk_obj /\ f \in walk_todo =>
               (o = walk_obj' /\ f \in walk_todo') \/ value[o][f] \in ToSet(tracing_worklist)'
    PROVE  TriAt(T, o, f)'
<1>1. PICK c : c = value[o][f]
  OBVIOUS
<1>2. c \in alive /\ c \in alive'
  BY <1>1, HeldLive, HeldLiveNext DEF MarkCtx, HeldAreLive
<1>3. tracing_current_bit_mark' = tracing_current_bit_mark
  BY DEF MarkCtx, PhaseEffect, Marking
<1>4. mark[c] = tracing_current_bit_mark => mark'[c] = tracing_current_bit_mark
  BY <1>2 DEF MarkCtx, StepEffect
<1> QED BY <1>1, <1>3, <1>4 DEF TriAt, Covered, Marked

\* A step that leaves the object as it is and forgets no entry.
LEMMA TriQuiet ==
    ASSUME MarkCtx, NEW T, NEW o \in Object, NEW f \in Field, TriAt(T, o, f),
           o \in alive' => o \in alive /\ value'[o] = value[o],
           o \in alive' /\ o \in children_released => o \in children_released',
           o \in alive' /\ rc'[o] # 0 =>
               rc[o] # 0 /\ (mark'[o] = tracing_current_bit_mark => mark[o] = tracing_current_bit_mark),
           ToSet(tracing_worklist) \subseteq ToSet(tracing_worklist)',
           ToSet(tracing_mutations_worklist) \subseteq ToSet(tracing_mutations_worklist)',
           rc[o] # 0 /\ o = walk_obj /\ f \in walk_todo =>
               (o = walk_obj' /\ f \in walk_todo') \/ value[o][f] \in ToSet(tracing_worklist)'
    PROVE  TriAt(T, o, f)'
<1>1. CASE Held(o, f)'
  <2>1. o \in alive' /\ o \notin children_released' /\ rc'[o] # 0
        /\ f \in Refs[o] /\ value'[o][f] # Null
    BY <1>1 DEF Held, OwnFields
  <2>2. Held(o, f)
    BY <2>1 DEF Held, OwnFields
  <2>3. value'[o][f] = value[o][f] /\ rc[o] # 0
    BY <2>1
  <2> QED BY <1>1, <2>1, <2>2, <2>3, TriKeep
<1>2. CASE ~Held(o, f)'
  BY <1>2 DEF TriAt
<1> QED BY <1>1, <1>2

\* The program's operations that store nothing.
LEMMA TriProgram ==
    ASSUME MarkCtx, NEW T, NEW o \in Object, NEW f \in Field, TriAt(T, o, f),
           \/ \E s \in Stack : \E p \in Object : Alloc(s, p)
           \/ \E s \in Stack : Release(s)
           \/ \E s \in Slot, t \in Stack : Share(s, t)
           \/ \E s \in Slot, t \in Stack : \E g \in Field : Load(s, g, t)
           \/ \E s \in Stack, g \in Global : StoreGlobal(s, g)
           \/ GcCycle
    PROVE  TriAt(T, o, f)'
<1> USE DEF header_vars, flag_vars, trace_lists, At
<1>0. /\ TypeOK /\ WalkOK /\ CountInv /\ Null \notin Object /\ alive \subseteq Object
  BY HeapAssumption DEF MarkCtx, BaseInv, TypeInv, TypeOK
<1>s. ASSUME NEW s \in Slot, slot[s] # Null
      PROVE  rc[slot[s]] # 0
  BY <1>0, <1>s, HeldNotDying
<1>1. ASSUME NEW s \in Stack, NEW p \in Object, Alloc(s, p)
      PROVE  TriAt(T, o, f)'
  <2>1. /\ pc = "mutator" /\ p \notin alive /\ alive' = alive \cup {p}
        /\ rc' = [rc EXCEPT ![p] = 1] /\ mark' = [mark EXCEPT ![p] = tracing_current_bit_mark]
        /\ value' = [value EXCEPT ![p] = NoFields]
        /\ UNCHANGED <<children_released, tracing_worklist, tracing_mutations_worklist>>
    BY <1>1 DEF Alloc, BirthMark
  <2>2. CASE o = p
    <3>1. value'[o][f] = Null
      BY <1>0, <2>1, <2>2 DEF TypeOK, NoFields
    <3> QED BY <3>1 DEF TriAt, Held, OwnFields
  <2>3. CASE o # p
    <3>1. value'[o] = value[o] /\ rc'[o] = rc[o] /\ mark'[o] = mark[o] /\ walk_obj # o
      BY <1>0, <2>1, <2>3 DEF TypeOK, WalkOK
    <3> QED BY <2>1, <2>3, <3>1, TriQuiet
  <2> QED BY <2>2, <2>3
<1>2. ASSUME NEW s \in Stack, Release(s)
      PROVE  TriAt(T, o, f)'
  <2>1. PICK c : c = slot[s]
    OBVIOUS
  <2>2. /\ pc = "mutator" /\ c # Null /\ rc' = [rc EXCEPT ![c] = rc[c] - 1]
        /\ alive' = AliveAfterDecr(c) /\ mark' = MarkAfterDecr(c)
        /\ UNCHANGED <<value, children_released, tracing_worklist, tracing_mutations_worklist>>
    BY <1>2, <2>1 DEF Release
  <2>3. c \in Object /\ rc[c] # 0
    BY <1>0, <1>s, <2>1, <2>2 DEF TypeOK, Ref, Stack
  <2>4. rc'[o] = (IF o = c THEN rc[c] - 1 ELSE rc[o]) /\ rc[c] \in Int
    BY <1>0, <2>2, <2>3 DEF TypeOK
  <2>5. mark'[o] = mark[o] \/ rc'[o] = 0
    BY <1>0, <2>2, <2>3, <2>4 DEF MarkAfterDecr, ReachesZero, TypeOK
  <2>6. walk_obj # o /\ alive' \subseteq alive
    BY <1>0, <2>2 DEF WalkOK, AliveAfterDecr
  <2>7. o \in alive' /\ rc'[o] # 0 =>
             rc[o] # 0 /\ (mark'[o] = tracing_current_bit_mark => mark[o] = tracing_current_bit_mark)
    BY <2>3, <2>4, <2>5
  <2> QED BY <2>2, <2>6, <2>7, TriQuiet
<1>3. ASSUME NEW s \in Slot, NEW t \in Stack, NEW g \in Field, Share(s, t) \/ Load(s, g, t)
      PROVE  TriAt(T, o, f)'
  <2>1. PICK c : /\ pc = "mutator" /\ rc' = [rc EXCEPT ![c] = rc[c] + 1] /\ c \in Object /\ rc[c] # 0
                 /\ UNCHANGED <<alive, mark, value, children_released, tracing_worklist,
                                tracing_mutations_worklist>>
    <3>1. CASE Share(s, t)
      BY <1>0, <1>s, <3>1 DEF Share, TypeOK, Ref
    <3>2. CASE Load(s, g, t)
      <4>1. PICK x : x = slot[s]
        OBVIOUS
      <4>2. NoDangling /\ pc = "mutator" /\ x # Null /\ g \in OwnFields(x)
        BY <3>2, <4>1 DEF Load
      <4>3. x \in alive \ children_released /\ x \in Object
        BY <1>0, <4>1, <4>2 DEF NoDangling, TypeOK
      <4>4. Held(x, g)
        BY <1>s, <4>1, <4>2, <4>3 DEF Held
      <4>5. value[x][g] \in alive /\ rc[value[x][g]] # 0
        BY <4>3, <4>4, HeldLive DEF HeldAreLive, MarkCtx
      <4> QED BY <1>0, <3>2, <4>1, <4>5 DEF Load
    <3> QED BY <1>3, <3>1, <3>2
  <2>2. rc'[o] # 0 => rc[o] # 0
    BY <1>0, <2>1 DEF TypeOK
  <2>3. walk_obj # o
    BY <1>0, <2>1 DEF WalkOK
  <2> QED BY <2>1, <2>2, <2>3, TriQuiet
<1>4. CASE (\E s \in Stack, g \in Global : StoreGlobal(s, g)) \/ GcCycle
  <2>1. /\ pc = "mutator"
        /\ UNCHANGED <<alive, rc, mark, value, children_released, tracing_worklist,
                       tracing_mutations_worklist>>
    BY <1>4 DEF StoreGlobal, GcCycle
  <2>2. walk_obj # o
    BY <1>0, <2>1 DEF WalkOK
  <2> QED BY <2>1, <2>2, TriQuiet
<1>5. CASE \E s \in Slot, t \in Stack : Share(s, t)
  <2>1. PICK s \in Slot, t \in Stack : Share(s, t)
    BY <1>5
  <2> QED BY <1>3, <2>1
<1> QED BY <1>1, <1>2, <1>3, <1>4, <1>5

\* The counts after release(old) and own(v) or share(v), when a variable holds v
\* and a field held old.
LEMMA SetCounts ==
    ASSUME TypeOK, CountInv, NEW old \in Ref, NEW v \in Ref, NEW live, NEW ref \in Slot,
           v # Null => slot[ref] = v,
           NEW x \in Object, NEW g \in Field, old = Target(x, g), NEW o \in Object
    PROVE  /\ CountAfterSet(old, v, live)[o] # 0 => rc[o] # 0
           /\ o = old /\ ReachesZero(o) => v # old /\ CountAfterSet(old, v, live)[o] = 0
<1>1. CountAfterSet(old, v, live)[o] =
          rc[o] - (IF o = old THEN 1 ELSE 0) + (IF o = v /\ live THEN 1 ELSE 0)
  BY DEF CountAfterSet
<1>2. /\ v # Null => v \in alive /\ rc[v] # 0
      /\ old # Null => old \in alive /\ rc[old] # 0
      /\ Null \notin Object /\ rc[o] \in Int
  BY HeldNotDying, HeapAssumption DEF TypeOK
<1>3. v = old /\ old # Null => rc[old] >= 2
  <2>1. Ledger(alive, rc, slot, FieldTarget) /\ <<x, g>> \in Place /\ FieldTarget[<<x, g>>] = old
    BY TargetAt DEF CountInv, Place
  <2> QED BY <1>2, <2>1, LedgerHeld
<1> QED BY <1>1, <1>2, <1>3 DEF ReachesZero

\* A store: the barrier covers the stored reference, and the object it marks waits in
\* the mutations worklist; or the reference was marked or queued when it was a root.
LEMMA TriAssign ==
    ASSUME MarkCtx, NEW T, StoresCovered(T), NEW o \in Object, NEW f \in Field, TriAt(T, o, f),
           NEW s \in Slot, NEW g \in Field, NEW ref \in Slot,
           NEW v \in Ref, v # Null => slot[ref] = v,
           NEW live \in BOOLEAN, NEW owned \in BOOLEAN, Assign(s, g, v, ref, live, owned)
    PROVE  TriAt(T, o, f)'
<1> USE DEF flag_vars, At, control
<1>0. /\ TypeOK /\ WalkOK /\ CountInv /\ Null \notin Object /\ alive \subseteq Object
  BY HeapAssumption DEF MarkCtx, BaseInv, TypeInv, TypeOK
<1>1. PICK x, old, m, push :
           /\ x = slot[s] /\ old = value[x][g] /\ m = MarkAfterDecr(old)
           /\ push = (owned /\ v # Null /\ Barrier(x, v, m))
  OBVIOUS
<1>2. /\ NoDangling /\ pc = "mutator" /\ x # Null /\ g \in Refs[x] /\ (owned \/ BorrowedStores)
      /\ rc' = CountAfterSet(old, v, live) /\ alive' = AliveAfterDecr(old)
      /\ value' = [value EXCEPT ![x][g] = v]
      /\ mark' = IF push THEN [m EXCEPT ![v] = tracing_current_bit_mark] ELSE m
      /\ tracing_mutations_worklist' =
               IF push THEN Append(tracing_mutations_worklist, v)
               ELSE tracing_mutations_worklist
      /\ UNCHANGED <<children_released, tracing_worklist, walk_obj, walk_todo>>
  BY <1>1 DEF Assign
<1>3. x \in alive \ children_released /\ x \in Object /\ rc[x] # 0
  BY <1>0, <1>1, <1>2, HeldNotDying DEF NoDangling, TypeOK
<1>4. old \in Ref /\ old = Target(x, g)
  <2>1. old \in Ref
    BY <1>0, <1>1, <1>3 DEF TypeOK
  <2>2. old # Null => Held(x, g)
    BY <1>1, <1>2, <1>3 DEF Held, OwnFields
  <2>3. old # Null => Target(x, g) = old
    BY <1>1, <1>3, <2>2, HeldTarget DEF MarkCtx
  <2>4. HeldFields(x) = OwnFields(x)
    BY <1>1, <1>2 DEF NoDangling, HeldFields
  <2>5. old = Null => Target(x, g) = Null
    BY <1>1, <2>4 DEF Target, OwnFields
  <2> QED BY <2>1, <2>3, <2>5
<1>5. /\ rc'[o] # 0 => rc[o] # 0
      /\ o = old /\ ReachesZero(o) => rc'[o] = 0
  BY <1>0, <1>2, <1>3, <1>4, SetCounts
<1>6. m \in [Object -> {0, 1}] /\ (m[o] = mark[o] \/ (o = old /\ ReachesZero(o)))
  BY <1>0, <1>1 DEF MarkAfterDecr, TypeOK
<1>7. push => v \in Object /\ mark' \in [Object -> {0, 1}]
              /\ \A p \in Object : mark'[p] = IF p = v THEN tracing_current_bit_mark ELSE m[p]
  BY <1>0, <1>1, <1>2, <1>6 DEF Ref, TypeOK
<1>8. /\ ToSet(tracing_mutations_worklist) \subseteq ToSet(tracing_mutations_worklist)'
      /\ push => v \in ToSet(tracing_mutations_worklist)'
  <2>1. CASE push
    <3>1. ToSet(Append(tracing_mutations_worklist, v)) = ToSet(tracing_mutations_worklist) \cup {v}
      BY <1>0, <1>7, <2>1, AppendSet DEF TypeOK
    <3> QED BY <1>2, <2>1, <3>1
  <2>2. CASE ~push
    BY <1>2, <2>2
  <2> QED BY <2>1, <2>2
<1>9. value'[o][f] = (IF o = x /\ f = g THEN v ELSE value[o][f]) /\ walk_obj # o
  BY <1>0, <1>2, <1>3 DEF TypeOK, WalkOK
<1>10. tracing_current_bit_mark' = tracing_current_bit_mark
  BY DEF MarkCtx, PhaseEffect, Marking
<1>11. CASE ~Held(o, f)'
  BY <1>11 DEF TriAt
<1>12. CASE Held(o, f)' /\ push /\ o = v
  BY <1>8, <1>12 DEF TriAt, Covered
<1>13. CASE Held(o, f)' /\ ~(push /\ o = v) /\ o = x /\ f = g
  <2>1. v # Null /\ value'[o][f] = v
    BY <1>9, <1>13 DEF Held, OwnFields
  <2>2. CASE push
    BY <1>7, <1>10, <2>1, <2>2 DEF TriAt, Covered, Marked
  <2>3. CASE ~push /\ T = Traceable /\ ~BorrowedStores
    <3>1. ~Barrier(x, v, m) /\ mark' = m
      BY <1>1, <1>2, <2>1, <2>3
    <3> QED BY <1>10, <1>13, <2>1, <2>3, <3>1 DEF Barrier, TriAt, Covered, Marked, MarkCtx, Marking
  <2>4. CASE RootInv
    <3>1. mark[v] = tracing_current_bit_mark \/ v \in ToSet(tracing_worklist)
      BY <1>2, <2>1, <2>4 DEF RootInv, RootAt, Marked, MarkCtx
    <3>2. v \in alive /\ v \in alive'
      BY <1>0, <1>13, <2>1, HeldNotDying, HeldLiveNext DEF MarkCtx, HeldAreLive
    <3>3. mark[v] = tracing_current_bit_mark => mark'[v] = tracing_current_bit_mark
      BY <3>2 DEF MarkCtx, StepEffect
    <3> QED BY <1>2, <1>10, <2>1, <3>1, <3>3 DEF TriAt, Covered, Marked
  <2> QED BY <2>2, <2>3, <2>4 DEF StoresCovered
<1>14. CASE Held(o, f)' /\ ~(push /\ o = v) /\ ~(o = x /\ f = g)
  <2>1. /\ o \in alive' /\ o \notin children_released' /\ rc'[o] # 0
        /\ f \in Refs[o] /\ value'[o][f] # Null /\ value'[o][f] = value[o][f]
    BY <1>9, <1>14 DEF Held, OwnFields
  <2>2. Held(o, f)
    BY <1>2, <1>5, <2>1 DEF Held, OwnFields, AliveAfterDecr
  <2>3. mark'[o] = mark[o]
    BY <1>2, <1>5, <1>6, <1>7, <1>14, <2>1
  <2> QED BY <1>2, <1>8, <1>9, <1>14, <2>1, <2>2, <2>3, TriKeep
<1> QED BY <1>11, <1>12, <1>13, <1>14

\* The releasing machine.
LEMMA TriReleasing ==
    ASSUME MarkCtx, NEW T, NEW o \in Object, NEW f \in Field, TriAt(T, o, f), ReleasingMachine
    PROVE  TriAt(T, o, f)'
<1> USE DEF header_vars, flag_vars, trace_lists, free_vars, control, At
<1>0. /\ TypeOK /\ WalkOK /\ CountInv /\ Null \notin Object /\ alive \subseteq Object
  BY HeapAssumption DEF MarkCtx, BaseInv, TypeInv, TypeOK
<1>1. CASE ReleasingReturn \/ SetReleasingWorking \/ ReleasingPop
  <2>1. /\ pc = "releasing"
        /\ UNCHANGED <<alive, rc, mark, value, children_released, tracing_worklist,
                       tracing_mutations_worklist>>
    BY <1>1 DEF ReleasingReturn, SetReleasingWorking, ReleasingPop
  <2>2. walk_obj # o
    BY <1>0, <2>1 DEF WalkOK
  <2> QED BY <2>1, <2>2, TriQuiet
<1>r. pc = "release_children" => ~(rc[o] # 0 /\ o = walk_obj)
  BY <1>0 DEF CountInv, Dying
<1>f. ASSUME NEW c, FreeReleasedObject(c)
      PROVE  /\ alive' \subseteq alive
             /\ o \in alive' => /\ value'[o] = value[o]
                                /\ mark'[o] = mark[o]
                                /\ o \in children_released => o \in children_released'
  <2>1. CASE DeferFree(c)
    BY <1>f, <2>1 DEF FreeReleasedObject
  <2>2. CASE ~DeferFree(c)
    BY <1>0, <1>f, <2>2 DEF FreeReleasedObject, FreeCell, TypeOK
  <2> QED BY <2>1, <2>2
<1>2. CASE ReleasingFree
  <2>1. /\ pc = "release_children" /\ FreeReleasedObject(walk_obj)
        /\ UNCHANGED <<rc, tracing_worklist, tracing_mutations_worklist>>
    BY <1>2 DEF ReleasingFree
  <2> QED BY <1>r, <1>f, <2>1, TriQuiet
<1>3. ASSUME NEW g \in Field, ReleaseChild(g)
      PROVE  TriAt(T, o, f)'
  <2>1. PICK c : c = value[walk_obj][g]
    OBVIOUS
  <2>2. /\ NoDangling /\ pc = "release_children" /\ g \in walk_todo
        /\ rc' = [rc EXCEPT ![c] = rc[c] - 1]
        /\ \/ UNCHANGED <<alive, value, mark, children_released>>
           \/ FreeReleasedObject(c)
           \/ mark' = MarkAfterDecr(c) /\ UNCHANGED <<alive, value, children_released>>
        /\ UNCHANGED <<tracing_worklist, tracing_mutations_worklist>>
    BY <1>3, <2>1 DEF ReleaseChild, IsLeast
  <2>3. walk_obj \in Object /\ c \in Object
    BY <2>1, <2>2, ChildIsObject DEF WalkPCs, MarkCtx, BaseInv
  <2>4. rc[c] # 0
    <3>1. walk_obj \in alive /\ HeldFields(walk_obj) = walk_todo
      BY <1>0, <2>2, <2>3 DEF HeldFields, NoDangling
    <3>2. Target(walk_obj, g) = c /\ c # Null
      BY <1>0, <2>1, <2>2, <2>3, <3>1 DEF Target
    <3> QED BY <1>0, <2>3, <3>2, HeldNotDying
  <2>5. rc'[o] = (IF o = c THEN rc[c] - 1 ELSE rc[o]) /\ rc[c] \in Int
    BY <1>0, <2>2, <2>3 DEF TypeOK
  <2>6. /\ alive' \subseteq alive
        /\ o \in alive' => /\ value'[o] = value[o]
                           /\ o \in children_released => o \in children_released'
                           /\ mark'[o] = mark[o] \/ rc'[o] = 0
    <3>1. CASE FreeReleasedObject(c)
      BY <1>f, <3>1
    <3>2. CASE mark' = MarkAfterDecr(c) /\ UNCHANGED <<alive, value, children_released>>
      BY <1>0, <2>3, <2>5, <3>2 DEF MarkAfterDecr, ReachesZero, TypeOK
    <3> QED BY <2>2, <3>1, <3>2
  <2>7. o \in alive' /\ rc'[o] # 0 =>
             rc[o] # 0 /\ (mark'[o] = tracing_current_bit_mark => mark[o] = tracing_current_bit_mark)
    BY <2>4, <2>5, <2>6
  <2> QED BY <1>r, <2>2, <2>6, <2>7, TriQuiet
<1> QED BY <1>1, <1>2, <1>3 DEF ReleasingMachine

\* gc_tracing_worklist_push only adds to the worklist, and its argument is then there.
LEMMA PushGrows ==
    ASSUME TypeOK, FlagInv, NEW c \in Object, TracingPush(c)
    PROVE  ToSet(tracing_worklist)' = ToSet(tracing_worklist) \cup {c}
<1>1. CASE c \in tracing_flag
  BY <1>1 DEF TracingPush, FlagInv, TracingFlagExact
<1>2. CASE c \notin tracing_flag
  <2>1. ToSet(Append(tracing_worklist, c)) = ToSet(tracing_worklist) \cup {c}
    BY AppendSet DEF TypeOK
  <2> QED BY <1>2, <2>1 DEF TracingPush
<1> QED BY <1>1, <1>2

\* gc_one_step_tracing takes an object from the worklist: it is then marked, its
\* children are about to be visited, or nothing refers to it.
LEMMA TriTracingPop ==
    ASSUME MarkCtx, NEW T, NEW o \in Object, NEW f \in Field, TriAt(T, o, f), TracingPop
    PROVE  TriAt(T, o, f)'
<1> USE DEF At
<1>0. /\ TypeOK /\ WalkOK /\ CountInv /\ Null \notin Object /\ alive \subseteq Object
  BY HeapAssumption DEF MarkCtx, BaseInv, TypeInv, TypeOK
<1>1. PICK c : c = Last(tracing_worklist)
  OBVIOUS
<1>2. /\ pc = "tracing" /\ tracing_worklist # <<>> /\ tracing_worklist' = Front(tracing_worklist)
      /\ UNCHANGED <<rc, tracing_mutations_worklist>>
      /\ \/ FreeCell(c)
         \/ (rc[c] = 0 \/ Marked(c)) /\ UNCHANGED <<alive, value, mark, children_released>>
         \/ /\ mark' = [mark EXCEPT ![c] = tracing_current_bit_mark]
            /\ walk_obj' = c /\ walk_todo' = OwnFields(c)
            /\ UNCHANGED <<alive, value, children_released>>
  BY <1>1 DEF TracingPop
<1>3. /\ c \in Object /\ ToSet(tracing_worklist) = ToSet(tracing_worklist)' \cup {c}
      /\ walk_obj # o /\ tracing_current_bit_mark' = tracing_current_bit_mark
  <2>1. tracing_worklist \in Seq(Object)
    BY <1>0 DEF TypeOK
  <2>2. c \in Object /\ ToSet(tracing_worklist) = ToSet(Front(tracing_worklist)) \cup {c}
    BY <1>1, <1>2, <2>1, PopSet, PopObject
  <2> QED BY <1>0, <1>2, <2>2 DEF WalkOK, MarkCtx, PhaseEffect, Marking
<1>4. CASE ~Held(o, f)'
  BY <1>4 DEF TriAt
<1>5. CASE Held(o, f)' /\ o = c /\ walk_obj' = c /\ walk_todo' = OwnFields(c) /\ value' = value
  BY <1>5 DEF TriAt, Covered, Held, OwnFields
<1>6. ASSUME Held(o, f)', value'[o] = value[o], Held(o, f),
             mark'[o] = mark[o], value[o][f] = c => mark'[c] = tracing_current_bit_mark
      PROVE  TriAt(T, o, f)'
  <2>1. value[o][f] \in alive /\ value[o][f] \in alive'
    BY <1>6, HeldLive, HeldLiveNext DEF MarkCtx, HeldAreLive
  <2>2. mark[value[o][f]] = tracing_current_bit_mark => mark'[value[o][f]] = tracing_current_bit_mark
    BY <2>1 DEF MarkCtx, StepEffect
  <2> QED BY <1>2, <1>3, <1>6, <2>2 DEF TriAt, Covered, Marked
<1>7. CASE Held(o, f)' /\ FreeCell(c)
  <2>1. o # c /\ value'[o] = value[o] /\ mark'[o] = mark[o] /\ Held(o, f)
    BY <1>0, <1>2, <1>7 DEF FreeCell, Held, OwnFields, TypeOK
  <2>2. value[o][f] # c
    BY <1>7, <2>1, HeldLiveNext DEF MarkCtx, HeldAreLive, FreeCell
  <2> QED BY <1>6, <1>7, <2>1, <2>2
<1>8. CASE Held(o, f)' /\ (rc[c] = 0 \/ Marked(c)) /\ UNCHANGED <<alive, value, mark, children_released>>
  <2>1. Held(o, f)
    BY <1>2, <1>8 DEF Held, OwnFields
  <2>2. rc[value[o][f]] # 0
    BY <2>1, HeldLive DEF MarkCtx, HeldAreLive
  <2> QED BY <1>6, <1>8, <2>1, <2>2 DEF Marked
<1>9. CASE /\ Held(o, f)' /\ o # c /\ mark' = [mark EXCEPT ![c] = tracing_current_bit_mark]
           /\ UNCHANGED <<alive, value, children_released>>
  <2>1. Held(o, f) /\ mark'[o] = mark[o] /\ mark'[c] = tracing_current_bit_mark
    BY <1>0, <1>2, <1>3, <1>9 DEF Held, OwnFields, TypeOK
  <2> QED BY <1>6, <1>9, <2>1
<1> QED BY <1>2, <1>4, <1>5, <1>7, <1>8, <1>9

\* gc_one_step_prepare_tracing_mutations takes an object from the mutations
\* worklist and is about to visit its children.
LEMMA TriMutationPop ==
    ASSUME MarkCtx, NEW T, NEW o \in Object, NEW f \in Field, TriAt(T, o, f), MutationPop
    PROVE  TriAt(T, o, f)'
<1> USE DEF At
<1>0. /\ TypeOK /\ WalkOK /\ CountInv /\ Null \notin Object /\ alive \subseteq Object
  BY HeapAssumption DEF MarkCtx, BaseInv, TypeInv, TypeOK
<1>1. PICK c : c = Last(tracing_mutations_worklist)
  OBVIOUS
<1>2. /\ pc = "tracing" /\ tracing_mutations_worklist # <<>>
      /\ tracing_mutations_worklist' = Front(tracing_mutations_worklist)
      /\ UNCHANGED <<rc, tracing_worklist>>
      /\ \/ FreeCell(c)
         \/ /\ walk_obj' = c /\ walk_todo' = OwnFields(c)
            /\ UNCHANGED <<alive, value, mark, children_released>>
  BY <1>1 DEF MutationPop
<1>3. /\ ToSet(tracing_mutations_worklist) = ToSet(tracing_mutations_worklist)' \cup {c}
      /\ walk_obj # o /\ tracing_current_bit_mark' = tracing_current_bit_mark
  <2>1. tracing_mutations_worklist \in Seq(Object)
    BY <1>0 DEF TypeOK
  <2>2. ToSet(tracing_mutations_worklist) = ToSet(Front(tracing_mutations_worklist)) \cup {c}
    BY <1>1, <1>2, <2>1, PopSet
  <2> QED BY <1>0, <1>2, <2>2 DEF WalkOK, MarkCtx, PhaseEffect, Marking
<1>4. CASE ~Held(o, f)'
  BY <1>4 DEF TriAt
<1>5. CASE Held(o, f)' /\ o = c
  BY <1>2, <1>5 DEF TriAt, Covered, Held, OwnFields, FreeCell
<1>6. CASE Held(o, f)' /\ o # c
  <2>1. value'[o] = value[o] /\ mark'[o] = mark[o] /\ Held(o, f)
    BY <1>0, <1>2, <1>6 DEF FreeCell, Held, OwnFields, TypeOK
  <2>2. value[o][f] \in alive /\ value[o][f] \in alive'
    BY <1>6, <2>1, HeldLive, HeldLiveNext DEF MarkCtx, HeldAreLive
  <2>3. mark[value[o][f]] = tracing_current_bit_mark => mark'[value[o][f]] = tracing_current_bit_mark
    BY <2>2 DEF MarkCtx, StepEffect
  <2> QED BY <1>2, <1>3, <1>6, <2>1, <2>3 DEF TriAt, Covered, Marked
<1> QED BY <1>4, <1>5, <1>6

\* The tracing machine.
LEMMA TriTracing ==
    ASSUME MarkCtx, NEW T, NEW o \in Object, NEW f \in Field, TriAt(T, o, f), TracingMachine
    PROVE  TriAt(T, o, f)'
<1> USE DEF header_vars, flag_vars, trace_lists, control, At
<1>0. /\ TypeOK /\ WalkOK /\ FlagInv /\ Null \notin Object
      /\ pc \notin {"scan_children", "lost_children"}
      /\ tracing_state \notin {"Tracing_Idle", "Reclaiming_Cyclic_Candidates"}
  BY HeapAssumption DEF MarkCtx, BaseInv, TypeInv, PhaseInv, PhaseOK, Marking
<1>1. CASE TracingReturn \/ RootsCollected \/ TracingStepped \/ MutationsDrained \/ MutationStepped
  <2>1. /\ pc \in {"tracing", "roots"} \/ walk_todo = {}
        /\ UNCHANGED <<alive, rc, mark, value, children_released, tracing_worklist,
                       tracing_mutations_worklist>>
    BY <1>1 DEF TracingReturn, RootsCollected, TracingStepped, MutationsDrained, MutationStepped
  <2>2. ~(o = walk_obj /\ f \in walk_todo)
    BY <1>0, <2>1 DEF WalkOK
  <2> QED BY <2>1, <2>2, TriQuiet
<1>2. ASSUME NEW s \in Stack, PushRoot(s)
      PROVE  TriAt(T, o, f)'
  <2>1. /\ pc = "roots" /\ s \in walk_todo /\ TracingPush(slot[s])
        /\ UNCHANGED <<alive, rc, mark, value, children_released, tracing_mutations_worklist>>
    BY <1>2 DEF PushRoot, IsLeast
  <2>2. slot[s] \in Object /\ walk_obj # o
    BY <1>0, <2>1 DEF WalkOK, TypeOK, Ref
  <2>3. ToSet(tracing_worklist) \subseteq ToSet(tracing_worklist)'
    BY <1>0, <2>1, <2>2, PushGrows
  <2> QED BY <2>1, <2>2, <2>3, TriQuiet
<1>3. ASSUME NEW g \in Field, TraceChild(g)
      PROVE  TriAt(T, o, f)'
  <2>1. /\ NoDangling /\ pc \in {"trace_children", "mutation_children"} /\ g \in walk_todo
        /\ walk_todo' = walk_todo \ {g} /\ walk_obj' = walk_obj
        /\ TracingPush(value[walk_obj][g])
        /\ UNCHANGED <<alive, rc, mark, value, children_released, tracing_mutations_worklist>>
    BY <1>3 DEF TraceChild, IsLeast
  <2>2. value[walk_obj][g] \in Object
    BY <2>1, ChildIsObject DEF WalkPCs, MarkCtx, BaseInv
  <2>3. ToSet(tracing_worklist)' = ToSet(tracing_worklist) \cup {value[walk_obj][g]}
    BY <1>0, <2>1, <2>2, PushGrows
  <2>4. o = walk_obj /\ f \in walk_todo =>
               (o = walk_obj' /\ f \in walk_todo') \/ value[o][f] \in ToSet(tracing_worklist)'
    BY <2>1, <2>3
  <2> QED BY <2>1, <2>3, <2>4, TriQuiet
<1>4. ~(StartTracing \/ LostCyclePop \/ LostCycleFree \/ ReclaimingDone \/ ScanSkip
          \/ ScanUnmarked \/ ScanEnqueue)
  BY <1>0 DEF StartTracing, LostCyclePop, LostCycleFree, ReclaimingDone, ScanSkip,
              ScanUnmarked, ScanEnqueue, Reclaiming
<1>5. ~(\E g \in Field : LostCycleChildDecr(g))
  BY <1>0 DEF LostCycleChildDecr
<1> QED BY <1>1, <1>2, <1>3, <1>4, <1>5, TriTracingPop, TriMutationPop DEF TracingMachine

\* No step of a program whose stores are covered, and no step of a collector, breaks
\* the tricolour invariant of any field.
LEMMA TriStep ==
    ASSUME BaseInv, CountInv, BaseInv', CountInv', Marking, Marking', Next,
           NEW T, StoresCovered(T), NEW o \in Object, NEW f \in Field, TriAt(T, o, f)
    PROVE  TriAt(T, o, f)'
<1>1. MarkCtx
  BY NextEffect, NextPhase DEF MarkCtx
<1>2. TypeOK /\ Stack \subseteq Slot
  BY DEF BaseInv, TypeInv, Stack
<1>3. ASSUME NEW s \in Slot, NEW t \in Stack, NEW g \in Field, NEW live \in BOOLEAN,
             NEW owned \in BOOLEAN, Store(s, g, t, live, owned)
      PROVE  TriAt(T, o, f)'
  <2>1. slot[t] \in Ref /\ t \in Slot
    BY <1>2 DEF TypeOK
  <2>2. Assign(s, g, slot[t], t, live, owned)
    BY <1>3 DEF Store
  <2> QED BY <1>1, <2>1, <2>2, TriAssign
<1>4. ASSUME NEW s \in Slot, NEW g \in Field, StoreConstant(s, g)
      PROVE  TriAt(T, o, f)'
  BY <1>1, <1>4, TriAssign DEF StoreConstant, Ref
<1>5. CASE Mutator
  BY <1>1, <1>3, <1>4, <1>5, TriProgram DEF Mutator
<1> QED BY <1>1, <1>5, TriReleasing, TriTracing DEF Next

-----------------------------------------------------------------------------
(***************************************************************************)
(* The tricolour invariant                                                 *)
(***************************************************************************)

\* The tricolour invariant of every field.
TriAll == Marking => \A o \in Object, f \in Field : TriAt(Traceable, o, f)

LEMMA TriColorIsTriAll == BaseInv /\ CountInv => (TriColor <=> TriAll)
<1> SUFFICES ASSUME BaseInv, CountInv, Marking
             PROVE  TriColor <=> \A o \in Object, f \in Field : TriAt(Traceable, o, f)
  BY DEF TriColor, TriAll, Marking
<1>1. alive \subseteq Object /\ \A o \in alive : rc[o] \in Nat
  BY LedgerHeld DEF CountInv, Ledger
<1>2. \A o \in Object : OwnFields(o) \subseteq Field
  BY HeaderAssumption DEF OwnFields
<1>3. ASSUME TriColor, NEW o \in Object, NEW f \in Field, Held(o, f), Marked(o), o \in Traceable
      PROVE  Covered(Traceable, o, f)
  <2>1. o \in alive /\ rc[o] # 0 /\ f \in HeldFields(o)
    BY <1>3, HeldTarget DEF Held
  <2>2. rc[o] > 0
    BY <1>1, <2>1
  <2> QED BY <1>3, <2>1, <2>2 DEF TriColor, Marking, Covered
<1>4. ASSUME \A o \in Object, f \in Field : TriAt(Traceable, o, f)
      PROVE  TriColor
  <2>1. ASSUME NEW o \in alive, NEW f \in HeldFields(o), Marked(o), rc[o] > 0, o \in Traceable
        PROVE  Covered(Traceable, o, f)
    <3>1. o \in Object /\ rc[o] # 0
      BY <1>1, <2>1
    <3>2. f \in Field
      <4>1. rc[o] # 0 => ~(pc \in DownPCs /\ o = walk_obj)
        BY <3>1 DEF CountInv, Dying, DownPCs, BaseInv, PhaseInv, PhaseOK, Marking
      <4>2. HeldFields(o) \subseteq OwnFields(o)
        BY <3>1, <4>1 DEF HeldFields, DownPCs
      <4> QED BY <1>2, <2>1, <3>1, <4>2
    <3>3. Held(o, f)
      BY <2>1, <3>1, <3>2, HeldTarget
    <3> QED BY <1>4, <2>1, <3>1, <3>2, <3>3 DEF TriAt
  <2> QED BY <2>1 DEF TriColor, Covered
<1> QED BY <1>3, <1>4 DEF TriAt

LEMMA TriColorIsTriAllNext == BaseInv' /\ CountInv' => (TriColor' <=> TriAll')
<1>1. BaseInv /\ CountInv => (TriColor <=> TriAll)
  BY TriColorIsTriAll
<1> QED BY <1>1, PTL

\* How the tracer's state and generation move, and what is left when it turns to
\* the candidates.
Turned ==
    /\ Marking /\ tracing_state' = "Reclaiming_Cyclic_Candidates"
    /\ tracing_worklist = <<>> /\ tracing_mutations_worklist = <<>> /\ walk_todo = {}

PhaseMove ==
    \/ UNCHANGED <<tracing_state, tracing_current_bit_mark>>
    \/ StartTracing
    \/ ReclaimingDone
    \/ UNCHANGED <<heap_vars, children_released>> /\ Marking /\ (Marking' \/ Turned)

LEMMA NextMove ==
    ASSUME BaseInv, Next
    PROVE  PhaseMove
<1> USE DEF state_vars, PhaseMove, heap_vars, header_vars
<1> DEFINE Same == UNCHANGED <<tracing_state, tracing_current_bit_mark>>
<1>1. CASE Mutator
  <2>1. ASSUME NEW s, NEW f, NEW v, NEW ref, NEW live, NEW owned,
               Assign(s, f, v, ref, live, owned)
        PROVE  Same
    BY <2>1 DEF Assign
  <2>2. CASE \E s \in Slot, t \in Stack : \E f \in Field : \E live, owned \in BOOLEAN :
                Store(s, f, t, live, owned)
    BY <2>1, <2>2 DEF Store
  <2>3. CASE \E s \in Slot : \E f \in Field : StoreConstant(s, f)
    BY <2>1, <2>3 DEF StoreConstant
  <2>4. CASE \E s \in Stack : \E o \in Object : Alloc(s, o)
    BY <2>4 DEF Alloc
  <2>5. CASE \E s \in Stack : Release(s)
    BY <2>5 DEF Release
  <2>6. CASE \E s \in Slot, t \in Stack : Share(s, t)
    BY <2>6 DEF Share
  <2>7. CASE \E s \in Slot, t \in Stack : \E f \in Field : Load(s, f, t)
    BY <2>7 DEF Load
  <2>8. CASE \E s \in Stack, g \in Global : StoreGlobal(s, g)
    BY <2>8 DEF StoreGlobal
  <2>9. CASE GcCycle
    BY <2>9 DEF GcCycle
  <2> QED BY <1>1, <2>2, <2>3, <2>4, <2>5, <2>6, <2>7, <2>8, <2>9 DEF Mutator
<1>2. CASE ReleasingMachine
  <2>1. CASE \E f \in Field : ReleaseChild(f)
    BY <2>1 DEF ReleaseChild
  <2>2. CASE ReleasingReturn \/ SetReleasingWorking \/ ReleasingPop \/ ReleasingFree
    BY <2>2 DEF ReleasingReturn, SetReleasingWorking, ReleasingPop, ReleasingFree
  <2> QED BY <1>2, <2>1, <2>2 DEF ReleasingMachine
<1>3. CASE TracingMachine
  <2>1. CASE TracingReturn \/ TracingPop \/ MutationPop \/ MutationStepped \/ LostCyclePop
               \/ LostCycleFree \/ ScanSkip \/ ScanUnmarked \/ ScanEnqueue
    BY <2>1 DEF TracingReturn, TracingPop, MutationPop, MutationStepped, LostCyclePop,
                LostCycleFree, ScanSkip, ScanUnmarked, ScanEnqueue
  <2>2. CASE RootsCollected
    BY <2>2 DEF RootsCollected, At, BaseInv, PhaseInv, PhaseOK, Marking, Turned,
                TraceListsEmpty, flag_vars
  <2>3. CASE TracingStepped
    BY <2>3 DEF TracingStepped, At, BaseInv, PhaseInv, PhaseOK, Marking, Turned,
                TraceListsEmpty, flag_vars
  <2>4. CASE MutationsDrained
    <3>1. walk_todo = {}
      BY <2>4 DEF MutationsDrained, At, BaseInv, TypeInv, WalkOK
    <3> QED BY <2>4, <3>1 DEF MutationsDrained, Marking, Turned, flag_vars
  <2>5. CASE \E s \in Stack : PushRoot(s)
    BY <2>5 DEF PushRoot
  <2>6. CASE \E f \in Field : TraceChild(f)
    BY <2>6 DEF TraceChild
  <2>7. CASE \E f \in Field : LostCycleChildDecr(f)
    BY <2>7 DEF LostCycleChildDecr
  <2> QED BY <1>3, <2>1, <2>2, <2>3, <2>4, <2>5, <2>6, <2>7 DEF TracingMachine
<1> QED BY <1>1, <1>2, <1>3 DEF Next

\* Once a trace is under way no step of the program or of a collector breaks the
\* tricolour invariant, for every heap and budget: the write barrier, the tracing
\* flag and the mark of new objects cover every case, for programs that store
\* through owned pointers only.
THEOREM TriColorKeptCorrect ==
    ASSUME ~BorrowedStores
    PROVE  Spec /\ []TornNotQueued => TriColorKept
<1> DEFINE Premise == tracing_state # "Tracing_Idle" /\ TriColor /\ RcExact /\ NoDangling'
<1>1. ASSUME SafeInv, SafeInv', Next, Premise
      PROVE  TriColor'
  <2>1. BaseInv /\ CountInv /\ BaseInv' /\ CountInv'
    BY <1>1 DEF SafeInv
  <2>2. CASE Marking' /\ Marking
    <3>1. \A o \in Object, f \in Field : TriAt(Traceable, o, f)
      BY <1>1, <2>1, <2>2, TriColorIsTriAll DEF TriAll
    <3>2. \A o \in Object, f \in Field : TriAt(Traceable, o, f)'
      BY <1>1, <2>1, <2>2, <3>1, TriStep DEF StoresCovered
    <3> QED BY <2>1, <3>2, TriColorIsTriAllNext DEF TriAll
  <2>3. CASE ~Marking'
    BY <2>3 DEF TriColor, Marking
  <2>4. CASE Marking' /\ ~Marking
    <3>1. PhaseMove
      BY <1>1, <2>1, NextMove
    <3> QED BY <1>1, <2>4, <3>1 DEF PhaseMove, StartTracing, ReclaimingDone, Marking
  <2> QED BY <2>2, <2>3, <2>4
<1>2. SafeInv /\ SafeInv' /\ [Next]_vars => [Premise => TriColor']_vars
  BY <1>1
<1> QED BY <1>2, SafeInvariant, PTL DEF Spec, TriColorKept

-----------------------------------------------------------------------------
(***************************************************************************)
(* Marking is complete                                                     *)
(***************************************************************************)

\* The tricolour invariant of what the program can reach.
TriReachable(T) == Marking => \A o \in Heap!Reachable : \A f \in Field : TriAt(T, o, f)

\* The objects of T in S are marked.
MarkedAmong(T, S) == \A o \in S \cap T : Marked(o)

\* Between traces everything the program can reach is marked: two colours
\* suffice only then.
IdleMarked(T) == tracing_state = "Tracing_Idle" => MarkedAmong(T, Heap!Reachable)

\* What the program's variables hold is marked.
RootsAreMarked(T) == MarkedAmong(T, Ref \cap {slot[s] : s \in Slot})

\* What may hold an object of T is in T.
HoldersIn(T) == \A o \in Object : \A p \in MayPoint[o] : p \in T => o \in T

\* What may hold a traceable object is traceable.  This is a condition on the
\* program: pass_cyclic_analysis.ml sees to it for every field but those of function
\* type, so that a record without cyclic parts may hold a closure that is traceable.
TraceableHolders == HoldersIn(Traceable)

LEMMA AllHolders == HoldersIn(Object)
  BY DEF HoldersIn

LEMMA AmongTraceable ==
    ASSUME NEW S
    PROVE  MarkedIn(S) <=> MarkedAmong(Traceable, S)
  BY DEF MarkedIn, MarkedAmong

\* With marked roots and empty worklists everything reachable is marked.
LEMMA TraceComplete ==
    ASSUME NEW T, HoldersIn(T), SafeInv, NotTorn, TriReachable(T), Marking, RootsAreMarked(T),
           tracing_worklist = <<>>, tracing_mutations_worklist = <<>>, walk_todo = {}
    PROVE  MarkedAmong(T, Heap!Reachable)
<1> DEFINE R == Heap!Reachable
           S == {o \in R : o \in T => Marked(o)}
<1>1. TypeOK /\ FieldsTyped
  BY DEF SafeInv, BaseInv, TypeInv, ShapeInv
<1>2. Heap!Closed(R) /\ R \subseteq Object
  BY <1>1, ReachableIsLeast
<1>3. ASSUME NEW s \in Slot, slot[s] # Null
      PROVE  slot[s] \in S
  <2>1. slot[s] \in R
    BY <1>2, <1>3 DEF Heap!Closed
  <2>2. slot[s] \in Ref \cap {slot[t] : t \in Slot}
    BY <1>1 DEF TypeOK
  <2> QED BY <2>1, <2>2 DEF RootsAreMarked, MarkedAmong
<1>4. ASSUME NEW o \in S, NEW f \in Field, value[o][f] # Null
      PROVE  value[o][f] \in S
  <2>1. value[o][f] \in R /\ o \in Object /\ o \in R
    BY <1>2, <1>4 DEF Heap!Closed
  <2>2. CASE value[o][f] \notin T
    BY <2>1, <2>2
  <2>3. CASE value[o][f] \in T
    <3>1. f \in Refs[o] /\ value[o][f] \in MayPoint[o]
      BY <1>1, <1>4, <2>1 DEF FieldsTyped
    <3>2. o \in T /\ Marked(o)
      BY <2>1, <2>3, <3>1 DEF HoldersIn
    <3>3. o \in alive /\ rc[o] # 0
      BY <2>1, ReachableIsOK DEF ReachableOK
    <3>4. Held(o, f)
      BY <1>4, <2>1, <3>1, <3>3 DEF Held, OwnFields, NotTorn
    <3>5. Covered(T, o, f)
      BY <2>1, <3>2, <3>4 DEF TriReachable, TriAt
    <3>6. Marked(value[o][f])
      BY <2>3, <3>5 DEF Covered, ToSet
    <3> QED BY <2>1, <3>6
  <2> QED BY <2>2, <2>3
<1>5. Heap!Closed(S) /\ S \in SUBSET Object
  BY <1>2, <1>3, <1>4 DEF Heap!Closed
<1>6. R \subseteq S
  <2> HIDE DEF S
  <2> QED BY <1>1, <1>5, ReachableIsLeast
<1> QED BY <1>6 DEF MarkedAmong

\* A trace starts with every object it will follow unmarked, and no step of it
\* hides one.
LEMMA TriReachableStep ==
    ASSUME NEW T, StoresCovered(T), SafeInv, SafeInv', TriReachable(T), IdleMarked(T),
           [Next]_vars
    PROVE  TriReachable(T)'
<1>1. BaseInv /\ CountInv /\ BaseInv' /\ CountInv' /\ TypeOK
  BY DEF SafeInv, BaseInv, TypeInv
<1>2. CASE Next /\ Marking /\ Marking'
  <2>1. StepEffect
    BY <1>1, <1>2, NextEffect
  <2>2. ASSUME NEW o \in Heap!Reachable', NEW f \in Field
        PROVE  TriAt(T, o, f)'
    <3>1. o \in Object
      BY DEF Heap!Reachable
    <3>2. o \in Heap!Reachable \/ o \notin alive
      BY <2>1 DEF StepEffect
    <3>3. TriAt(T, o, f)
      BY <1>2, <3>2 DEF TriReachable, TriAt, Held
    <3> QED BY <1>1, <1>2, <3>1, <3>3, TriStep
  <2> QED BY <2>2 DEF TriReachable
<1>3. CASE Next /\ ~Marking /\ Marking'
  <2>1. PhaseMove
    BY <1>1, <1>3, NextMove
  <2>2. StartTracing
    BY <1>3, <2>1 DEF PhaseMove, ReclaimingDone, Marking
  <2>3. /\ tracing_state = "Tracing_Idle" /\ tracing_current_bit_mark' = NextMark
        /\ UNCHANGED <<value, slot, mark>>
    BY <2>2 DEF StartTracing, header_vars
  <2>4. Heap!Reachable' = Heap!Reachable
    BY <2>3 DEF Heap!Reachable, Heap!Closed
  <2>5. \A o \in Heap!Reachable : o \in T => mark'[o] # tracing_current_bit_mark'
    BY <1>1, <2>3 DEF IdleMarked, MarkedAmong, Marked, NextMark, TypeOK
  <2> QED BY <2>4, <2>5 DEF TriReachable, TriAt, Marked
<1>4. CASE ~Marking'
  BY <1>4 DEF TriReachable
<1>5. CASE UNCHANGED vars
  <2>1. /\ UNCHANGED <<alive, rc, mark, value, slot, children_released, tracing_state, walk_obj,
                       walk_todo, tracing_current_bit_mark, tracing_worklist,
                       tracing_mutations_worklist>>
    BY <1>5 DEF vars, header_vars, flag_vars, state_vars, trace_lists, control
  <2>2. Heap!Reachable' = Heap!Reachable
    BY <2>1 DEF Heap!Reachable, Heap!Closed
  <2> QED BY <2>1, <2>2 DEF TriReachable, TriAt, Covered, Held, OwnFields, Marked, Marking
<1> QED BY <1>2, <1>3, <1>4, <1>5

\* When a trace that met marked roots turns to the candidates, everything reachable
\* is marked.
LEMMA MarkingStep ==
    ASSUME NEW T, HoldersIn(T), SafeInv, NotTorn, TriReachable(T), Next,
           tracing_state # tracing_state',
           tracing_state' = "Reclaiming_Cyclic_Candidates", RootsAreMarked(T)
    PROVE  MarkedAmong(T, Heap!Reachable)
<1>1. PhaseMove
  BY NextMove DEF SafeInv
<1>2. Turned
  BY <1>1 DEF PhaseMove, StartTracing, ReclaimingDone, Marking
<1> QED BY <1>2, TraceComplete DEF Turned

\* Marking misses only what a field read hid from it, for every heap, budget and
\* interleaving with a program that stores through owned pointers only and keeps no
\* traceable closure in an untraceable object: as long as nothing reachable was torn
\* down or left unmarked before this trace, and the releasing machine takes no torn
\* object.
THEOREM MarkingCompleteCorrect ==
    ASSUME ~BorrowedStores, TraceableHolders
    PROVE  Spec /\ []TornNotQueued /\ []LostIsUnreachable /\ []IdleMarked(Traceable)
             => MarkingComplete
<1> DEFINE Premise == /\ tracing_state # tracing_state'
                      /\ tracing_state' = "Reclaiming_Cyclic_Candidates"
                      /\ MarkedIn(Ref \cap {slot[s] : s \in Slot})
<1>1. LostIsUnreachable => NotTorn
  BY DEF LostIsUnreachable, NotTorn
<1>2. Init => TriReachable(Traceable)
  BY DEF Init, TriReachable, Marking
<1>3. SafeInv /\ SafeInv' /\ TriReachable(Traceable) /\ IdleMarked(Traceable) /\ [Next]_vars
        => TriReachable(Traceable)'
  BY TriReachableStep DEF StoresCovered
<1>4. SafeInv /\ NotTorn /\ TriReachable(Traceable) /\ [Next]_vars
        => [Premise => MarkedIn(Heap!Reachable)]_vars
  BY MarkingStep, AmongTraceable DEF RootsAreMarked, TraceableHolders
<1> QED BY <1>1, <1>2, <1>3, <1>4, SafeInvariant, PTL DEF Spec, MarkingComplete

-----------------------------------------------------------------------------
(***************************************************************************)
(* The heap, from the roots                                                *)
(***************************************************************************)

\* When a trace turns to the candidates, what the program's variables hold is marked.
RootsMarked(T) ==
    tracing_state # tracing_state' /\ tracing_state' = "Reclaiming_Cyclic_Candidates"
      => RootsAreMarked(T)

\* Once a trace has marked what it follows, that stays marked until the next one.
Settled(T) == ~Marking => MarkedAmong(T, Heap!Reachable)

MarkInv(T) == ReclaimInv /\ TriReachable(T) /\ Settled(T)

LEMMA MarkHandover ==
    ASSUME NEW T, HoldersIn(T), Traceable \subseteq T, SafeInv, MarkInv(T), [Next]_vars,
           [RootsMarked(T)]_vars
    PROVE  [Handover]_vars
<1> SUFFICES ASSUME Next, RootsMarked(T), tracing_state # tracing_state',
                    tracing_state' = "Reclaiming_Cyclic_Candidates"
             PROVE  MarkedIn(Heap!Reachable)
  BY DEF Handover
<1>1. MarkedAmong(T, Heap!Reachable)
  BY MarkingStep DEF MarkInv, ReclaimInv, RootsMarked
<1> QED BY <1>1 DEF MarkedAmong, MarkedIn

LEMMA SettledStep ==
    ASSUME NEW T, HoldersIn(T), SafeInv, MarkInv(T), [Next]_vars, [RootsMarked(T)]_vars,
           ReachableOK'
    PROVE  Settled(T)'
<1>1. CASE Next /\ RootsMarked(T) /\ ~Marking'
  <2>1. StepEffect /\ PhaseMove
    BY <1>1, NextEffect, NextMove DEF SafeInv
  <2>2. MarkedAmong(T, Heap!Reachable) /\ tracing_current_bit_mark' = tracing_current_bit_mark
    <3>1. CASE Turned /\ UNCHANGED heap_vars
      <4>1. tracing_state # tracing_state'
        BY <3>1 DEF Turned, Marking
      <4>2. RootsAreMarked(T)
        BY <1>1, <3>1, <4>1 DEF RootsMarked, Turned
      <4>3. MarkedAmong(T, Heap!Reachable)
        BY <1>1, <3>1, <4>1, <4>2, MarkingStep DEF Turned, MarkInv, ReclaimInv
      <4> QED BY <3>1, <4>3 DEF heap_vars
    <3>2. CASE UNCHANGED <<tracing_state, tracing_current_bit_mark>>
      BY <1>1, <3>2 DEF MarkInv, Settled, Marking
    <3>3. CASE ReclaimingDone
      BY <3>3 DEF ReclaimingDone, Reclaiming, MarkInv, Settled, Marking
    <3>4. ~StartTracing
      BY <1>1 DEF StartTracing, Marking
    <3> QED BY <1>1, <2>1, <3>1, <3>2, <3>3, <3>4 DEF PhaseMove
  <2>3. ASSUME NEW o \in Heap!Reachable', o \in T
        PROVE  mark'[o] = tracing_current_bit_mark
    <3>1. o \in alive'
      BY DEF ReachableOK
    <3>2. o \in alive => o \in Heap!Reachable
      BY <2>1 DEF StepEffect
    <3>3. o \in alive => mark[o] = tracing_current_bit_mark
      BY <2>2, <2>3, <3>2 DEF MarkedAmong, Marked
    <3> QED BY <2>1, <3>1, <3>3 DEF StepEffect
  <2> QED BY <2>2, <2>3 DEF Settled, MarkedAmong, Marked
<1>2. CASE Marking'
  BY <1>2 DEF Settled
<1>3. CASE UNCHANGED vars
  <2>1. UNCHANGED <<value, slot, mark, tracing_current_bit_mark, tracing_state>>
    BY <1>3 DEF vars, header_vars, state_vars
  <2>2. Heap!Reachable' = Heap!Reachable
    BY <2>1 DEF Heap!Reachable, Heap!Closed
  <2> QED BY <2>1, <2>2 DEF MarkInv, Settled, MarkedAmong, Marked, Marking
<1> QED BY <1>1, <1>2, <1>3

LEMMA MarkInvStep ==
    ASSUME NEW T, HoldersIn(T), Traceable \subseteq T, StoresCovered(T), SafeInv, SafeInv',
           MarkInv(T), [Next]_vars, [RootsMarked(T)]_vars
    PROVE  MarkInv(T)'
<1>1. [Handover]_vars
  BY MarkHandover
<1>2. ReclaimInv'
  BY <1>1, ReclaimStep DEF MarkInv
<1>3. ReachableOK'
  BY <1>2, ReachableIsOKNext DEF ReclaimInv
<1>4. IdleMarked(T)
  BY DEF MarkInv, Settled, IdleMarked, Marking
<1> QED BY <1>2, <1>3, <1>4, TriReachableStep, SettledStep DEF MarkInv

LEMMA MarkInvInit ==
    ASSUME NEW T, Init
    PROVE  MarkInv(T)
<1>1. Heap!Closed({})
  BY DEF Init, Heap!Closed
<1>2. Heap!Reachable = {}
  BY <1>1 DEF Heap!Reachable
<1> QED BY <1>2, ReclaimInit DEF Init, MarkInv, TriReachable, Settled, Marking, MarkedAmong

\* The condition of HeapRefinement on all reachable objects can be had from the
\* program's variables: if they hold marked objects whenever a trace ends, the
\* memory manager implements the abstract heap, for programs that store through
\* owned pointers only and keep no traceable closure in an untraceable object.
THEOREM HeapFromRoots ==
    ASSUME ~BorrowedStores, TraceableHolders
    PROVE  Spec /\ []TornNotQueued /\ [][RootsMarked(Traceable)]_vars => ImplementsHeap
<1>1. StoresCovered(Traceable) /\ HoldersIn(Traceable)
  BY DEF StoresCovered, TraceableHolders
<1>2. SafeInv /\ SafeInv' /\ MarkInv(Traceable) /\ [Next]_vars /\ [RootsMarked(Traceable)]_vars
        => MarkInv(Traceable)'
  BY <1>1, MarkInvStep
<1>3. SafeInv /\ MarkInv(Traceable) /\ [Next]_vars /\ [RootsMarked(Traceable)]_vars
        => [Handover]_vars
  BY <1>1, MarkHandover
<1>4. Init => MarkInv(Traceable)
  BY MarkInvInit
<1> QED BY <1>2, <1>3, <1>4, SafeInvariant, HeapRefinement, PTL DEF Spec

-----------------------------------------------------------------------------
(***************************************************************************)
(* Programs that read no field while a trace is under way                  *)
(***************************************************************************)

\* What a variable holds is live.
SlotsAreLive == \A s \in Slot : slot[s] # Null => slot[s] \in alive /\ rc[slot[s]] # 0

LEMMA SlotsLive == CountInv => SlotsAreLive
  BY HeldNotDying DEF SlotsAreLive

LEMMA SlotsLiveNext == CountInv' => SlotsAreLive'
<1>1. CountInv => SlotsAreLive
  BY SlotsLive
<1> QED BY <1>1, PTL

\* A step that gives a variable what another one held, and forgets no entry.
LEMMA RootKeep ==
    ASSUME MarkCtx, NEW s \in Slot, NEW t \in Slot, RootAt(t),
           slot'[s] # Null => slot'[s] = slot[t],
           ToSet(tracing_worklist) \subseteq ToSet(tracing_worklist)',
           pc = "roots" /\ t \in walk_todo /\ slot'[s] # Null =>
               \/ slot'[s] \in ToSet(tracing_worklist)'
               \/ pc' = "roots" /\ s \in walk_todo'
    PROVE  RootAt(s)'
<1>1. PICK c : c = slot'[s]
  OBVIOUS
<1>2. CASE c # Null
  <2>1. c = slot[t] /\ c \in alive /\ c \in alive'
    BY <1>1, <1>2, SlotsLive, SlotsLiveNext DEF SlotsAreLive, MarkCtx
  <2>2. tracing_current_bit_mark' = tracing_current_bit_mark
    BY DEF MarkCtx, PhaseEffect, Marking
  <2>3. mark[c] = tracing_current_bit_mark => mark'[c] = tracing_current_bit_mark
    BY <2>1 DEF MarkCtx, StepEffect
  <2>4. mark[c] = tracing_current_bit_mark \/ c \in ToSet(tracing_worklist)
          \/ (pc = "roots" /\ t \in walk_todo)
    BY <1>2, <2>1 DEF RootAt, Marked
  <2> QED BY <1>1, <1>2, <2>2, <2>3, <2>4 DEF RootAt, Marked
<1>3. CASE c = Null
  BY <1>1, <1>3 DEF RootAt
<1> QED BY <1>2, <1>3

\* The program's operations: a new object is marked, and without reads between
\* slices every other reference a variable gets comes from a variable.
LEMMA RootProgram ==
    ASSUME ~LoadsWhileTracing, Global = {}, MarkCtx, \A s \in Slot : RootAt(s), Mutator,
           NEW s \in Slot
    PROVE  RootAt(s)'
<1> USE DEF trace_lists, At
<1>0. TypeOK /\ Stack = Slot /\ Marking /\ tracing_current_bit_mark' = tracing_current_bit_mark
  BY DEF MarkCtx, BaseInv, TypeInv, Stack, PhaseEffect, Marking
<1>1. ASSUME NEW t \in Slot, slot'[s] # Null => slot'[s] = slot[t], pc = "mutator",
             tracing_worklist' = tracing_worklist
      PROVE  RootAt(s)'
  BY <1>1, RootKeep
<1>2. ASSUME NEW t, NEW f, NEW v, NEW ref, NEW live, NEW owned,
             Assign(t, f, v, ref, live, owned)
      PROVE  RootAt(s)'
  <2>1. /\ pc = "mutator" /\ tracing_worklist' = tracing_worklist
        /\ slot' \in {slot, [slot EXCEPT ![ref] = Null]}
    BY <1>2 DEF Assign
  <2>2. slot'[s] # Null => slot'[s] = slot[s]
    BY <1>0, <2>1 DEF TypeOK
  <2> QED BY <1>1, <2>1, <2>2
<1>3. CASE \E t \in Slot, u \in Stack : \E f \in Field : \E live, owned \in BOOLEAN :
              Store(t, f, u, live, owned)
  BY <1>2, <1>3 DEF Store
<1>4. CASE \E t \in Slot : \E f \in Field : StoreConstant(t, f)
  BY <1>2, <1>4 DEF StoreConstant
<1>5. ASSUME NEW t \in Stack, NEW o \in Object, Alloc(t, o)
      PROVE  RootAt(s)'
  <2>1. /\ pc = "mutator" /\ tracing_worklist' = tracing_worklist
        /\ slot' = [slot EXCEPT ![t] = o]
        /\ mark' = [mark EXCEPT ![o] = tracing_current_bit_mark]
    BY <1>5 DEF Alloc, BirthMark
  <2>2. CASE s = t
    <3>1. slot'[s] = o /\ mark'[o] = tracing_current_bit_mark
      BY <1>0, <2>1, <2>2 DEF TypeOK
    <3> QED BY <1>0, <3>1 DEF RootAt, Marked
  <2>3. CASE s # t
    <3>1. slot'[s] = slot[s]
      BY <1>0, <2>1, <2>3 DEF TypeOK
    <3> QED BY <1>1, <2>1, <3>1
  <2> QED BY <2>2, <2>3
<1>6. ASSUME NEW t \in Stack, Release(t)
      PROVE  RootAt(s)'
  <2>1. /\ pc = "mutator" /\ tracing_worklist' = tracing_worklist
        /\ slot' = [slot EXCEPT ![t] = Null]
    BY <1>6 DEF Release
  <2>2. slot'[s] # Null => slot'[s] = slot[s]
    BY <1>0, <2>1 DEF TypeOK
  <2> QED BY <1>1, <2>1, <2>2
<1>7. ASSUME NEW t \in Slot, NEW u \in Stack, Share(t, u)
      PROVE  RootAt(s)'
  <2>1. /\ pc = "mutator" /\ tracing_worklist' = tracing_worklist
        /\ slot' = [slot EXCEPT ![u] = slot[t]]
    BY <1>7 DEF Share
  <2>2. slot'[s] = slot[t] \/ slot'[s] = slot[s]
    BY <1>0, <2>1 DEF TypeOK
  <2> QED BY <1>1, <2>1, <2>2
<1>8. ~(\E t \in Slot, u \in Stack : \E f \in Field : Load(t, f, u))
  BY <1>0 DEF Load, Marking
<1>9. ~(\E t \in Stack, g \in Global : StoreGlobal(t, g))
  OBVIOUS
<1>10. CASE GcCycle
  <2>1. pc = "mutator" /\ tracing_worklist' = tracing_worklist /\ slot' = slot
    BY <1>10 DEF GcCycle
  <2> QED BY <1>1, <2>1
<1> QED BY <1>3, <1>4, <1>5, <1>6, <1>7, <1>8, <1>9, <1>10 DEF Mutator

\* The two machines: a root that leaves the tracing worklist has been marked.
LEMMA RootMachine ==
    ASSUME MarkCtx, NEW s \in Slot, RootAt(s), ReleasingMachine \/ TracingMachine
    PROVE  RootAt(s)'
<1> USE DEF trace_lists, control, At
<1>0. /\ TypeOK /\ WalkOK /\ FlagInv /\ CountInv
      /\ pc \notin {"scan_children", "lost_children"}
      /\ tracing_state \notin {"Tracing_Idle", "Reclaiming_Cyclic_Candidates"}
      /\ tracing_current_bit_mark' = tracing_current_bit_mark
  BY DEF MarkCtx, BaseInv, TypeInv, PhaseInv, PhaseOK, PhaseEffect, Marking
<1>1. ASSUME pc # "roots", slot' = slot,
             ToSet(tracing_worklist) \subseteq ToSet(tracing_worklist)'
      PROVE  RootAt(s)'
  BY <1>1, RootKeep
<1>2. CASE ReleasingMachine
  <2>1. CASE ReleasingReturn \/ SetReleasingWorking \/ ReleasingPop \/ ReleasingFree
    BY <1>1, <2>1 DEF ReleasingReturn, SetReleasingWorking, ReleasingPop, ReleasingFree
  <2>2. CASE \E f \in Field : ReleaseChild(f)
    BY <1>1, <2>2 DEF ReleaseChild
  <2> QED BY <1>2, <2>1, <2>2 DEF ReleasingMachine
<1>3. CASE TracingReturn \/ TracingStepped \/ MutationsDrained \/ MutationPop \/ MutationStepped
  BY <1>1, <1>3 DEF TracingReturn, TracingStepped, MutationsDrained, MutationPop, MutationStepped
<1>4. CASE RootsCollected
  <2>1. slot' = slot /\ tracing_worklist' = tracing_worklist /\ walk_todo = {}
    BY <1>4 DEF RootsCollected
  <2> QED BY <2>1, RootKeep
<1>5. ASSUME NEW t \in Stack, PushRoot(t)
      PROVE  RootAt(s)'
  <2>1. /\ pc = "roots" /\ pc' = "roots" /\ t \in walk_todo /\ walk_todo' = walk_todo \ {t}
        /\ TracingPush(slot[t]) /\ slot' = slot
    BY <1>5 DEF PushRoot, IsLeast
  <2>2. slot[t] \in Object
    BY <1>0, <2>1 DEF WalkOK, TypeOK, Ref
  <2>3. ToSet(tracing_worklist)' = ToSet(tracing_worklist) \cup {slot[t]}
    BY <1>0, <2>1, <2>2, PushGrows
  <2> QED BY <2>1, <2>3, RootKeep
<1>6. ASSUME NEW f \in Field, TraceChild(f)
      PROVE  RootAt(s)'
  <2>1. /\ NoDangling /\ pc \in {"trace_children", "mutation_children"} /\ f \in walk_todo
        /\ TracingPush(value[walk_obj][f]) /\ slot' = slot
    BY <1>6 DEF TraceChild, IsLeast
  <2>2. value[walk_obj][f] \in Object
    BY <2>1, ChildIsObject DEF WalkPCs, MarkCtx, BaseInv
  <2>3. ToSet(tracing_worklist) \subseteq ToSet(tracing_worklist)'
    BY <1>0, <2>1, <2>2, PushGrows
  <2> QED BY <1>1, <2>1, <2>3
<1>7. CASE TracingPop
  <2>1. PICK c, o : c = slot[s] /\ o = Last(tracing_worklist)
    OBVIOUS
  <2>2. /\ pc = "tracing" /\ slot' = slot /\ tracing_worklist # <<>>
        /\ tracing_worklist' = Front(tracing_worklist)
        /\ \/ o \in waiting_remove
           \/ rc[o] = 0 \/ Marked(o)
           \/ mark' = [mark EXCEPT ![o] = tracing_current_bit_mark]
    BY <1>7, <2>1 DEF TracingPop
  <2>3. o \in Object /\ ToSet(tracing_worklist) = ToSet(tracing_worklist)' \cup {o}
    <3>1. tracing_worklist \in Seq(Object)
      BY <1>0 DEF TypeOK
    <3>2. o \in Object /\ ToSet(tracing_worklist) = ToSet(Front(tracing_worklist)) \cup {o}
      BY <2>1, <2>2, <3>1, PopSet, PopObject
    <3> QED BY <2>2, <3>2
  <2>4. CASE c # Null
    <3>1. c \in alive /\ c \in alive' /\ rc[c] # 0
      BY <2>1, <2>2, <2>4, SlotsLive, SlotsLiveNext DEF SlotsAreLive, MarkCtx
    <3>2. mark[c] = tracing_current_bit_mark => mark'[c] = tracing_current_bit_mark
      BY <3>1 DEF MarkCtx, StepEffect
    <3>3. c = o => mark'[c] = tracing_current_bit_mark
      BY <1>0, <2>2, <2>3, <3>1, <3>2 DEF CountInv, Dying, Marked, TypeOK
    <3>4. mark[c] = tracing_current_bit_mark \/ c \in ToSet(tracing_worklist)
      BY <2>1, <2>2, <2>4 DEF RootAt, Marked
    <3> QED BY <1>0, <2>1, <2>2, <2>3, <3>2, <3>3, <3>4 DEF RootAt, Marked
  <2>5. CASE c = Null
    BY <2>1, <2>2, <2>5 DEF RootAt
  <2> QED BY <2>4, <2>5
<1>8. ~(StartTracing \/ LostCyclePop \/ LostCycleFree \/ ReclaimingDone \/ ScanSkip
          \/ ScanUnmarked \/ ScanEnqueue)
  BY <1>0 DEF StartTracing, LostCyclePop, LostCycleFree, ReclaimingDone, ScanSkip,
              ScanUnmarked, ScanEnqueue, Reclaiming
<1>9. ~(\E g \in Field : LostCycleChildDecr(g))
  BY <1>0 DEF LostCycleChildDecr
<1> QED BY <1>2, <1>3, <1>4, <1>5, <1>6, <1>7, <1>8, <1>9 DEF TracingMachine

LEMMA RootInvStep ==
    ASSUME ~LoadsWhileTracing, Global = {}, BaseInv, CountInv, BaseInv', CountInv',
           RootInv, [Next]_vars
    PROVE  RootInv'
<1>1. CASE Next /\ Marking /\ Marking'
  <2>1. MarkCtx
    BY <1>1, NextEffect, NextPhase DEF MarkCtx
  <2> QED BY <1>1, <2>1, RootProgram, RootMachine DEF RootInv, Next
<1>2. CASE Next /\ ~Marking /\ Marking'
  <2>1. PhaseMove
    BY <1>2, NextMove
  <2>2. StartTracing
    BY <1>2, <2>1 DEF PhaseMove, ReclaimingDone, Marking
  <2> QED BY <2>2 DEF StartTracing, StackRoots, Stack, RootInv, RootAt
<1>3. CASE ~Marking'
  BY <1>3 DEF RootInv
<1>4. CASE UNCHANGED vars
  BY <1>4 DEF vars, header_vars, state_vars, trace_lists, control, RootInv, RootAt, Marked, Marking
<1> QED BY <1>1, <1>2, <1>3, <1>4

\* Such a program has marked roots whenever a trace ends.
LEMMA RootsMarkedStep ==
    ASSUME BaseInv, RootInv, [Next]_vars
    PROVE  [RootsMarked(Object)]_vars
<1>1. ASSUME Next, tracing_state # tracing_state',
             tracing_state' = "Reclaiming_Cyclic_Candidates"
      PROVE  RootsAreMarked(Object)
  <2>1. PhaseMove
    BY <1>1, NextMove
  <2>2. Turned
    BY <1>1, <2>1 DEF PhaseMove, StartTracing, ReclaimingDone, Marking
  <2>3. Null \notin Object /\ ToSet(tracing_worklist) = {}
    BY <2>2, HeapAssumption DEF Turned, ToSet
  <2> QED BY <2>2, <2>3 DEF Turned, RootInv, RootAt, RootsAreMarked, MarkedAmong
<1> QED BY <1>1 DEF RootsMarked

\* For a program that keeps no reference in a global and reads no field while a trace
\* is under way, tracing is safe: every trace marks all that is reachable, however its
\* slices interleave with the program's stores, copies, releases and allocations.  What
\* such a program stores is a root the tracer has, so neither the stores through
\* borrowed pointers nor the closures in untraceable objects, which the barrier does
\* not see, are lost.
THEOREM QuietProgramsSafe ==
    ASSUME ~LoadsWhileTracing, Global = {}
    PROVE  Spec /\ []TornNotQueued
             => ImplementsHeap /\ []LostIsUnreachable /\ EverythingMarked
<1> DEFINE A == tracing_state # tracing_state' /\ tracing_state' = "Reclaiming_Cyclic_Candidates"
                  => \A o \in Heap!Reachable : Marked(o)
<1>1. Init => RootInv
  BY DEF Init, RootInv, Marking
<1>2. BaseInv /\ CountInv /\ BaseInv' /\ CountInv' /\ RootInv /\ [Next]_vars => RootInv'
  BY RootInvStep
<1>3. BaseInv /\ RootInv /\ [Next]_vars => [RootsMarked(Object)]_vars
  BY RootsMarkedStep
<1>4. HoldersIn(Object) /\ Traceable \subseteq Object /\ (RootInv => StoresCovered(Object))
  BY AllHolders, HeaderAssumption DEF StoresCovered
<1>5. RootInv /\ SafeInv /\ SafeInv' /\ MarkInv(Object) /\ [Next]_vars /\ [RootsMarked(Object)]_vars
        => MarkInv(Object)'
  BY <1>4, MarkInvStep
<1>6. SafeInv /\ MarkInv(Object) /\ [Next]_vars /\ [RootsMarked(Object)]_vars => [Handover]_vars
  BY <1>4, MarkHandover
<1>7. Init => MarkInv(Object)
  BY MarkInvInit
<1>8. SafeInv /\ MarkInv(Object) /\ [Next]_vars /\ [RootsMarked(Object)]_vars => [A]_vars
  <2>1. ASSUME NEW o \in Heap!Reachable
        PROVE  o \in Object
    BY DEF Heap!Reachable
  <2> QED BY <1>4, <2>1, MarkingStep DEF MarkInv, ReclaimInv, RootsMarked, MarkedAmong
<1> QED BY <1>1, <1>2, <1>3, <1>5, <1>6, <1>7, <1>8, BaseInvariant, CountInvariant,
           SafeInvariant, HeapRefinement, OnlyGarbageIsLost, PTL DEF Spec, EverythingMarked

=============================================================================
