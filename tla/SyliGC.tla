------------------------------- MODULE SyliGC -------------------------------
(***************************************************************************)
(* The memory manager of the Syli runtime (runtime/src/syli.c,             *)
(* syli_state_gc_releasing.c, syli_state_gc_tracing.c and                  *)
(* include/syli/gc_helpers.h), driven by the code the compiler emits       *)
(* (pass 1 of doc/ownership.md).                                           *)
(*                                                                         *)
(* An object is reference counted.  An object with fields whose count      *)
(* reaches 0 is queued and released incrementally; a cycle of objects that *)
(* lost its last outside reference is found by tracing from the stack and  *)
(* by scanning the registry of cyclic candidates.  The program runs on one *)
(* thread and calls syli_rt_gc_cycle between its own operations, so the    *)
(* interleavings are those of the mutator's operations with the budgeted   *)
(* slices of the two collectors.                                           *)
(*                                                                         *)
(* Each mutator operation is one atomic action.  A slice of a collector is *)
(* a sequence of actions: one per turn of its loop, and one per owned      *)
(* reference of the object whose children the turn visits.  `pc' says      *)
(* which loop has control, so no mutator action is taken inside a slice.   *)
(*                                                                         *)
(* An access to a freed object is undefined behaviour and nothing is said  *)
(* of the program after it: a state in which a live pointer leads to freed *)
(* memory (~NoDangling) has no successor.                                  *)
(***************************************************************************)
EXTENDS Integers, SequencesExt, FiniteSets

CONSTANTS
    Object,        \* the heap cells; a cell is reused for objects of its type
    Null,          \* a field or slot with no owned reference: 0, an immediate
                   \* constructor (tag 11) or an AlwaysBorrow (tag 10)
    Slot,          \* where the program keeps owned references
    Global,        \* the slots that are LLVM globals; the others are on the stack
    Field,         \* field positions, 1 .. n
    Layout,        \* Layout[o]: the ObjectType of the header of o
    Refs,          \* Refs[o]: the fields of o that hold references
    Length,        \* Length[o]: syli_object_length(o)
    Traceable,     \* the headers' traceable, cyclic and cyclic_mutable flags
    Cyclic,
    CyclicMutable,
    Mutable,       \* objects whose fields the program assigns after construction
    MayPoint,      \* MayPoint[o]: what the type of o lets its fields refer to
    BUDGET_GC_TRACING,
    BUDGET_GC_RELEASING,
    THRESHOLD_RELEASING_BUCKET,
    THRESHOLD_MEM_CYCLIC_OBJ,   \* in objects: every object has unit size
    RatioNum, RatioDen,         \* THRESHOLD_CANDIDATES_RATIO
    LoadsWhileTracing,  \* does the program read fields between two slices of a trace?
    BorrowedStores      \* does it assign through a borrowed parameter?

ASSUME HeapAssumption ==
    /\ Null \notin Object
    /\ Global \subseteq Slot
    /\ Field \subseteq Nat
    /\ Slot \subseteq Nat
    /\ IsFiniteSet(Object) /\ IsFiniteSet(Field) /\ IsFiniteSet(Slot)

\* What lower_oir_to_rir.ml lets a header say: fields without references give
\* MonoImm, a cyclic object is traceable, and a candidate is cyclic, mutable and
\* holds references.  A cyclic object may be MonoImm, which a closure without
\* captures is; and an untraceable object may hold a traceable one, because a field
\* of function type gives pass_cyclic_analysis.ml no edge to the closures it holds.
ASSUME HeaderAssumption ==
    /\ Layout \in [Object -> {"MonoImm", "MonoRef", "MixedBitmap", "MixedOrder"}]
    /\ Refs \in [Object -> SUBSET Field]
    /\ Length \in [Object -> Nat]
    /\ MayPoint \in [Object -> SUBSET Object]
    /\ \A o \in Object : Layout[o] = "MonoImm" => Refs[o] = {}
    /\ CyclicMutable \subseteq Cyclic
    /\ Cyclic \subseteq Traceable
    /\ Traceable \subseteq Object
    /\ CyclicMutable \subseteq Mutable
    /\ \A o \in CyclicMutable : Layout[o] # "MonoImm"

ASSUME BudgetAssumption ==
    /\ BUDGET_GC_TRACING \in Nat \ {0}
    /\ BUDGET_GC_RELEASING \in Nat \ {0}
    /\ THRESHOLD_RELEASING_BUCKET \in Nat
    /\ THRESHOLD_MEM_CYCLIC_OBJ \in Nat
    /\ RatioNum \in Nat
    /\ RatioDen \in Nat \ {0}
    /\ LoadsWhileTracing \in BOOLEAN
    /\ BorrowedStores \in BOOLEAN

VARIABLES
    alive,      \* the cells that are allocated
    rc,         \* the reference count of meta_ref_count
    mark,       \* its marking bit
    value,      \* value[o][f]: the owned reference in field f of o, or Null
    slot,       \* slot[s]: the owned reference in slot s, or Null
    candidate_flag, tracing_flag, waiting_remove, children_released,
                \* the objects with each of the Meta_Flags
    candidate_index,  \* the index word of a cyclic_mutable object
    cyclic_candidates, tracing_worklist, tracing_mutations_worklist,
    releasing_worklist, releasing_waitlist, lost_cycle_worklist,
    tracing_state, releasing_state,
    tracing_current_bit_mark,
    current_candidate_check_index,
    tracing_budget, releasing_budget,
    cyclic_obj,     \* cyclic_obj_alloc - cyclic_obj_dealloc
    alloc_since_trace, \* cyclic_obj_alloc > cyclic_obj_alloc_at_trace
    pc,         \* which loop has control
    walk_obj,   \* the object whose fields the loop visits
    walk_todo   \* the fields, or root slots, still to visit

header_vars  == <<alive, rc, mark, value>>
flag_vars    == <<candidate_flag, tracing_flag, waiting_remove, children_released>>
registry     == <<cyclic_candidates, candidate_index>>
trace_lists  == <<tracing_worklist, tracing_mutations_worklist>>
release_lists == <<releasing_worklist, releasing_waitlist>>
state_vars   == <<tracing_state, releasing_state, tracing_current_bit_mark,
                  current_candidate_check_index>>
budgets      == <<tracing_budget, releasing_budget>>
account      == <<cyclic_obj, alloc_since_trace>>
control      == <<pc, walk_obj, walk_todo>>

vars == <<header_vars, slot, flag_vars, registry, trace_lists, release_lists,
          lost_cycle_worklist, state_vars, budgets, account, control>>

Ref == Object \cup {Null}

TracingStates   == {"Tracing_Idle", "Tracing", "Mutation_Prepare",
                    "Reclaiming_Cyclic_Candidates"}
ReleasingStates == {"Releasing_Idle", "Releasing"}

\* The loops: the program, the two state machines, and the loops over the
\* children of an object (or over the stack) inside one turn of a machine.
WalkPCs    == {"release_children", "roots", "trace_children", "mutation_children",
               "scan_children", "lost_children"}
ProgramPCs == {"mutator", "releasing", "tracing"} \cup WalkPCs

-----------------------------------------------------------------------------
(***************************************************************************)
(* Helpers (gc_helpers.h, object.h, header_object.h)                       *)
(***************************************************************************)

\* gc_is_object_mark_tagged
Marked(o) == mark[o] = tracing_current_bit_mark

\* The fields the loops over the children of o do not skip.
OwnFields(o) == {f \in Refs[o] : value[o][f] # Null}

\* What one visit of o takes from a budget: bitmap layouts count every field,
\* ordered ones only their pointers.
VisitCost(o) ==
    CASE Layout[o] \in {"MonoRef", "MixedBitmap"} -> Length[o]
      [] Layout[o] = "MixedOrder" -> Cardinality(Refs[o])
      [] OTHER -> 0

\* gc_one_step_prepare_tracing_mutations takes nothing for a bitmap layout.
MutationCost(o) == IF Layout[o] = "MixedBitmap" THEN 0 ELSE VisitCost(o)

IsLeast(f, S) == f \in S /\ \A g \in S : f <= g

NoFields == [f \in Field |-> Null]

\* Mutants of TracingPush: the flag is not tested; only candidates are traced.
TracingPushAlways(o) ==
    /\ tracing_flag' = tracing_flag \cup {o}
    /\ tracing_worklist' = Append(tracing_worklist, o)
TracingPushCandidates(o) ==
    IF o \in tracing_flag \/ o \notin CyclicMutable
    THEN UNCHANGED <<tracing_flag, tracing_worklist>>
    ELSE TracingPushAlways(o)

\* gc_tracing_worklist_push: the tracing flag keeps an object from being
\* queued twice.
TracingPush(o) ==
    IF o \in tracing_flag
    THEN UNCHANGED <<tracing_flag, tracing_worklist>>
    ELSE /\ tracing_flag' = tracing_flag \cup {o}
         /\ tracing_worklist' = Append(tracing_worklist, o)

\* Mutants of RemoveCandidateAt: the moved object keeps its old index; the
\* entry is not removed.
RemoveCandidateAtStale(i) ==
    /\ cyclic_candidates' =
           Front([cyclic_candidates EXCEPT ![i] = Last(cyclic_candidates)])
    /\ UNCHANGED candidate_index
RemoveCandidateAtNot(i) == i \in Nat /\ UNCHANGED registry

\* gc_remove_candidate_at: the last entry takes the place of the removed one,
\* and its object is told its new index.
RemoveCandidateAt(i) ==
    LET last == Len(cyclic_candidates)
    IN  /\ cyclic_candidates' =
               Front(IF i # last
                     THEN [cyclic_candidates EXCEPT ![i] = Last(cyclic_candidates)]
                     ELSE cyclic_candidates)
        /\ candidate_index' =
               IF i # last
               THEN [candidate_index EXCEPT ![Last(cyclic_candidates)] = i]
               ELSE candidate_index

\* Mutant of CyclicObjAfterFree: the free is not accounted.
CyclicObjUnaccounted(o) == cyclic_obj

\* gc_account_cyclic_free
CyclicObjAfterFree(o) == IF o \in Cyclic THEN cyclic_obj - 1 ELSE cyclic_obj

\* free(): the cell can be allocated again.  What it held no longer matters
\* and is reset here, so that states that differ only in it are not told apart.
FreeCell(o) ==
    /\ alive' = alive \ {o}
    /\ value' = [value EXCEPT ![o] = NoFields]
    /\ mark' = [mark EXCEPT ![o] = 0]
    /\ children_released' = children_released \ {o}
    /\ waiting_remove' = waiting_remove \ {o}

\* Mutants of DeferFree: the mark is taken for the tracing flag; a candidate
\* is freed even so.
DeferFreeMarked(o) == Marked(o)
DeferFreeUntracked(o) == o \in tracing_flag \ CyclicMutable

\* The tracer still has o in its worklist and will free it.
DeferFree(o) == o \in tracing_flag

\* free_released_object: leave the registry; while the tracer still has the
\* object queued, only ask the tracer to free it.
FreeReleasedObject(o) ==
    /\ IF o \in candidate_flag
       THEN RemoveCandidateAt(candidate_index[o])
       ELSE UNCHANGED registry
    /\ candidate_flag' = candidate_flag \ {o}
    /\ IF DeferFree(o)
       THEN /\ waiting_remove' = waiting_remove \cup {o}
            /\ UNCHANGED <<alive, value, mark, children_released, cyclic_obj>>
       ELSE /\ FreeCell(o)
            /\ cyclic_obj' = CyclicObjAfterFree(o)

\* The variables FreeReleasedObject assigns.
free_vars == <<alive, value, mark, children_released, waiting_remove,
               candidate_flag, registry, cyclic_obj>>

(***************************************************************************)
(* The references that exist.  When the children of an object are released *)
(* its fields are not cleared: they are given up one by one, walk_todo     *)
(* being those still held.                                                 *)
(***************************************************************************)
HeldFields(o) ==
    IF pc \in {"release_children", "scan_children", "lost_children"} /\ o = walk_obj
    THEN walk_todo
    ELSE IF o \in children_released \cup waiting_remove THEN {}
    ELSE OwnFields(o)

Queued == ToSet(tracing_worklist) \cup ToSet(tracing_mutations_worklist)
            \cup ToSet(releasing_worklist) \cup ToSet(releasing_waitlist)
            \cup ToSet(lost_cycle_worklist) \cup ToSet(cyclic_candidates)

\* No pointer that may still be followed leads to freed memory, nor a variable
\* of the program to an object that was torn down: this is what the reference
\* counts, the tracing flag with Waiting_Remove and the registry are there to
\* guarantee.
NoDangling ==
    /\ \A s \in Slot : slot[s] # Null =>
           slot[s] \in alive \ (children_released \cup waiting_remove)
    /\ \A o \in alive : \A f \in HeldFields(o) : value[o][f] \in alive
    /\ Queued \subseteq alive
    /\ walk_obj # Null =>
           walk_obj \in alive /\ \A f \in walk_todo : value[walk_obj][f] \in alive

\* Loop l has control, and so far the program's behaviour is defined.
At(l) == pc = l /\ NoDangling

-----------------------------------------------------------------------------
(***************************************************************************)
(* The initial state (syli_state_init)                                     *)
(***************************************************************************)
Init ==
    /\ alive = {}
    /\ rc = [o \in Object |-> 0]
    /\ mark = [o \in Object |-> 0]
    /\ value = [o \in Object |-> NoFields]
    /\ slot = [s \in Slot |-> Null]
    /\ candidate_flag = {} /\ tracing_flag = {}
    /\ waiting_remove = {} /\ children_released = {}
    /\ candidate_index = [o \in Object |-> 0]
    /\ cyclic_candidates = <<>>
    /\ tracing_worklist = <<>> /\ tracing_mutations_worklist = <<>>
    /\ releasing_worklist = <<>> /\ releasing_waitlist = <<>>
    /\ lost_cycle_worklist = <<>>
    /\ tracing_state = "Tracing_Idle" /\ releasing_state = "Releasing_Idle"
    /\ tracing_current_bit_mark = 0
    /\ current_candidate_check_index = 0
    /\ tracing_budget = 0 /\ releasing_budget = 0
    /\ cyclic_obj = 0
    /\ alloc_since_trace = FALSE
    /\ pc = "mutator"
    /\ walk_obj = Null
    /\ walk_todo = {}

-----------------------------------------------------------------------------
(***************************************************************************)
(* The program                                                             *)
(***************************************************************************)
Stack == Slot \ Global

\* Mutant of BirthMark: objects are born with a clear bit.
BirthMarkClear == 0

\* The mark of a new object is that of the current generation.
BirthMark == tracing_current_bit_mark

\* syli_rt_ownership_alloc_object with refcount 1 into an empty variable.  The
\* object is born with the current mark; a cyclic_mutable one registers itself.
Alloc(s, o) ==
    /\ At("mutator")
    /\ slot[s] = Null
    /\ o \notin alive
    /\ alive' = alive \cup {o}
    /\ rc' = [rc EXCEPT ![o] = 1]
    /\ mark' = [mark EXCEPT ![o] = BirthMark]
    /\ value' = [value EXCEPT ![o] = NoFields]
    /\ slot' = [slot EXCEPT ![s] = o]
    /\ IF o \in Cyclic
       THEN cyclic_obj' = cyclic_obj + 1 /\ alloc_since_trace' = TRUE
       ELSE UNCHANGED account
    /\ IF o \in CyclicMutable
       THEN /\ cyclic_candidates' = Append(cyclic_candidates, o)
            /\ candidate_index' = [candidate_index EXCEPT ![o] = Len(cyclic_candidates) + 1]
            /\ candidate_flag' = candidate_flag \cup {o}
       ELSE UNCHANGED <<registry, candidate_flag>>
    /\ UNCHANGED <<tracing_flag, waiting_remove, children_released, trace_lists,
                   release_lists, lost_cycle_worklist, state_vars, budgets, control>>

\* Mutant of ReachesZero: the count is tested before it is decremented.
ReachesZeroEarly(o) == o # Null /\ rc[o] = 2

\* syli_rt_object_decr: what dropping one reference to o does besides the
\* count.  A MonoImm object is freed at once, any other is queued for release.
ReachesZero(o) == o # Null /\ rc[o] = 1

AliveAfterDecr(o) ==
    IF ReachesZero(o) /\ Layout[o] = "MonoImm" THEN alive \ {o} ELSE alive

\* gc_releasing_worklist_push
WaitlistAfterDecr(o) ==
    IF ReachesZero(o) /\ Layout[o] # "MonoImm"
    THEN Append(releasing_waitlist, o) ELSE releasing_waitlist

MarkAfterDecr(o) ==
    IF ReachesZero(o) /\ o \in CyclicMutable
    THEN [mark EXCEPT ![o] = tracing_current_bit_mark] ELSE mark

\* OR_Release of a variable at its last use.
Release(s) ==
    /\ At("mutator")
    /\ slot[s] # Null
    /\ slot' = [slot EXCEPT ![s] = Null]
    /\ rc' = [rc EXCEPT ![slot[s]] = @ - 1]
    /\ alive' = AliveAfterDecr(slot[s])
    /\ mark' = MarkAfterDecr(slot[s])
    /\ releasing_waitlist' = WaitlistAfterDecr(slot[s])
    /\ UNCHANGED <<value, flag_vars, registry, trace_lists, releasing_worklist,
                   lost_cycle_worklist, state_vars, budgets, account, control>>

\* t = share(x)
Share(s, t) ==
    /\ At("mutator")
    /\ slot[s] # Null /\ slot[t] = Null
    /\ slot' = [slot EXCEPT ![t] = slot[s]]
    /\ rc' = [rc EXCEPT ![slot[s]] = @ + 1]
    /\ UNCHANGED <<alive, mark, value, flag_vars, registry, trace_lists, release_lists,
                   lost_cycle_worklist, state_vars, budgets, account, control>>

\* t = share(raw_get(x, f)): there is no read barrier.
Load(s, f, t) ==
    /\ At("mutator")
    /\ LoadsWhileTracing \/ tracing_state \notin {"Tracing", "Mutation_Prepare"}
    /\ slot[s] # Null /\ slot[t] = Null
    /\ f \in OwnFields(slot[s])
    /\ slot' = [slot EXCEPT ![t] = value[slot[s]][f]]
    /\ rc' = [rc EXCEPT ![value[slot[s]][f]] = @ + 1]
    /\ UNCHANGED <<alive, mark, value, flag_vars, registry, trace_lists, release_lists,
                   lost_cycle_worklist, state_vars, budgets, account, control>>

\* Mutant of Barrier: stores between the slices of Mutation_Prepare are missed.
BarrierTracingOnly(x, v, m) ==
    /\ tracing_state = "Tracing"
    /\ {x, v} \subseteq Traceable
    /\ m[x] = tracing_current_bit_mark
    /\ m[v] # tracing_current_bit_mark

\* syli_rt_ownership_notify_mutation(x, v), emitted after the store when both
\* types are trackable.  m is the marking when it runs.
Barrier(x, v, m) ==
    /\ tracing_state \in {"Tracing", "Mutation_Prepare"}
    /\ {x, v} \subseteq Traceable
    /\ m[x] = tracing_current_bit_mark
    /\ m[v] # tracing_current_bit_mark

\* The counts after release(old) and own(v) or share(v).
CountAfterSet(old, v, live) ==
    [o \in Object |-> rc[o] - (IF o = old THEN 1 ELSE 0)
                             + (IF o = v /\ live THEN 1 ELSE 0)]

\* set(x, f, v): release the old value of the field, own (v dies here) or share
\* (v lives on) the new one, store it, notify.  A constant constructor is
\* stored as Null.  The barrier does nothing when x itself is borrowed.
\* An object that is not mutable is assigned only by its constructor.
Assign(s, f, v, ref, live, owned) ==
    LET x    == slot[s]
        old  == value[x][f]
        m    == MarkAfterDecr(old)
        push == owned /\ v # Null /\ Barrier(x, v, m)
    IN  /\ At("mutator")
        /\ x # Null /\ f \in Refs[x]
        /\ x \in Mutable \/ (rc[x] = 1 /\ old = Null /\ v # x)
        /\ v # Null => v \in MayPoint[x]
        /\ owned \/ BorrowedStores
        /\ rc' = CountAfterSet(old, v, live)
        /\ alive' = AliveAfterDecr(old)
        /\ releasing_waitlist' = WaitlistAfterDecr(old)
        /\ value' = [value EXCEPT ![x][f] = v]
        /\ slot' = IF v # Null /\ ~live THEN [slot EXCEPT ![ref] = Null] ELSE slot
        /\ mark' = IF push THEN [m EXCEPT ![v] = tracing_current_bit_mark] ELSE m
        /\ tracing_mutations_worklist' =
               IF push THEN Append(tracing_mutations_worklist, v)
               ELSE tracing_mutations_worklist
        /\ UNCHANGED <<flag_vars, registry, tracing_worklist, releasing_worklist,
                       lost_cycle_worklist, state_vars, budgets, account, control>>

Store(s, f, t, live, owned) ==
    /\ slot[t] # Null
    /\ s = t /\ ~owned => live   \* own() of a borrow counts like share()
    /\ Assign(s, f, slot[t], t, live, owned)

StoreConstant(s, f) == Assign(s, f, Null, s, TRUE, TRUE)

\* OR_Store_global: the initialiser of a global hands its value over.  The notify
\* emitted after it loads the global, so that the value stored is both its object
\* and its target: it returns, whether that object is marked or not.
StoreGlobal(s, g) ==
    /\ At("mutator")
    /\ slot[s] # Null /\ slot[g] = Null
    /\ slot' = [slot EXCEPT ![s] = Null, ![g] = slot[s]]
    /\ UNCHANGED <<header_vars, flag_vars, registry, trace_lists, release_lists,
                   lost_cycle_worklist, state_vars, budgets, account, control>>

\* syli_rt_gc_cycle: give both collectors their budget and run them in turn.
GcCycle ==
    /\ At("mutator")
    /\ tracing_budget' = BUDGET_GC_TRACING
    /\ releasing_budget' = BUDGET_GC_RELEASING
    /\ pc' = "releasing"
    /\ UNCHANGED <<header_vars, slot, flag_vars, registry, trace_lists, release_lists,
                   lost_cycle_worklist, state_vars, account, walk_obj, walk_todo>>

Mutator ==
    \/ \E s \in Stack : \E o \in Object : Alloc(s, o)
    \/ \E s \in Stack : Release(s)
    \/ \E s \in Slot, t \in Stack : Share(s, t)
    \/ \E s \in Slot, t \in Stack : \E f \in Field : Load(s, f, t)
    \/ \E s \in Slot, t \in Stack : \E f \in Field : \E live, owned \in BOOLEAN :
          Store(s, f, t, live, owned)
    \/ \E s \in Slot : \E f \in Field : StoreConstant(s, f)
    \/ \E s \in Stack, g \in Global : StoreGlobal(s, g)
    \/ GcCycle

-----------------------------------------------------------------------------
(***************************************************************************)
(* The releasing machine (syli_state_gc_releasing)                         *)
(***************************************************************************)

\* Mutant of BucketReady: a single object is never enough.
BucketReadyLate == Len(releasing_waitlist) > 1

\* Whether an idle machine takes the waitlist.
BucketReady == /\ Len(releasing_waitlist) >= THRESHOLD_RELEASING_BUCKET
               /\ Len(releasing_waitlist) # 0

\* Out of budget, or idle with too short a waitlist: on to the tracer.
ReleasingReturn ==
    /\ At("releasing")
    /\ \/ releasing_budget <= 0
       \/ releasing_state = "Releasing_Idle" /\ ~BucketReady
    /\ pc' = "tracing"
    /\ UNCHANGED <<header_vars, slot, flag_vars, registry, trace_lists, release_lists,
                   lost_cycle_worklist, state_vars, budgets, account, walk_obj, walk_todo>>

\* set_releasing_working
SetReleasingWorking ==
    /\ At("releasing")
    /\ releasing_budget > 0
    /\ releasing_state = "Releasing_Idle"
    /\ BucketReady
    /\ releasing_worklist' = releasing_waitlist
    /\ releasing_waitlist' = <<>>
    /\ releasing_state' = "Releasing"
    /\ UNCHANGED <<header_vars, slot, flag_vars, registry, trace_lists,
                   lost_cycle_worklist, tracing_state, tracing_current_bit_mark,
                   current_candidate_check_index, budgets, account, control>>

\* gc_one_step_releasing, up to its loop over the children.
ReleasingPop ==
    /\ At("releasing")
    /\ releasing_budget > 0
    /\ releasing_state = "Releasing"
    /\ releasing_worklist # <<>>
    /\ LET o == Last(releasing_worklist)
       IN  /\ releasing_budget' = releasing_budget - 1 - VisitCost(o)
           /\ walk_obj' = o
           /\ walk_todo' = OwnFields(o)
    /\ releasing_worklist' = Front(releasing_worklist)
    /\ pc' = "release_children"
    /\ UNCHANGED <<header_vars, slot, flag_vars, registry, trace_lists, releasing_waitlist,
                   lost_cycle_worklist, state_vars, tracing_budget, account>>

\* child_release_object
ReleaseChild(f) ==
    LET c == value[walk_obj][f]
    IN  /\ At("release_children")
        /\ IsLeast(f, walk_todo)
        /\ walk_todo' = walk_todo \ {f}
        /\ rc' = [rc EXCEPT ![c] = @ - 1]
        /\ \/ /\ rc[c] # 1
              /\ UNCHANGED <<free_vars, releasing_waitlist>>
           \/ /\ rc[c] = 1 /\ Layout[c] = "MonoImm"
              /\ FreeReleasedObject(c)
              /\ UNCHANGED releasing_waitlist
           \/ /\ rc[c] = 1 /\ Layout[c] # "MonoImm"
              /\ releasing_waitlist' = WaitlistAfterDecr(c)
              /\ mark' = MarkAfterDecr(c)
              /\ UNCHANGED <<alive, value, children_released, waiting_remove,
                             candidate_flag, registry, cyclic_obj>>
        /\ UNCHANGED <<slot, tracing_flag, trace_lists, releasing_worklist,
                       lost_cycle_worklist, state_vars, budgets, alloc_since_trace,
                       pc, walk_obj>>

\* The end of gc_one_step_releasing: free the object, go idle when it was the last.
ReleasingFree ==
    /\ At("release_children")
    /\ walk_todo = {}
    /\ FreeReleasedObject(walk_obj)
    /\ releasing_state' = IF releasing_worklist = <<>> THEN "Releasing_Idle" ELSE "Releasing"
    /\ pc' = "releasing"
    /\ walk_obj' = Null
    /\ UNCHANGED <<rc, slot, tracing_flag, trace_lists, release_lists, lost_cycle_worklist,
                   tracing_state, tracing_current_bit_mark, current_candidate_check_index,
                   budgets, alloc_since_trace, walk_todo>>

ReleasingMachine ==
    \/ ReleasingReturn
    \/ SetReleasingWorking
    \/ ReleasingPop
    \/ \E f \in Field : ReleaseChild(f)
    \/ ReleasingFree

-----------------------------------------------------------------------------
(***************************************************************************)
(* The tracing machine (syli_state_gc_tracing)                             *)
(***************************************************************************)

\* The condition under which an idle tracer starts a trace.
TraceTrigger ==
    /\ cyclic_obj > THRESHOLD_MEM_CYCLIC_OBJ
    /\ cyclic_obj > 0
    /\ RatioDen * Len(cyclic_candidates) > RatioNum * cyclic_obj
    /\ alloc_since_trace

\* Out of budget, or nothing to start: back to the program.
TracingReturn ==
    /\ At("tracing")
    /\ \/ tracing_budget <= 0
       \/ tracing_state = "Tracing_Idle" /\ ~TraceTrigger
    /\ pc' = "mutator"
    /\ UNCHANGED <<header_vars, slot, flag_vars, registry, trace_lists, release_lists,
                   lost_cycle_worklist, state_vars, budgets, account, walk_obj, walk_todo>>

\* Mutants of NextMark: the bit is counted up; it is not toggled.
NextMarkCounted == tracing_current_bit_mark + 1
NextMarkSame    == tracing_current_bit_mark

\* gc_next_marking_generation
NextMark == 1 - tracing_current_bit_mark

\* Mutant of StackRoots: the first location of a frame is skipped.
StackRootsButFirst == {s \in Stack : slot[s] # Null /\ s # 1}

\* The stack locations that hold an owned reference.
StackRoots == {s \in Stack : slot[s] # Null}

\* case Tracing_Idle, up to syli_rt_collect_stack_roots.
StartTracing ==
    /\ At("tracing")
    /\ tracing_budget > 0
    /\ tracing_state = "Tracing_Idle"
    /\ TraceTrigger
    /\ tracing_state' = "Tracing"
    /\ alloc_since_trace' = FALSE
    /\ current_candidate_check_index' = Len(cyclic_candidates)
    /\ tracing_current_bit_mark' = NextMark
    /\ pc' = "roots"
    /\ walk_todo' = StackRoots
    /\ UNCHANGED <<header_vars, slot, flag_vars, registry, trace_lists, release_lists,
                   lost_cycle_worklist, releasing_state, budgets, cyclic_obj, walk_obj>>

\* One stack location of syli_rt_collect_stack_roots.
PushRoot(s) ==
    /\ At("roots")
    /\ IsLeast(s, walk_todo)
    /\ walk_todo' = walk_todo \ {s}
    /\ TracingPush(slot[s])
    /\ UNCHANGED <<header_vars, slot, candidate_flag, waiting_remove, children_released,
                   registry, tracing_mutations_worklist, release_lists,
                   lost_cycle_worklist, state_vars, budgets, account, pc, walk_obj>>

\* Mutant of TraceListsEmpty: the mutations are forgotten.
TraceWorklistEmpty == tracing_worklist = <<>>

TraceListsEmpty == tracing_worklist = <<>> /\ tracing_mutations_worklist = <<>>

\* Mutant of RootsCollected: a trace without roots is not ended.
RootsCollectedUnchecked ==
    /\ At("roots")
    /\ walk_todo = {}
    /\ pc' = "tracing"
    /\ UNCHANGED <<header_vars, slot, flag_vars, registry, trace_lists, release_lists,
                   lost_cycle_worklist, state_vars, budgets, account, walk_obj, walk_todo>>

\* case Tracing_Idle, after the roots are collected.
RootsCollected ==
    /\ At("roots")
    /\ walk_todo = {}
    /\ tracing_state' = IF TraceListsEmpty
                        THEN "Reclaiming_Cyclic_Candidates" ELSE tracing_state
    /\ pc' = "tracing"
    /\ UNCHANGED <<header_vars, slot, flag_vars, registry, trace_lists, release_lists,
                   lost_cycle_worklist, releasing_state, tracing_current_bit_mark,
                   current_candidate_check_index, budgets, account, walk_obj, walk_todo>>

\* gc_one_step_tracing, up to its loop over the children: the first three
\* branches return early, with no child to visit.
TracingPop ==
    LET o == Last(tracing_worklist)
    IN  /\ At("tracing")
        /\ tracing_budget > 0
        /\ tracing_state = "Tracing"
        /\ tracing_worklist # <<>>
        /\ tracing_worklist' = Front(tracing_worklist)
        /\ tracing_flag' = tracing_flag \ {o}
        /\ \/ /\ o \in waiting_remove
              /\ FreeCell(o)
              /\ cyclic_obj' = CyclicObjAfterFree(o)
              /\ walk_obj' = Null
              /\ UNCHANGED <<tracing_budget, walk_todo>>
           \/ /\ o \notin waiting_remove
              /\ rc[o] = 0 \/ Marked(o)
              /\ UNCHANGED <<alive, value, mark, children_released, waiting_remove,
                             cyclic_obj, tracing_budget, walk_obj, walk_todo>>
           \/ /\ o \notin waiting_remove
              /\ rc[o] # 0 /\ ~Marked(o)
              /\ mark' = [mark EXCEPT ![o] = tracing_current_bit_mark]
              /\ tracing_budget' = tracing_budget - VisitCost(o)
              /\ walk_obj' = o
              /\ walk_todo' = OwnFields(o)
              /\ UNCHANGED <<alive, value, children_released, waiting_remove, cyclic_obj>>
        /\ pc' = "trace_children"
        /\ UNCHANGED <<rc, slot, candidate_flag, registry, tracing_mutations_worklist,
                       release_lists, lost_cycle_worklist, state_vars,
                       releasing_budget, alloc_since_trace>>

\* The body of the loops over the children in gc_one_step_tracing and in
\* gc_one_step_prepare_tracing_mutations.
TraceChild(f) ==
    /\ \E l \in {"trace_children", "mutation_children"} : At(l)
    /\ IsLeast(f, walk_todo)
    /\ walk_todo' = walk_todo \ {f}
    /\ TracingPush(value[walk_obj][f])
    /\ UNCHANGED <<header_vars, slot, candidate_flag, waiting_remove, children_released,
                   registry, tracing_mutations_worklist, release_lists,
                   lost_cycle_worklist, state_vars, budgets, account, pc, walk_obj>>

\* case Tracing, after gc_one_step_tracing.
TracingStepped ==
    /\ At("trace_children")
    /\ walk_todo = {}
    /\ tracing_state' =
           IF TraceListsEmpty THEN "Reclaiming_Cyclic_Candidates"
           ELSE IF tracing_mutations_worklist # <<>> THEN "Mutation_Prepare"
           ELSE "Tracing"
    /\ pc' = "tracing"
    /\ walk_obj' = Null
    /\ UNCHANGED <<header_vars, slot, flag_vars, registry, trace_lists, release_lists,
                   lost_cycle_worklist, releasing_state, tracing_current_bit_mark,
                   current_candidate_check_index, budgets, account, walk_todo>>

\* case Mutation_Prepare with no mutation left.
MutationsDrained ==
    /\ At("tracing")
    /\ tracing_budget > 0
    /\ tracing_state = "Mutation_Prepare"
    /\ tracing_mutations_worklist = <<>>
    /\ tracing_state' = IF tracing_worklist # <<>> THEN "Tracing"
                        ELSE "Reclaiming_Cyclic_Candidates"
    /\ UNCHANGED <<header_vars, slot, flag_vars, registry, trace_lists, release_lists,
                   lost_cycle_worklist, releasing_state, tracing_current_bit_mark,
                   current_candidate_check_index, budgets, account, control>>

\* gc_one_step_prepare_tracing_mutations, up to its loop over the children.
MutationPop ==
    LET o == Last(tracing_mutations_worklist)
    IN  /\ At("tracing")
        /\ tracing_budget > 0
        /\ tracing_state = "Mutation_Prepare"
        /\ tracing_mutations_worklist # <<>>
        /\ tracing_mutations_worklist' = Front(tracing_mutations_worklist)
        /\ \/ /\ o \in waiting_remove
              /\ FreeCell(o)
              /\ UNCHANGED <<tracing_budget, walk_obj, walk_todo>>
           \/ /\ o \notin waiting_remove
              /\ tracing_budget' = tracing_budget - MutationCost(o)
              /\ walk_obj' = o
              /\ walk_todo' = OwnFields(o)
              /\ UNCHANGED <<alive, value, mark, children_released, waiting_remove>>
        /\ pc' = "mutation_children"
        /\ UNCHANGED <<rc, slot, candidate_flag, tracing_flag, registry, tracing_worklist,
                       release_lists, lost_cycle_worklist, state_vars,
                       releasing_budget, account>>

MutationStepped ==
    /\ At("mutation_children")
    /\ walk_todo = {}
    /\ pc' = "tracing"
    /\ walk_obj' = Null
    /\ UNCHANGED <<header_vars, slot, flag_vars, registry, trace_lists, release_lists,
                   lost_cycle_worklist, state_vars, budgets, account, walk_todo>>

\* Mutant of LostCycleWalk: the Children_Released flag is not tested.
LostCycleWalkAgain(o) ==
    /\ walk_obj' = o
    /\ walk_todo' = OwnFields(o)
    /\ children_released' = children_released \cup {o}

\* The loop over the children of o with which gc_one_step_scan and
\* gc_one_step_free_unreachable begin, unless they were released before.
LostCycleWalk(o) ==
    /\ walk_obj' = o
    /\ walk_todo' = IF o \in children_released THEN {} ELSE OwnFields(o)
    /\ children_released' = children_released \cup {o}

\* lost_cycle_child_decr
LostCycleChildDecr(f) ==
    LET c == value[walk_obj][f]
    IN  /\ \E l \in {"scan_children", "lost_children"} : At(l)
        /\ IsLeast(f, walk_todo)
        /\ walk_todo' = walk_todo \ {f}
        /\ rc' = [rc EXCEPT ![c] = @ - 1]
        /\ \/ /\ rc[c] # 1
              /\ UNCHANGED <<free_vars, lost_cycle_worklist>>
           \/ /\ rc[c] = 1 /\ Layout[c] = "MonoImm"
              /\ FreeReleasedObject(c)
              /\ UNCHANGED lost_cycle_worklist
           \/ /\ rc[c] = 1 /\ Layout[c] # "MonoImm"
              /\ lost_cycle_worklist' = Append(lost_cycle_worklist, c)
              /\ UNCHANGED free_vars
        /\ UNCHANGED <<slot, tracing_flag, trace_lists, release_lists, state_vars,
                       budgets, alloc_since_trace, pc, walk_obj>>

Reclaiming ==
    /\ At("tracing")
    /\ tracing_budget > 0
    /\ tracing_state = "Reclaiming_Cyclic_Candidates"

\* gc_one_step_free_unreachable
LostCyclePop ==
    /\ Reclaiming
    /\ lost_cycle_worklist # <<>>
    /\ LostCycleWalk(Last(lost_cycle_worklist))
    /\ lost_cycle_worklist' = Front(lost_cycle_worklist)
    /\ pc' = "lost_children"
    /\ UNCHANGED <<header_vars, slot, candidate_flag, tracing_flag, waiting_remove,
                   registry, trace_lists, release_lists, state_vars, budgets, account>>

LostCycleFree ==
    /\ At("lost_children")
    /\ walk_todo = {}
    /\ FreeReleasedObject(walk_obj)
    /\ pc' = "tracing"
    /\ walk_obj' = Null
    /\ UNCHANGED <<rc, slot, tracing_flag, trace_lists, release_lists, lost_cycle_worklist,
                   state_vars, budgets, alloc_since_trace, walk_todo>>

ReclaimingDone ==
    /\ Reclaiming
    /\ lost_cycle_worklist = <<>>
    /\ current_candidate_check_index = 0
    /\ tracing_state' = "Tracing_Idle"
    /\ UNCHANGED <<header_vars, slot, flag_vars, registry, trace_lists, release_lists,
                   lost_cycle_worklist, releasing_state, tracing_current_bit_mark,
                   current_candidate_check_index, budgets, account, control>>

\* Mutant of ScanIndex: the clamp is one too low.
ScanIndexLow == IF current_candidate_check_index >= Len(cyclic_candidates)
                THEN (IF Len(cyclic_candidates) = 0 THEN 0 ELSE Len(cyclic_candidates) - 1)
                ELSE current_candidate_check_index

\* The entry gc_one_step_scan looks at, once the index is clamped to the
\* registry's size.
ScanIndex == IF current_candidate_check_index > Len(cyclic_candidates)
             THEN Len(cyclic_candidates) ELSE current_candidate_check_index

\* gc_one_step_scan when it returns early: nothing left, or a marked candidate.
ScanSkip ==
    /\ Reclaiming
    /\ lost_cycle_worklist = <<>>
    /\ current_candidate_check_index # 0
    /\ \/ ScanIndex = 0 /\ current_candidate_check_index' = 0
       \/ /\ ScanIndex # 0
          /\ Marked(cyclic_candidates[ScanIndex])
          /\ current_candidate_check_index' = ScanIndex - 1
    /\ UNCHANGED <<header_vars, slot, flag_vars, registry, trace_lists, release_lists,
                   lost_cycle_worklist, tracing_state, releasing_state,
                   tracing_current_bit_mark, budgets, account, control>>

\* Mutant of ScanUnmarked: the scan goes on while lost objects wait to be freed.
ScanUnmarkedEager ==
    /\ Reclaiming
    /\ ScanIndex # 0
    /\ ~Marked(cyclic_candidates[ScanIndex])
    /\ current_candidate_check_index' = ScanIndex - 1
    /\ LostCycleWalk(cyclic_candidates[ScanIndex])
    /\ pc' = "scan_children"
    /\ UNCHANGED <<header_vars, slot, candidate_flag, tracing_flag, waiting_remove,
                   registry, trace_lists, release_lists, lost_cycle_worklist,
                   tracing_state, releasing_state, tracing_current_bit_mark,
                   budgets, account>>

\* gc_one_step_scan on an unmarked candidate, up to the loop over its children.
ScanUnmarked ==
    /\ Reclaiming
    /\ lost_cycle_worklist = <<>>
    /\ ScanIndex # 0
    /\ ~Marked(cyclic_candidates[ScanIndex])
    /\ current_candidate_check_index' = ScanIndex - 1
    /\ LostCycleWalk(cyclic_candidates[ScanIndex])
    /\ pc' = "scan_children"
    /\ UNCHANGED <<header_vars, slot, candidate_flag, tracing_flag, waiting_remove,
                   registry, trace_lists, release_lists, lost_cycle_worklist,
                   tracing_state, releasing_state, tracing_current_bit_mark,
                   budgets, account>>

\* The end of gc_one_step_scan.
ScanEnqueue ==
    /\ At("scan_children")
    /\ walk_todo = {}
    /\ lost_cycle_worklist' = IF rc[walk_obj] = 0
                              THEN Append(lost_cycle_worklist, walk_obj)
                              ELSE lost_cycle_worklist
    /\ pc' = "tracing"
    /\ walk_obj' = Null
    /\ UNCHANGED <<header_vars, slot, flag_vars, registry, trace_lists, release_lists,
                   state_vars, budgets, account, walk_todo>>

TracingMachine ==
    \/ TracingReturn
    \/ StartTracing
    \/ \E s \in Stack : PushRoot(s)
    \/ RootsCollected
    \/ TracingPop
    \/ \E f \in Field : TraceChild(f)
    \/ TracingStepped
    \/ MutationsDrained
    \/ MutationPop
    \/ MutationStepped
    \/ LostCyclePop
    \/ \E f \in Field : LostCycleChildDecr(f)
    \/ LostCycleFree
    \/ ReclaimingDone
    \/ ScanSkip
    \/ ScanUnmarked
    \/ ScanEnqueue

Next == Mutator \/ ReleasingMachine \/ TracingMachine

Spec == Init /\ [][Next]_vars

-----------------------------------------------------------------------------
(***************************************************************************)
(* Properties                                                              *)
(***************************************************************************)

\* The type invariant: every variable holds what the C type of its field allows.
TypeOK ==
    /\ alive \subseteq Object
    /\ rc \in [Object -> Int]
    /\ mark \in [Object -> {0, 1}]
    /\ value \in [Object -> [Field -> Ref]]
    /\ slot \in [Slot -> Ref]
    /\ candidate_flag \subseteq Object
    /\ tracing_flag \subseteq Object
    /\ waiting_remove \subseteq Object
    /\ children_released \subseteq Object
    /\ candidate_index \in [Object -> Nat]
    /\ cyclic_candidates \in Seq(Object)
    /\ tracing_worklist \in Seq(Object)
    /\ tracing_mutations_worklist \in Seq(Object)
    /\ releasing_worklist \in Seq(Object)
    /\ releasing_waitlist \in Seq(Object)
    /\ lost_cycle_worklist \in Seq(Object)
    /\ tracing_state \in TracingStates
    /\ releasing_state \in ReleasingStates
    /\ tracing_current_bit_mark \in {0, 1}
    /\ current_candidate_check_index \in Nat
    /\ tracing_budget \in Int
    /\ releasing_budget \in Int
    /\ cyclic_obj \in Int
    /\ alloc_since_trace \in BOOLEAN
    /\ pc \in ProgramPCs
    /\ walk_obj \in Ref
    /\ walk_todo \subseteq (Field \cup Slot)

\* gc_vector_pop_back is never called on an empty vector: whenever a machine
\* is about to pop, the worklist of its state has an entry, however the slices
\* were cut and whatever the program did between them.
NoEmptyPop ==
    /\ pc \notin {"roots", "trace_children"} /\ tracing_state = "Tracing"
          => tracing_worklist # <<>>
    /\ pc # "release_children" /\ releasing_state = "Releasing"
          => releasing_worklist # <<>>

\* Outside a trace nothing is left in its two worklists, so a trace never
\* starts on the leftovers of the one before.
TraceListsDrained ==
    tracing_state \in {"Tracing_Idle", "Reclaiming_Cyclic_Candidates"} =>
        tracing_worklist = <<>> /\ tracing_mutations_worklist = <<>>

\* The tracing flag is set exactly while the object has an entry in the tracing
\* worklist, and it has one entry: free_released_object relies on the flag to
\* hand the object over to the tracer, and runtime/README.md on the single entry.
TracingFlagExact ==
    /\ tracing_flag = ToSet(tracing_worklist)
    /\ IsInjective(tracing_worklist)

\* An object that waits for the tracer to free it is in the tracing worklist:
\* otherwise nobody would ever free it.
WaitingIsTraced == waiting_remove \subseteq tracing_flag

\* The candidate registry and the index words in the objects agree after any
\* sequence of registrations and swap-removals.
RegistryConsistent ==
    /\ candidate_flag = ToSet(cyclic_candidates)
    /\ \A i \in DOMAIN cyclic_candidates : candidate_index[cyclic_candidates[i]] = i

\* The references to o that exist: owned by a slot or by a field.
Holders(o) == Cardinality({s \in Slot : slot[s] = o})
              + Cardinality({e \in alive \X Field :
                                /\ e[2] \in HeldFields(e[1])
                                /\ value[e[1]][e[2]] = o})

\* A reference count is the number of owned references, at every step of the
\* program and of both collectors.
RcExact == \A o \in alive : rc[o] = Holders(o)

\* An object is queued for release at most once, in one of the two lists, and
\* only when nothing refers to it any more.
ReleasedOnce ==
    LET queue == releasing_worklist \o releasing_waitlist
    IN  IsInjective(queue) /\ \A o \in ToSet(queue) : rc[o] = 0

\* By how much the size the trace trigger is computed from exceeds the heap's.
Excess == cyclic_obj - Cardinality(alive \cap Cyclic)

\* The account of cyclic objects drifts from the heap in two steps only, each by the
\* object it frees: syli_rt_object_decr frees a cyclic leaf (a closure without
\* captures) at once, and Mutation_Prepare one that waits for removal.  Every other
\* allocation and free is accounted exactly once, a deferred free included.
AccountingDrift ==
    [][Excess' = Excess + Cardinality({o \in (alive \ alive') \cap Cyclic :
                              \/ Layout[o] = "MonoImm" /\ pc = "mutator"
                              \/ pc' = "mutation_children"})]_vars

\* The tricolour invariant of the incremental trace, which the write barrier is for
\* (syli.h:53: "If `obj` is marked but `target` is not, `target` is added to the mutation
\* worklist"): while marking is under way, an unmarked traceable object that a marked
\* live and traceable one refers to is queued, or it is about to be: the marked object
\* waits in the mutations worklist or is being visited.
TriColor ==
    tracing_state \in {"Tracing", "Mutation_Prepare"} =>
        \A o \in alive : \A f \in HeldFields(o) :
            (Marked(o) /\ rc[o] > 0 /\ o \in Traceable) =>
                LET c == value[o][f]
                IN  \/ Marked(c) \/ c \notin Traceable
                    \/ c \in ToSet(tracing_worklist)
                    \/ o \in ToSet(tracing_mutations_worklist)
                    \/ o = walk_obj /\ f \in walk_todo

\* No step of the program or of the tracer breaks the tricolour invariant of a
\* trace under way, as long as the counts are right and memory is intact: in
\* particular the write barrier covers every store through an owned pointer.
TriColorKept ==
    [][tracing_state # "Tracing_Idle" /\ TriColor /\ RcExact /\ NoDangling'
          => TriColor']_vars

\* Two colours are enough only if no live object is left unmarked between
\* traces: it would pass for marked once the bit is toggled, and its children
\* would not be visited.
IdleAllMarked ==
    tracing_state = "Tracing_Idle" =>
        \A o \in alive : rc[o] > 0 /\ o \in Traceable => Marked(o)

\* When the scan of the candidates ends, every candidate left is marked or had
\* its turn: the swap-removals during the scan hid none of them.
ScanComplete ==
    (tracing_state = "Reclaiming_Cyclic_Candidates" /\ pc = "tracing"
       /\ current_candidate_check_index = 0 /\ lost_cycle_worklist = <<>>)
    => \A c \in ToSet(cyclic_candidates) : Marked(c) \/ c \in children_released

\* A lost object is queued for freeing once, however many paths lead to it,
\* unless it refers to itself: only then both lost_cycle_child_decr and the test
\* at the end of gc_one_step_scan find its count at 0.
LostTwiceOnlySelf ==
    \A i, j \in DOMAIN lost_cycle_worklist :
        i # j /\ lost_cycle_worklist[i] = lost_cycle_worklist[j] =>
            LET o == lost_cycle_worklist[i]
            IN  \E f \in Refs[o] : value[o][f] = o

\* free_released_object leaves an object the tracer still has queued to the
\* tracer.  Two steps do not: the program's decrement of a leaf frees it at once, and
\* Mutation_Prepare frees an object that waits for removal although the tracing
\* worklist still has it.  No other step frees memory under the tracer.
FreedUnderTracer ==
    [][\A o \in (alive \ alive') \cap ToSet(tracing_worklist') :
          \/ Layout[o] = "MonoImm" /\ rc[o] = 1 /\ pc = "mutator"
          \/ pc' = "mutation_children" /\ o = Last(tracing_mutations_worklist)]_vars

\* An object queued for release is eventually freed: each bucket is emptied
\* before the next one is taken, so later releases cannot starve it.
EventuallyReleased ==
    \A o \in Object :
        o \in ToSet(releasing_waitlist) \cup ToSet(releasing_worklist) ~> o \notin alive

-----------------------------------------------------------------------------
(***************************************************************************)
(* What comments, tests and documents of the repository say of the         *)
(* runtime, where the code does otherwise.                                 *)
(***************************************************************************)

\* syli_state_gc_tracing.c:166: "lost_cycle_worklist only holds refcount-0
\* objects, so it never overlaps with the normal releasing pipeline."
LostNeverOverlapsReleasing ==
    ToSet(lost_cycle_worklist)
        \cap (ToSet(releasing_worklist) \cup ToSet(releasing_waitlist)) = {}

=============================================================================
