--------------------------- MODULE SyliGCCounting ---------------------------
(***************************************************************************)
(* Proofs that reference counting is exact and that an object is queued    *)
(* for release once, for every heap, budget and threshold, as long as the  *)
(* lost-cycle collector and the releasing machine do not take the same     *)
(* object.                                                                 *)
(***************************************************************************)
EXTENDS SyliGCStructure, SyliHeap

-----------------------------------------------------------------------------
(***************************************************************************)
(* A ledger: counts r of the objects in A, and the references to them that *)
(* slots sl and fields ft hold.                                            *)
(***************************************************************************)

\* The fields of the heap.
Place == Object \X Field

\* How many arguments f maps to o.
CountOf(f, o) == Cardinality({d \in DOMAIN f : f[d] = o})

\* The counts are those of the references, and every reference is to a member of A.
Ledger(A, r, sl, ft) ==
    /\ A \subseteq Object
    /\ r \in [Object -> Int]
    /\ sl \in [Slot -> A \cup {Null}]
    /\ ft \in [Place -> A \cup {Null}]
    /\ \A o \in A : r[o] = CountOf(sl, o) + CountOf(ft, o)

\* A function that changes at one point counts one less of the old value and one
\* more of the new one.
LEMMA CountUpdate ==
    ASSUME NEW f, NEW g, NEW d \in DOMAIN f, NEW o, IsFiniteSet(DOMAIN f),
           DOMAIN g = DOMAIN f, \A e \in DOMAIN f : e # d => g[e] = f[e]
    PROVE  CountOf(g, o) =
               CountOf(f, o) - (IF o = f[d] THEN 1 ELSE 0) + (IF o = g[d] THEN 1 ELSE 0)
<1> DEFINE S == {e \in DOMAIN f : e # d /\ f[e] = o}
           F == {e \in DOMAIN f : f[e] = o}
           G == {e \in DOMAIN g : g[e] = o}
<1>1. IsFiniteSet(S)
  BY FS_Subset
<1>2. Cardinality(S) \in Nat
  BY <1>1, FS_CardinalityType
<1>3. d \notin S /\ Cardinality(S \cup {d}) = Cardinality(S) + 1
  BY <1>1, FS_AddElement
<1>4. F = IF o = f[d] THEN S \cup {d} ELSE S
  OBVIOUS
<1>5. G = IF o = g[d] THEN S \cup {d} ELSE S
  OBVIOUS
<1> HIDE DEF S, F, G
<1>6. Cardinality(F) = Cardinality(S) + (IF o = f[d] THEN 1 ELSE 0)
  BY <1>2, <1>3, <1>4
<1>7. Cardinality(G) = Cardinality(S) + (IF o = g[d] THEN 1 ELSE 0)
  BY <1>2, <1>3, <1>5
<1>8. Cardinality(G) = Cardinality(F) - (IF o = f[d] THEN 1 ELSE 0) + (IF o = g[d] THEN 1 ELSE 0)
  BY <1>2, <1>6, <1>7
<1> QED BY <1>8 DEF CountOf, F, G

\* A count is 0 exactly if the value does not occur.
LEMMA CountZero ==
    ASSUME NEW f, IsFiniteSet(DOMAIN f), NEW o
    PROVE  /\ CountOf(f, o) \in Nat
           /\ (CountOf(f, o) = 0 <=> \A d \in DOMAIN f : f[d] # o)
<1> DEFINE F == {e \in DOMAIN f : f[e] = o}
<1>1. IsFiniteSet(F)
  BY FS_Subset
<1>2. Cardinality(F) \in Nat /\ (Cardinality(F) = 0 <=> F = {})
  BY <1>1, FS_CardinalityType, FS_EmptySet
<1> QED BY <1>2 DEF CountOf

LEMMA LedgerFinite == IsFiniteSet(Slot) /\ IsFiniteSet(Place) /\ Null \notin Object
  BY HeapAssumption, FS_Product DEF Place

LEMMA CountsAreNat ==
    ASSUME NEW A, NEW r, NEW sl, NEW ft, Ledger(A, r, sl, ft), NEW o
    PROVE  /\ CountOf(sl, o) \in Nat /\ CountOf(ft, o) \in Nat
           /\ CountOf(sl, o) = 0 <=> \A s \in Slot : sl[s] # o
           /\ CountOf(ft, o) = 0 <=> \A e \in Place : ft[e] # o
<1>1. DOMAIN sl = Slot /\ DOMAIN ft = Place
  BY DEF Ledger
<1>2. CountOf(sl, o) \in Nat /\ (CountOf(sl, o) = 0 <=> \A s \in Slot : sl[s] # o)
  BY <1>1, CountZero, LedgerFinite
<1>3. CountOf(ft, o) \in Nat /\ (CountOf(ft, o) = 0 <=> \A e \in Place : ft[e] # o)
  BY <1>1, CountZero, LedgerFinite
<1> QED BY <1>2, <1>3, Zenon

\* One reference of a slot changes, and the counts with it.
LEMMA LedgerSlot ==
    ASSUME NEW A, NEW r, NEW sl, NEW ft, Ledger(A, r, sl, ft),
           NEW s \in Slot, NEW g \in [Slot -> A \cup {Null}],
           \A d \in Slot : d # s => g[d] = sl[d],
           NEW q \in [Object -> Int],
           \A o \in A : q[o] = r[o] - (IF o = sl[s] THEN 1 ELSE 0)
                                    + (IF o = g[s] THEN 1 ELSE 0)
    PROVE  Ledger(A, q, g, ft)
<1> DEFINE dec(o) == IF o = sl[s] THEN 1 ELSE 0
           inc(o) == IF o = g[s] THEN 1 ELSE 0
<1>1. /\ DOMAIN sl = Slot /\ IsFiniteSet(Slot) /\ DOMAIN g = Slot
  BY LedgerFinite DEF Ledger
<1>2. ASSUME NEW o \in A
      PROVE  q[o] = CountOf(g, o) + CountOf(ft, o)
  <2>1. CountOf(g, o) = CountOf(sl, o) - dec(o) + inc(o)
    BY <1>1, CountUpdate
  <2>2. CountOf(sl, o) \in Nat /\ CountOf(ft, o) \in Nat /\ dec(o) \in Int /\ inc(o) \in Int
    BY CountsAreNat
  <2>3. q[o] = r[o] - dec(o) + inc(o)
    OBVIOUS
  <2>4. r[o] = CountOf(sl, o) + CountOf(ft, o)
    BY DEF Ledger
  <2> HIDE DEF dec, inc
  <2> QED BY <2>1, <2>2, <2>3, <2>4
<1> QED BY <1>2 DEF Ledger

\* One reference of a field changes, and the counts with it.
LEMMA LedgerField ==
    ASSUME NEW A, NEW r, NEW sl, NEW ft, Ledger(A, r, sl, ft),
           NEW e \in Place, NEW g \in [Place -> A \cup {Null}],
           \A d \in Place : d # e => g[d] = ft[d],
           NEW q \in [Object -> Int],
           \A o \in A : q[o] = r[o] - (IF o = ft[e] THEN 1 ELSE 0)
                                    + (IF o = g[e] THEN 1 ELSE 0)
    PROVE  Ledger(A, q, sl, g)
<1> DEFINE dec(o) == IF o = ft[e] THEN 1 ELSE 0
           inc(o) == IF o = g[e] THEN 1 ELSE 0
<1>1. /\ DOMAIN ft = Place /\ IsFiniteSet(Place) /\ DOMAIN g = Place
  BY LedgerFinite DEF Ledger
<1>2. ASSUME NEW o \in A
      PROVE  q[o] = CountOf(sl, o) + CountOf(g, o)
  <2>1. CountOf(g, o) = CountOf(ft, o) - dec(o) + inc(o)
    BY <1>1, CountUpdate
  <2>2. CountOf(ft, o) \in Nat /\ CountOf(sl, o) \in Nat /\ dec(o) \in Int /\ inc(o) \in Int
    BY CountsAreNat
  <2>3. q[o] = r[o] - dec(o) + inc(o)
    OBVIOUS
  <2>4. r[o] = CountOf(sl, o) + CountOf(ft, o)
    BY DEF Ledger
  <2> HIDE DEF dec, inc
  <2> QED BY <2>1, <2>2, <2>3, <2>4
<1> QED BY <1>2 DEF Ledger

\* What a count says: a referenced object has a positive one, an object with a
\* slot and a field at least 2.
LEMMA LedgerHeld ==
    ASSUME NEW A, NEW r, NEW sl, NEW ft, Ledger(A, r, sl, ft), NEW o \in A
    PROVE  /\ r[o] \in Nat
           /\ r[o] = 0 <=> (\A s \in Slot : sl[s] # o) /\ (\A e \in Place : ft[e] # o)
           /\ (\E s \in Slot : sl[s] = o) /\ (\E e \in Place : ft[e] = o) => r[o] >= 2
<1>1. /\ CountOf(sl, o) \in Nat /\ CountOf(ft, o) \in Nat
      /\ CountOf(sl, o) = 0 <=> \A s \in Slot : sl[s] # o
      /\ CountOf(ft, o) = 0 <=> \A e \in Place : ft[e] # o
  BY CountsAreNat
<1>2. r[o] = CountOf(sl, o) + CountOf(ft, o)
  BY DEF Ledger
<1> QED BY <1>1, <1>2

\* An object without references leaves the ledger.
LEMMA LedgerFree ==
    ASSUME NEW A, NEW r, NEW sl, NEW ft, Ledger(A, r, sl, ft), NEW o \in A, r[o] = 0
    PROVE  Ledger(A \ {o}, r, sl, ft)
<1>1. (\A s \in Slot : sl[s] # o) /\ (\A e \in Place : ft[e] # o)
  BY LedgerHeld
<1>2. sl \in [Slot -> (A \ {o}) \cup {Null}] /\ ft \in [Place -> (A \ {o}) \cup {Null}]
  BY <1>1 DEF Ledger
<1> QED BY <1>2 DEF Ledger

\* A new object has no references.
LEMMA LedgerNew ==
    ASSUME NEW A, NEW r, NEW sl, NEW ft, Ledger(A, r, sl, ft), NEW o \in Object \ A,
           NEW q \in [Object -> Int], q[o] = 0, \A p \in A : q[p] = r[p]
    PROVE  Ledger(A \cup {o}, q, sl, ft)
<1>1. (\A s \in Slot : sl[s] # o) /\ (\A e \in Place : ft[e] # o)
  BY LedgerFinite DEF Ledger
<1>2. CountOf(sl, o) = 0 /\ CountOf(ft, o) = 0
  BY <1>1, CountsAreNat
<1>3. \A p \in A \cup {o} : q[p] = CountOf(sl, p) + CountOf(ft, p)
  BY <1>2 DEF Ledger
<1> QED BY <1>3 DEF Ledger

-----------------------------------------------------------------------------
(***************************************************************************)
(* The references of a state of SyliGC                                     *)
(***************************************************************************)

\* What field f of o still holds.
Target(o, f) == IF o \in alive /\ f \in HeldFields(o) THEN value[o][f] ELSE Null

FieldTarget == [e \in Place |-> Target(e[1], e[2])]

Queue == ToSet(releasing_worklist) \cup ToSet(releasing_waitlist)

\* The loops that give up the references of an object.
DownPCs == {"release_children", "scan_children", "lost_children"}

\* The objects nothing may refer to: those queued to be freed and the one
\* being freed.
Dying == Queue \cup waiting_remove \cup ToSet(lost_cycle_worklist)
           \cup {o \in Object : o = walk_obj /\ pc \in {"release_children", "lost_children"}}

\* Each object is queued for release once, and not while it is released.
QueueOK ==
    /\ IsInjective(releasing_worklist) /\ IsInjective(releasing_waitlist)
    /\ ToSet(releasing_worklist) \cap ToSet(releasing_waitlist) = {}
    /\ Queue \cap waiting_remove = {}
    /\ pc = "release_children" => walk_obj \notin Queue

\* The references a loop has still to give up are references of the object, and
\* an object a lost-cycle loop visits has its flag.
DownOK ==
    /\ pc \in DownPCs => walk_todo \subseteq OwnFields(walk_obj)
    /\ pc \in {"scan_children", "lost_children"} => walk_obj \in children_released

CountInv ==
    /\ Ledger(alive, rc, slot, FieldTarget)
    /\ \A o \in Dying : rc[o] = 0
    /\ QueueOK
    /\ DownOK

\* The releasing machine does not take an object the lost-cycle collector has
\* torn down.
TornNotQueued == children_released \cap Queue = {}

\* The facts about the flags and the phases that the counts rest on.
BaseInv == TypeInv /\ FlagInv /\ PhaseInv

LEMMA TargetAt ==
    /\ \A o \in Object, f \in Field : FieldTarget[<<o, f>>] = Target(o, f)
    /\ DOMAIN FieldTarget = Place
  BY DEF FieldTarget, Place

\* Two states in which every field holds the same have the same table.
LEMMA SameTargets ==
    ASSUME \A o \in Object, f \in Field : Target(o, f)' = Target(o, f)
    PROVE  FieldTarget' = FieldTarget
  BY DEF FieldTarget, Place

\* Nothing that is about to be freed is freed already.
LEMMA DyingAlive ==
    ASSUME BaseInv, NoDangling
    PROVE  Dying \subseteq alive
<1>1. waiting_remove \subseteq ToSet(tracing_worklist)
  BY DEF BaseInv, FlagInv, TracingFlagExact, WaitingIsTraced
<1>2. Queued \subseteq alive /\ (walk_obj # Null => walk_obj \in alive)
  BY DEF NoDangling
<1>3. Null \notin Object
  BY HeapAssumption
<1> QED BY <1>1, <1>2, <1>3 DEF Dying, Queue, Queued

\* A referenced object is not about to be freed.
LEMMA HeldNotDying ==
    ASSUME CountInv
    PROVE  /\ \A s \in Slot : slot[s] # Null =>
                  slot[s] \in alive /\ rc[slot[s]] \in Nat \ {0} /\ slot[s] \notin Dying
           /\ \A o \in Object, f \in Field : Target(o, f) # Null =>
                  /\ Target(o, f) \in alive /\ rc[Target(o, f)] \in Nat \ {0}
                  /\ Target(o, f) \notin Dying
<1>1. Ledger(alive, rc, slot, FieldTarget) /\ \A o \in Dying : rc[o] = 0
  BY DEF CountInv
<1>2. ASSUME NEW o \in alive,
             (\E s \in Slot : slot[s] = o) \/ (\E e \in Place : FieldTarget[e] = o)
      PROVE  rc[o] \in Nat \ {0} /\ o \notin Dying
  <2>1. rc[o] \in Nat /\ rc[o] # 0
    BY <1>1, <1>2, LedgerHeld
  <2> QED BY <1>1, <2>1
<1>3. ASSUME NEW s \in Slot, slot[s] # Null
      PROVE  slot[s] \in alive
  BY <1>1, <1>3 DEF Ledger
<1>4. ASSUME NEW o \in Object, NEW f \in Field, Target(o, f) # Null
      PROVE  /\ <<o, f>> \in Place /\ FieldTarget[<<o, f>>] = Target(o, f)
             /\ Target(o, f) \in alive
  <2>1. <<o, f>> \in Place /\ FieldTarget[<<o, f>>] = Target(o, f)
    BY TargetAt DEF Place
  <2>2. FieldTarget[<<o, f>>] \in alive \cup {Null}
    BY <1>1, <2>1 DEF Ledger
  <2> QED BY <1>4, <2>1, <2>2
<1>5. ASSUME NEW s \in Slot, slot[s] # Null
      PROVE  slot[s] \in alive /\ rc[slot[s]] \in Nat \ {0} /\ slot[s] \notin Dying
  BY <1>2, <1>3, <1>5
<1>6. ASSUME NEW o \in Object, NEW f \in Field, Target(o, f) # Null
      PROVE  /\ Target(o, f) \in alive /\ rc[Target(o, f)] \in Nat \ {0}
             /\ Target(o, f) \notin Dying
  BY <1>2, <1>4, <1>6
<1> QED BY <1>5, <1>6

\* An object without references among its fields holds nothing.
LEMMA LeafHolds ==
    ASSUME DownOK, NEW o \in Object, Layout[o] = "MonoImm"
    PROVE  HeldFields(o) = {}
<1>1. Refs[o] = {}
  BY HeaderAssumption
<1> QED BY <1>1 DEF HeldFields, OwnFields, DownOK, DownPCs

\* A step that touches no reference keeps the counts.
LEMMA QuietStep ==
    ASSUME CountInv, pc \notin DownPCs, pc' \notin DownPCs,
           UNCHANGED <<alive, rc, value, slot, waiting_remove, children_released,
                       releasing_worklist, releasing_waitlist, lost_cycle_worklist>>
    PROVE  CountInv'
<1>1. \A o \in Object, f \in Field : Target(o, f)' = Target(o, f)
  BY DEF Target, HeldFields, OwnFields, DownPCs
<1>2. FieldTarget' = FieldTarget
  BY <1>1, SameTargets
<1>3. Ledger(alive, rc, slot, FieldTarget)'
  BY <1>2 DEF CountInv, Ledger
<1>4. Dying' \subseteq Dying
  BY DEF Dying, Queue, DownPCs
<1>5. QueueOK' /\ DownOK'
  BY DEF CountInv, QueueOK, DownOK, Queue, DownPCs
<1> QED BY <1>3, <1>4, <1>5 DEF CountInv

-----------------------------------------------------------------------------
(***************************************************************************)
(* The program keeps the counts                                            *)
(***************************************************************************)

\* A new object has one reference, that of the variable it is created in.
LEMMA AllocCount ==
    ASSUME BaseInv, CountInv, NEW s \in Stack, NEW o \in Object, Alloc(s, o)
    PROVE  CountInv'
<1> USE DEF control, release_lists
<1>1. s \in Slot /\ Null \notin Object
  BY HeapAssumption DEF Stack
<1>2. TypeOK /\ NoDangling /\ pc = "mutator" /\ pc' = "mutator" /\ o \notin alive
  BY DEF Alloc, At, BaseInv, TypeInv
<1>3. o \notin Dying
  BY <1>2, DyingAlive
<1>4. FieldTarget' = FieldTarget
  <2>1. ASSUME NEW p \in Object, NEW f \in Field
        PROVE  Target(p, f)' = Target(p, f)
    <3>1. CASE p = o
      BY <1>2, <3>1 DEF Alloc, Target, HeldFields, OwnFields, NoFields, TypeOK
    <3>2. CASE p # o
      BY <1>2, <3>2 DEF Alloc, Target, HeldFields, OwnFields, TypeOK
    <3> QED BY <3>1, <3>2
  <2> QED BY <2>1, SameTargets
<1>5. Ledger(alive', rc', slot', FieldTarget)
  <2> DEFINE q == [rc EXCEPT ![o] = 0]
  <2>1. q \in [Object -> Int] /\ q[o] = 0 /\ \A p \in alive : q[p] = rc[p]
    BY <1>2 DEF TypeOK
  <2>2. Ledger(alive', q, slot, FieldTarget)
    <3>1. Ledger(alive \cup {o}, q, slot, FieldTarget)
      <4> HIDE DEF q
      <4> QED BY <1>2, <2>1, LedgerNew DEF CountInv
    <3> QED BY <3>1 DEF Alloc
  <2>3. slot[s] = Null /\ slot'[s] = o /\ \A t \in Slot : t # s => slot'[t] = slot[t]
    BY <1>1, <1>2 DEF Alloc, TypeOK
  <2>4. slot' \in [Slot -> alive' \cup {Null}]
    BY <1>1, <2>2 DEF Alloc, Ledger
  <2>5. rc' \in [Object -> Int] /\ rc'[o] = 1 /\ \A p \in alive : rc'[p] = rc[p] /\ p # o /\ p # Null
    BY <1>1, <1>2 DEF Alloc, TypeOK
  <2>6. \A p \in alive' : q[p] \in Int
    BY <1>2, <2>1 DEF Alloc, TypeOK
  <2>7. \A p \in alive' : rc'[p] = q[p] - (IF p = slot[s] THEN 1 ELSE 0)
                                        + (IF p = slot'[s] THEN 1 ELSE 0)
    <3>1. alive' = alive \cup {o}
      BY DEF Alloc
    <3> HIDE DEF q
    <3> QED BY <1>1, <2>1, <2>3, <2>5, <2>6, <3>1
  <2> HIDE DEF q
  <2> QED BY <1>1, <2>2, <2>3, <2>4, <2>5, <2>7, LedgerSlot
<1>6. Dying' = Dying /\ QueueOK' /\ DownOK'
  BY <1>2 DEF Alloc, Dying, Queue, CountInv, QueueOK, DownOK, DownPCs
<1>7. \A p \in Dying' : rc'[p] = 0
  BY <1>2, <1>3, <1>6 DEF Alloc, CountInv, TypeOK
<1> QED BY <1>4, <1>5, <1>6, <1>7 DEF CountInv, Ledger

\* Dropping a reference queues at most the object it referred to, once.
LEMMA DecrQueue ==
    ASSUME BaseInv, CountInv, NEW c \in Ref, c \notin Dying, pc \notin DownPCs, pc' = pc,
           releasing_waitlist' = WaitlistAfterDecr(c),
           UNCHANGED <<waiting_remove, releasing_worklist, lost_cycle_worklist>>
    PROVE  QueueOK' /\ DownOK' /\ Dying' \subseteq Dying \cup {o \in Object : o = c /\ ReachesZero(o)}
<1>1. QueueOK' /\ Dying' \subseteq Dying \cup {o \in Object : o = c /\ ReachesZero(o)}
  <2>1. CASE releasing_waitlist' = releasing_waitlist
    BY <2>1 DEF CountInv, QueueOK, Queue, Dying, DownPCs
  <2>2. CASE releasing_waitlist' # releasing_waitlist
    <3>1. ReachesZero(c) /\ releasing_waitlist' = Append(releasing_waitlist, c)
      BY <2>2 DEF WaitlistAfterDecr
    <3>2. releasing_waitlist \in Seq(Object) /\ c \in Object
      BY <3>1 DEF BaseInv, TypeInv, TypeOK, Ref, ReachesZero
    <3>3. c \notin ToSet(releasing_worklist) /\ c \notin ToSet(releasing_waitlist) /\ c \notin waiting_remove
      BY DEF Dying, Queue
    <3>4. ToSet(releasing_waitlist') = ToSet(releasing_waitlist) \cup {c} /\ IsInjective(releasing_waitlist')
      BY <3>1, <3>2, <3>3, AppendSet DEF CountInv, QueueOK
    <3> QED BY <3>1, <3>2, <3>3, <3>4 DEF CountInv, QueueOK, Queue, Dying, DownPCs
  <2> QED BY <2>1, <2>2
<1>2. DownOK'
  BY DEF DownOK, DownPCs
<1> QED BY <1>1, <1>2

\* syli_rt_object_decr: the counts after a decrement that is in the ledger.
LEMMA DecrFree ==
    ASSUME NEW r, NEW sl, NEW ft, Ledger(alive, r, sl, ft), NEW c \in Ref,
           ReachesZero(c) => c \in alive /\ r[c] = 0
    PROVE  Ledger(AliveAfterDecr(c), r, sl, ft)
  BY LedgerFree DEF AliveAfterDecr

\* Freeing a leaf changes no held reference.
LEMMA DecrTargets ==
    ASSUME BaseInv, CountInv, NEW c \in Ref, NEW o \in Object, NEW f \in Field,
           alive' = AliveAfterDecr(c), pc \notin DownPCs, pc' = pc,
           value'[o][f] = value[o][f], 
           UNCHANGED <<waiting_remove, children_released>>
    PROVE  Target(o, f)' = Target(o, f)
<1>1. CASE o \in alive /\ o \notin alive'
  <2>1. HeldFields(o) = {}
    BY <1>1, LeafHolds DEF AliveAfterDecr, CountInv
  <2> QED BY <1>1, <2>1 DEF Target
<1>2. CASE o \in alive <=> o \in alive'
  BY <1>2 DEF Target, HeldFields, OwnFields, DownPCs
<1> QED BY <1>1, <1>2 DEF AliveAfterDecr

\* OR_Release gives up the reference of a variable.
LEMMA ReleaseCount ==
    ASSUME BaseInv, CountInv, NEW s \in Stack, Release(s)
    PROVE  CountInv'
<1> USE DEF control, release_lists, flag_vars
<1> DEFINE x == slot[s]
<1>1. s \in Slot /\ Null \notin Object
  BY HeapAssumption DEF Stack
<1>2. TypeOK /\ NoDangling /\ pc = "mutator" /\ pc' = "mutator" /\ x # Null
  BY DEF Release, At, BaseInv, TypeInv
<1>3. x \in alive /\ x \in Object /\ rc[x] \in Nat \ {0} /\ x \notin Dying
  BY <1>1, <1>2, HeldNotDying DEF TypeOK
<1>4. FieldTarget' = FieldTarget
  <2>1. ASSUME NEW p \in Object, NEW f \in Field
        PROVE  Target(p, f)' = Target(p, f)
    BY <1>2, <1>3, DecrTargets DEF Release, Ref, DownPCs
  <2> QED BY <2>1, SameTargets
<1>5. rc' \in [Object -> Int] /\ rc'[x] = rc[x] - 1 /\ \A p \in Object : p # x => rc'[p] = rc[p]
  BY <1>2, <1>3 DEF Release, TypeOK
<1>6. Ledger(alive, rc', slot', FieldTarget)
  <2>1. slot'[s] = Null /\ \A t \in Slot : t # s => slot'[t] = slot[t]
    BY <1>1, <1>2 DEF Release, TypeOK
  <2>2. slot' \in [Slot -> alive \cup {Null}]
    BY <1>1 DEF Release, CountInv, Ledger
  <2>3. \A p \in alive : rc'[p] = rc[p] - (IF p = slot[s] THEN 1 ELSE 0)
                                        + (IF p = slot'[s] THEN 1 ELSE 0)
    BY <1>1, <1>2, <1>3, <1>5, <2>1 DEF TypeOK
  <2> QED BY <1>1, <1>5, <2>1, <2>2, <2>3, LedgerSlot DEF CountInv
<1>7. Ledger(alive', rc', slot', FieldTarget)
  <2>1. ReachesZero(x) => x \in alive /\ rc'[x] = 0
    BY <1>3, <1>5 DEF ReachesZero
  <2> QED BY <1>3, <1>6, <2>1, DecrFree DEF Release, Ref
<1>8. QueueOK' /\ DownOK' /\ Dying' \subseteq Dying \cup {o \in Object : o = x /\ ReachesZero(o)}
  <2> HIDE DEF x
  <2>1. pc' = pc /\ pc \notin DownPCs /\ x \in Ref
    BY <1>2, <1>3 DEF DownPCs, Ref
  <2> QED BY <1>3, <2>1, DecrQueue DEF Release, x
<1>9. \A p \in Dying' : rc'[p] = 0
  <2>1. \A p \in Dying : p \in Object /\ rc[p] = 0
    BY <1>2, DyingAlive DEF CountInv, TypeOK
  <2> QED BY <1>3, <1>5, <1>8, <2>1 DEF ReachesZero
<1> QED BY <1>4, <1>7, <1>8, <1>9 DEF CountInv, Ledger

\* A reference that exists is copied to an empty variable.
LEMMA CopyCount ==
    ASSUME BaseInv, CountInv, NoDangling, NEW t \in Slot, slot[t] = Null,
           NEW y \in alive, rc[y] \in Nat \ {0},
           slot' \in [Slot -> alive \cup {Null}],
           slot'[t] = y /\ \A u \in Slot : u # t => slot'[u] = slot[u],
           rc' \in [Object -> Int],
           rc'[y] = rc[y] + 1 /\ \A p \in Object : p # y => rc'[p] = rc[p],
           pc = "mutator", pc' = pc,
           UNCHANGED <<alive, value, waiting_remove, children_released,
                       releasing_worklist, releasing_waitlist, lost_cycle_worklist>>
    PROVE  CountInv'
<1>1. TypeOK /\ Null \notin Object /\ y \in Object /\ y # Null
  BY HeapAssumption DEF BaseInv, TypeInv, TypeOK
<1>2. FieldTarget' = FieldTarget
  <2>1. \A o \in Object, f \in Field : Target(o, f)' = Target(o, f)
    BY DEF Target, HeldFields, OwnFields
  <2> QED BY <2>1, SameTargets
<1>3. Ledger(alive, rc', slot', FieldTarget)
  <2>1. \A p \in alive : rc'[p] = rc[p] - (IF p = slot[t] THEN 1 ELSE 0)
                                        + (IF p = slot'[t] THEN 1 ELSE 0)
    BY <1>1 DEF TypeOK
  <2> QED BY <2>1, LedgerSlot DEF CountInv
<1>4. Dying' = Dying /\ QueueOK' /\ DownOK'
  BY DEF Dying, Queue, CountInv, QueueOK, DownOK, DownPCs
<1>5. \A p \in Dying : p \in Object /\ rc[p] = 0
  BY <1>1, DyingAlive DEF CountInv, TypeOK
<1>6. \A p \in Dying' : rc'[p] = 0
  BY <1>4, <1>5
<1> QED BY <1>2, <1>3, <1>4, <1>6 DEF CountInv, Ledger

LEMMA ShareCount ==
    ASSUME BaseInv, CountInv, NEW s \in Slot, NEW t \in Stack, Share(s, t)
    PROVE  CountInv'
<1> USE DEF control, release_lists, flag_vars
<1>1. t \in Slot /\ NoDangling /\ pc = "mutator" /\ slot[s] # Null /\ slot[t] = Null
  BY DEF Stack, Share, At
<1>2. slot[s] \in alive /\ rc[slot[s]] \in Nat \ {0}
  BY <1>1, HeldNotDying
<1>3. slot' \in [Slot -> alive \cup {Null}] /\ slot'[t] = slot[s]
        /\ \A u \in Slot : u # t => slot'[u] = slot[u]
  BY <1>1, <1>2 DEF Share, CountInv, Ledger
<1>4. rc' \in [Object -> Int] /\ rc'[slot[s]] = rc[slot[s]] + 1
        /\ \A p \in Object : p # slot[s] => rc'[p] = rc[p]
  BY <1>2 DEF Share, CountInv, Ledger
<1>5. pc' = pc /\ UNCHANGED <<alive, value, waiting_remove, children_released,
                       releasing_worklist, releasing_waitlist, lost_cycle_worklist>>
  BY DEF Share
<1> QED BY <1>1, <1>2, <1>3, <1>4, <1>5, CopyCount

LEMMA LoadCount ==
    ASSUME BaseInv, CountInv, NEW s \in Slot, NEW t \in Stack, NEW f \in Field, Load(s, f, t)
    PROVE  CountInv'
<1> USE DEF control, release_lists, flag_vars
<1> DEFINE x == slot[s]
           y == value[x][f]
<1>1. /\ t \in Slot /\ NoDangling /\ pc = "mutator" /\ x # Null /\ slot[t] = Null
      /\ f \in OwnFields(x) /\ x \in Object
  BY DEF Stack, Load, At, BaseInv, TypeInv, TypeOK, Ref
<1>2. x \in alive /\ Target(x, f) = y /\ y # Null
  BY <1>1 DEF NoDangling, Target, HeldFields, OwnFields
<1>3. y \in alive /\ rc[y] \in Nat \ {0}
  BY <1>1, <1>2, HeldNotDying
<1>4. slot' \in [Slot -> alive \cup {Null}] /\ slot'[t] = y
        /\ \A u \in Slot : u # t => slot'[u] = slot[u]
  BY <1>1, <1>3 DEF Load, CountInv, Ledger
<1>5. rc' \in [Object -> Int] /\ rc'[y] = rc[y] + 1
        /\ \A p \in Object : p # y => rc'[p] = rc[p]
  BY <1>3 DEF Load, CountInv, Ledger
<1>6. pc' = pc /\ UNCHANGED <<alive, value, waiting_remove, children_released,
                       releasing_worklist, releasing_waitlist, lost_cycle_worklist>>
  BY DEF Load
<1> HIDE DEF x, y
<1> QED BY <1>1, <1>3, <1>4, <1>5, <1>6, CopyCount

\* The reference of a variable is handed over to a global.
LEMMA StoreGlobalCount ==
    ASSUME BaseInv, CountInv, NEW s \in Stack, NEW g \in Global, StoreGlobal(s, g)
    PROVE  CountInv'
<1> USE DEF control, release_lists, flag_vars, header_vars
<1> DEFINE x == slot[s]
           h == [slot EXCEPT ![s] = Null]
           q == [o \in Object |-> rc[o] - (IF o = x THEN 1 ELSE 0)]
<1>1. s \in Slot /\ g \in Slot /\ Null \notin Object
  BY HeapAssumption DEF Stack
<1>2. TypeOK /\ NoDangling /\ pc = "mutator" /\ pc' = "mutator" /\ x # Null /\ slot[g] = Null /\ s # g
  BY DEF StoreGlobal, At, BaseInv, TypeInv
<1>3. x \in alive /\ x \in Object
  BY <1>1, <1>2, HeldNotDying DEF TypeOK
<1>4. FieldTarget' = FieldTarget
  <2>1. \A o \in Object, f \in Field : Target(o, f)' = Target(o, f)
    BY <1>2 DEF StoreGlobal, Target, HeldFields, OwnFields
  <2> QED BY <2>1, SameTargets
<1>5. Ledger(alive, q, h, FieldTarget)
  <2>1. h[s] = Null /\ \A t \in Slot : t # s => h[t] = slot[t]
    BY <1>1, <1>2 DEF TypeOK
  <2>2. h \in [Slot -> alive \cup {Null}] /\ q \in [Object -> Int]
    BY <1>1, <1>2 DEF CountInv, Ledger, TypeOK
  <2>3. \A p \in alive : q[p] = rc[p] - (IF p = slot[s] THEN 1 ELSE 0) + (IF p = h[s] THEN 1 ELSE 0)
    BY <1>1, <1>2, <2>1 DEF TypeOK
  <2> HIDE DEF h, q
  <2> QED BY <1>1, <2>1, <2>2, <2>3, LedgerSlot DEF CountInv
<1>6. Ledger(alive, rc, slot', FieldTarget)
  <2>1. slot' = [h EXCEPT ![g] = x]
    BY <1>1, <1>2 DEF StoreGlobal, TypeOK
  <2>2. slot'[g] = x /\ h[g] = Null /\ \A t \in Slot : t # g => slot'[t] = h[t]
    BY <1>1, <1>2, <2>1 DEF TypeOK
  <2>3. slot' \in [Slot -> alive \cup {Null}] /\ rc \in [Object -> Int]
    BY <1>1, <1>2, <1>3, <2>1 DEF CountInv, Ledger, TypeOK
  <2>4. \A p \in alive : rc[p] = q[p] - (IF p = h[g] THEN 1 ELSE 0) + (IF p = slot'[g] THEN 1 ELSE 0)
    BY <1>1, <1>2, <1>3, <2>2 DEF TypeOK
  <2> HIDE DEF h, q
  <2> QED BY <1>1, <1>5, <2>2, <2>3, <2>4, LedgerSlot
<1>7. Dying' = Dying /\ QueueOK' /\ DownOK' /\ alive' = alive /\ rc' = rc
  BY <1>2 DEF StoreGlobal, Dying, Queue, CountInv, QueueOK, DownOK, DownPCs
<1> QED BY <1>4, <1>6, <1>7 DEF CountInv, Ledger

\* set(x, f, v): the field gives up its old reference and takes the one of v.
LEMMA AssignCount ==
    ASSUME BaseInv, CountInv, NEW s \in Slot, NEW f \in Field, NEW ref \in Slot,
           NEW v \in Ref, v # Null => slot[ref] = v,
           NEW live \in BOOLEAN, NEW owned, Assign(s, f, v, ref, live, owned)
    PROVE  CountInv'
<1> USE DEF control, release_lists, flag_vars
<1>1. PICK x, old : x = slot[s] /\ old = value[x][f]
  OBVIOUS
<1> DEFINE e  == <<x, f>>
           q1 == [o \in Object |-> rc[o] - (IF o = old THEN 1 ELSE 0) + (IF o = v THEN 1 ELSE 0)]
<1>2. /\ TypeOK /\ NoDangling /\ pc = "mutator" /\ pc' = "mutator" /\ x # Null /\ f \in Refs[x]
      /\ value' = [value EXCEPT ![x][f] = v]
      /\ rc' = CountAfterSet(old, v, live)
      /\ alive' = AliveAfterDecr(old)
      /\ releasing_waitlist' = WaitlistAfterDecr(old)
      /\ slot' = IF v # Null /\ ~live THEN [slot EXCEPT ![ref] = Null] ELSE slot
      /\ UNCHANGED <<waiting_remove, children_released, releasing_worklist, lost_cycle_worklist>>
      /\ Null \notin Object
  BY <1>1, HeapAssumption DEF Assign, At, BaseInv, TypeInv
<1>3. x \in alive /\ x \in Object /\ old \in Ref /\ e \in Place
  BY <1>1, <1>2 DEF NoDangling, TypeOK, Ref, Place
<1>4. Target(x, f) = old /\ FieldTarget[e] = old
  <2>1. Target(x, f) = old
    BY <1>1, <1>2, <1>3 DEF NoDangling, Target, HeldFields, OwnFields
  <2> QED BY <1>3, <2>1, TargetAt
<1>5. v # Null => v \in alive /\ v \in Object /\ rc[v] \in Nat \ {0} /\ v \notin Dying
  BY <1>2, HeldNotDying DEF TypeOK
<1>6. old # Null => old \in alive /\ old \in Object /\ rc[old] \in Nat \ {0} /\ old \notin Dying
  BY <1>2, <1>3, <1>4, HeldNotDying DEF TypeOK
<1>7. ASSUME old # Null, old = v
      PROVE  rc[old] >= 2
  <2>1. old \in alive /\ slot[ref] = old
    BY <1>6, <1>7
  <2> QED BY <1>3, <1>4, <2>1, LedgerHeld DEF CountInv
<1>8. x \in alive'
  <2>1. Layout[x] # "MonoImm"
    BY <1>2, <1>3, HeaderAssumption
  <2> QED BY <1>2, <1>3, <2>1 DEF AliveAfterDecr
<1>9. /\ FieldTarget'[e] = v
      /\ \A d \in Place : d # e => FieldTarget'[d] = FieldTarget[d]
  <2>1. Target(x, f)' = v
    <3>1. value'[x][f] = v
      BY <1>2, <1>3 DEF TypeOK
    <3>2. HeldFields(x)' = OwnFields(x)'
      BY <1>1, <1>2 DEF HeldFields, NoDangling
    <3>3. f \in OwnFields(x)' <=> v # Null
      BY <1>2, <3>1 DEF OwnFields
    <3> QED BY <1>8, <3>1, <3>2, <3>3 DEF Target
  <2>2. ASSUME NEW p \in Object, NEW g \in Field, <<p, g>> # e
        PROVE  Target(p, g)' = Target(p, g)
    <3>1. value'[p][g] = value[p][g]
      BY <1>2, <1>3, <2>2 DEF TypeOK
    <3>2. pc' = pc /\ pc \notin DownPCs
      BY <1>2 DEF DownPCs
    <3> QED BY <1>2, <1>3, <3>1, <3>2, DecrTargets
  <2>3. \A d \in Place : d = <<d[1], d[2]>> /\ d[1] \in Object /\ d[2] \in Field
    BY DEF Place
  <2> QED BY <1>3, <2>1, <2>2, <2>3 DEF FieldTarget
<1>10. Ledger(alive, q1, slot, FieldTarget')
  <2>1. FieldTarget' \in [Place -> alive \cup {Null}]
    <3>1. FieldTarget' = [d \in Place |-> FieldTarget'[d]]
      BY DEF FieldTarget
    <3>2. \A d \in Place : FieldTarget'[d] \in alive \cup {Null}
      BY <1>5, <1>9 DEF CountInv, Ledger
    <3> QED BY <3>1, <3>2
  <2>2. q1 \in [Object -> Int]
    BY <1>2 DEF TypeOK
  <2>3. \A o \in alive : q1[o] = rc[o] - (IF o = FieldTarget[e] THEN 1 ELSE 0)
                                       + (IF o = FieldTarget'[e] THEN 1 ELSE 0)
    BY <1>2, <1>4, <1>9 DEF TypeOK
  <2>4. Ledger(alive, rc, slot, FieldTarget)
    BY DEF CountInv
  <2> HIDE DEF q1, e
  <2> QED BY <1>3, <1>9, <2>1, <2>2, <2>3, <2>4, LedgerField
<1>11. rc' \in [Object -> Int] /\ \A o \in Object :
          rc'[o] = rc[o] - (IF o = old THEN 1 ELSE 0) + (IF o = v /\ live THEN 1 ELSE 0)
  BY <1>2 DEF CountAfterSet, TypeOK
<1>12. Ledger(alive, rc', slot', FieldTarget')
  <2>1. CASE v # Null /\ ~live
    <3>1. slot' = [slot EXCEPT ![ref] = Null] /\ slot[ref] = v
      BY <1>2, <2>1
    <3>2. slot'[ref] = Null /\ \A t \in Slot : t # ref => slot'[t] = slot[t]
      BY <1>2, <3>1 DEF TypeOK
    <3>3. slot' \in [Slot -> alive \cup {Null}]
      BY <3>1, <1>10 DEF Ledger
    <3>4. \A o \in alive : rc'[o] = q1[o] - (IF o = slot[ref] THEN 1 ELSE 0)
                                          + (IF o = slot'[ref] THEN 1 ELSE 0)
      <4>1. ASSUME NEW o \in alive
            PROVE  rc'[o] = q1[o] - (IF o = slot[ref] THEN 1 ELSE 0)
                                  + (IF o = slot'[ref] THEN 1 ELSE 0)
        <5>1. o \in Object /\ o # Null /\ rc[o] \in Int
          BY <1>2 DEF TypeOK
        <5>2. rc'[o] = rc[o] - (IF o = old THEN 1 ELSE 0)
          BY <1>11, <2>1, <5>1
        <5>3. q1[o] = rc[o] - (IF o = old THEN 1 ELSE 0) + (IF o = v THEN 1 ELSE 0)
          BY <5>1
        <5> QED BY <2>1, <3>1, <3>2, <5>1, <5>2, <5>3
      <4> QED BY <4>1
    <3> HIDE DEF q1
    <3> QED BY <1>10, <1>11, <3>2, <3>3, <3>4, LedgerSlot
  <2>2. CASE ~(v # Null /\ ~live)
    <3>1. slot' = slot
      BY <1>2, <2>2
    <3>2. \A o \in alive : rc'[o] = q1[o]
      BY <1>2, <1>11, <2>2 DEF TypeOK
    <3> QED BY <1>10, <1>11, <3>1, <3>2 DEF Ledger
  <2> QED BY <2>1, <2>2
<1>13. ReachesZero(old) => old \in alive /\ old \in Object /\ old # v /\ rc'[old] = 0
  <2>1. ASSUME ReachesZero(old)
        PROVE  old \in alive /\ old \in Object /\ old # v /\ rc'[old] = 0
    <3>1. old # Null /\ rc[old] = 1 /\ old \in alive /\ old \in Object
      BY <1>6, <2>1 DEF ReachesZero
    <3>2. old # v
      BY <1>7, <3>1
    <3> QED BY <1>11, <3>1, <3>2
  <2> QED BY <2>1
<1>14. Ledger(alive', rc', slot', FieldTarget')
  BY <1>2, <1>3, <1>12, <1>13, DecrFree
<1>15. QueueOK' /\ DownOK' /\ Dying' \subseteq Dying \cup {o \in Object : o = old /\ ReachesZero(o)}
  <2>1. pc' = pc /\ pc \notin DownPCs /\ old \notin Dying
    <3>1. Dying \subseteq alive
      BY <1>2, DyingAlive
    <3> QED BY <1>2, <1>6, <3>1 DEF DownPCs, TypeOK
  <2> QED BY <1>2, <1>3, <2>1, DecrQueue
<1>16. \A p \in Dying' : rc'[p] = 0
  <2>1. \A p \in Dying : p \in Object /\ p # v /\ p # old /\ rc[p] = 0
    <3>1. Dying \subseteq alive
      BY <1>2, DyingAlive
    <3> QED BY <1>2, <1>5, <1>6, <3>1 DEF CountInv, TypeOK
  <2> QED BY <1>11, <1>13, <1>15, <2>1
<1> QED BY <1>14, <1>15, <1>16 DEF CountInv

\* Every operation of the program keeps the counts.
LEMMA MutatorCount ==
    ASSUME BaseInv, CountInv, Mutator
    PROVE  CountInv'
<1>0. Stack \subseteq Slot
  BY DEF Stack
<1>1. ASSUME NEW s \in Slot, NEW t \in Stack, NEW f \in Field, NEW live \in BOOLEAN,
             NEW owned \in BOOLEAN, Store(s, f, t, live, owned)
      PROVE  CountInv'
  <2>1. slot[t] \in Ref
    BY <1>0 DEF BaseInv, TypeInv, TypeOK
  <2> QED BY <1>0, <1>1, <2>1, AssignCount DEF Store
<1>2. ASSUME NEW s \in Slot, NEW f \in Field, StoreConstant(s, f)
      PROVE  CountInv'
  BY <1>2, AssignCount DEF StoreConstant, Ref
<1>3. CASE GcCycle
  <2>1. pc \notin DownPCs /\ pc' \notin DownPCs
    BY <1>3 DEF GcCycle, At, DownPCs
  <2> QED BY <1>3, <2>1, QuietStep DEF GcCycle, header_vars, flag_vars, release_lists
<1> QED BY <1>1, <1>2, <1>3, AllocCount, ReleaseCount, ShareCount, LoadCount, StoreGlobalCount
        DEF Mutator

-----------------------------------------------------------------------------
(***************************************************************************)
(* The machines keep the counts                                            *)
(***************************************************************************)

\* A loop over the children gives up one reference, and frees its target at
\* once if it is a leaf and this was the last one.
LEMMA GiveUpLedger ==
    ASSUME BaseInv, CountInv, NoDangling, pc \in DownPCs, UNCHANGED <<pc, walk_obj, slot>>,
           NEW f \in Field, f \in walk_todo, walk_todo' = walk_todo \ {f},
           NEW w, w = walk_obj, NEW c, c = value[walk_obj][f], rc' \in [Object -> Int],
           \A p \in Object : rc'[p] = IF p = c THEN rc[p] - 1 ELSE rc[p],
           \/ UNCHANGED <<alive, value, children_released, waiting_remove>>
           \/ rc[c] = 1 /\ Layout[c] = "MonoImm" /\ FreeReleasedObject(c)
    PROVE  /\ c \in Object /\ c \notin Dying
           /\ rc' \in [Object -> Int] /\ rc'[c] = rc[c] - 1 /\ rc[c] \in Nat \ {0}
           /\ \A p \in Object : p # c => rc'[p] = rc[p]
           /\ Ledger(alive, rc, slot, FieldTarget)'
           /\ DownOK'
           /\ waiting_remove' \subseteq waiting_remove \cup {p \in Object : p = c /\ rc[p] = 1}
<1> DEFINE Kept == UNCHANGED <<alive, value, children_released, waiting_remove>>
           Leaf == rc[c] = 1 /\ Layout[c] = "MonoImm" /\ FreeReleasedObject(c)
           e    == <<w, f>>
<1>1. TypeOK /\ Null \notin Object /\ pc \in WalkPCs \ {"roots"}
  BY HeapAssumption DEF BaseInv, TypeInv, DownPCs, WalkPCs
<1>2. w \in Object /\ w \in alive /\ c \in Object /\ c # Null /\ e \in Place
  <2>1. w \in Object /\ c \in Object
    BY <1>1, ChildIsObject DEF BaseInv
  <2> QED BY <1>1, <2>1 DEF NoDangling, Place
<1>3. HeldFields(w) = walk_todo /\ Target(w, f) = c /\ FieldTarget[e] = c
  <2>1. HeldFields(w) = walk_todo
    BY DEF HeldFields, DownPCs
  <2>2. Target(w, f) = c
    BY <1>2, <2>1 DEF Target
  <2> QED BY <1>2, <2>1, <2>2, TargetAt
<1>4. c \in alive /\ rc[c] \in Nat \ {0} /\ c \notin Dying
  BY <1>2, <1>3, HeldNotDying
<1>5. rc' \in [Object -> Int] /\ rc'[c] = rc[c] - 1 /\ \A p \in Object : p # c => rc'[p] = rc[p]
  BY <1>1, <1>2 DEF TypeOK
<1>6. Leaf => c # w /\ HeldFields(c) = {}
  <2>1. Leaf => HeldFields(c) = {}
    BY <1>2, LeafHolds DEF CountInv
  <2> QED BY <1>3, <2>1
<1>7. /\ \A p \in Object : p # c => (p \in alive' <=> p \in alive) /\ value'[p] = value[p]
      /\ \A p \in Object : p # c => /\ p \in children_released' <=> p \in children_released
                                    /\ p \in waiting_remove' <=> p \in waiting_remove
      /\ Leaf \/ Kept
      /\ Leaf => c \notin alive' \/ c \in waiting_remove'
      /\ alive' = alive \/ (alive' = alive \ {c} /\ rc[c] = 1)
      /\ waiting_remove' \subseteq waiting_remove \cup {p \in Object : p = c /\ rc[p] = 1}
  <2>1. CASE ~Leaf
    BY <2>1
  <2>2. CASE Leaf /\ DeferFree(c)
    BY <1>2, <2>2 DEF FreeReleasedObject
  <2>3. CASE Leaf /\ ~DeferFree(c)
    BY <1>1, <1>2, <2>3 DEF FreeReleasedObject, FreeCell, TypeOK
  <2> QED BY <2>1, <2>2, <2>3
<1>8. ASSUME NEW p \in Object, NEW g \in Field
      PROVE  Target(p, g)' = IF p = w /\ g = f THEN Null ELSE Target(p, g)
  <2>1. CASE p = w
    <3>1. HeldFields(w)' = walk_todo \ {f}
      BY DEF HeldFields, DownPCs
    <3>2. w \in alive' /\ value'[w] = value[w]
      BY <1>2, <1>6, <1>7
    <3> QED BY <1>2, <1>3, <2>1, <3>1, <3>2 DEF Target
  <2>2. CASE p # w /\ p # c
    <3>1. value'[p] = value[p]
      BY <1>7, <2>2
    <3>2. HeldFields(p)' = HeldFields(p)
      BY <1>7, <2>2, <3>1 DEF HeldFields, OwnFields
    <3> QED BY <1>7, <2>2, <3>1, <3>2 DEF Target
  <2>3. CASE p # w /\ p = c /\ Leaf
    <3>1. Target(c, g) = Null
      BY <1>6, <2>3 DEF Target
    <3>2. c \in alive' => HeldFields(c)' = {}
      BY <1>7, <2>3 DEF HeldFields
    <3> QED BY <2>3, <3>1, <3>2 DEF Target
  <2>4. CASE p # w /\ p = c /\ Kept
    BY <2>4 DEF Target, HeldFields, OwnFields
  <2> QED BY <1>7, <2>1, <2>2, <2>3, <2>4
<1>9. /\ FieldTarget'[e] = Null
      /\ \A d \in Place : d # e => FieldTarget'[d] = FieldTarget[d]
  <2>1. \A d \in Place : d = <<d[1], d[2]>> /\ d[1] \in Object /\ d[2] \in Field
    BY DEF Place
  <2> QED BY <1>2, <1>8, <2>1 DEF FieldTarget
<1>10. Ledger(alive, rc', slot, FieldTarget')
  <2>1. FieldTarget' \in [Place -> alive \cup {Null}]
    <3>1. FieldTarget' = [d \in Place |-> FieldTarget'[d]]
      BY DEF FieldTarget
    <3>2. \A d \in Place : FieldTarget'[d] \in alive \cup {Null}
      BY <1>9 DEF CountInv, Ledger
    <3> QED BY <3>1, <3>2
  <2>2. \A o \in alive : rc'[o] = rc[o] - (IF o = FieldTarget[e] THEN 1 ELSE 0)
                                       + (IF o = FieldTarget'[e] THEN 1 ELSE 0)
    BY <1>1, <1>3, <1>4, <1>5, <1>9 DEF TypeOK
  <2>3. Ledger(alive, rc, slot, FieldTarget)
    BY DEF CountInv
  <2> HIDE DEF e
  <2> QED BY <1>2, <1>5, <1>9, <2>1, <2>2, <2>3, LedgerField
<1>11. Ledger(alive', rc', slot', FieldTarget')
  <2>1. CASE alive' = alive
    BY <1>10, <2>1
  <2>2. CASE alive' = alive \ {c} /\ rc[c] = 1
    <3>1. rc'[c] = 0
      BY <1>5, <2>2
    <3>2. Ledger(alive \ {c}, rc', slot, FieldTarget')
      BY <1>4, <1>10, <3>1, LedgerFree
    <3> QED BY <2>2, <3>2
  <2> QED BY <1>7, <2>1, <2>2
<1>12. DownOK'
  <2>1. walk_todo \subseteq OwnFields(w)
    BY DEF CountInv, DownOK
  <2>2. value'[w] = value[w] /\ (w \in children_released' <=> w \in children_released)
    BY <1>2, <1>6, <1>7
  <2> QED BY <2>1, <2>2 DEF CountInv, DownOK, OwnFields
<1> QED BY <1>2, <1>4, <1>5, <1>7, <1>11, <1>12

\* child_release_object: the releasing machine gives up one reference.
LEMMA ReleaseChildCount ==
    ASSUME BaseInv, CountInv, NEW f \in Field, ReleaseChild(f)
    PROVE  CountInv'
<1> USE DEF free_vars
<1>1. PICK w, c : w = walk_obj /\ c = value[walk_obj][f]
  OBVIOUS
<1>2. /\ TypeOK /\ NoDangling /\ pc = "release_children" /\ pc \in DownPCs /\ pc' = pc
      /\ UNCHANGED <<pc, walk_obj, slot, releasing_worklist, lost_cycle_worklist>>
      /\ f \in walk_todo /\ walk_todo' = walk_todo \ {f}
  BY <1>1 DEF ReleaseChild, At, IsLeast, DownPCs, BaseInv, TypeInv
<1>3. \/ UNCHANGED <<alive, value, children_released, waiting_remove>>
      \/ rc[c] = 1 /\ Layout[c] = "MonoImm" /\ FreeReleasedObject(c)
  BY <1>1 DEF ReleaseChild
<1>rc. /\ rc' \in [Object -> Int]
       /\ \A p \in Object : rc'[p] = IF p = c THEN rc[p] - 1 ELSE rc[p]
  <2>1. rc' = [rc EXCEPT ![c] = rc[c] - 1] /\ rc \in [Object -> Int]
    BY <1>1, <1>2 DEF ReleaseChild, TypeOK
  <2>2. c \in Object
    BY <1>1, <1>2, ChildIsObject DEF BaseInv, DownPCs, WalkPCs
  <2> QED BY <2>1, <2>2
<1>4. /\ c \in Object /\ c \notin Dying
      /\ rc' \in [Object -> Int] /\ rc'[c] = rc[c] - 1 /\ rc[c] \in Nat \ {0}
      /\ \A p \in Object : p # c => rc'[p] = rc[p]
      /\ Ledger(alive, rc, slot, FieldTarget)'
      /\ DownOK'
      /\ waiting_remove' \subseteq waiting_remove \cup {p \in Object : p = c /\ rc[p] = 1}
  BY <1>1, <1>2, <1>3, <1>rc, GiveUpLedger
<1>5. \/ releasing_waitlist' = releasing_waitlist
      \/ /\ rc[c] = 1 /\ releasing_waitlist' = Append(releasing_waitlist, c)
         /\ waiting_remove' = waiting_remove
  BY <1>1 DEF ReleaseChild, WaitlistAfterDecr
<1>6. \A p \in Dying : p \in Object /\ p # c /\ rc[p] = 0
  BY <1>2, <1>4, DyingAlive DEF CountInv, TypeOK
<1>7. QueueOK' /\ Dying' \subseteq Dying \cup {p \in Object : p = c /\ rc[p] = 1}
  <2>1. c # w /\ c \notin waiting_remove /\ c \notin ToSet(releasing_worklist)
        /\ c \notin ToSet(releasing_waitlist)
    BY <1>1, <1>2, <1>4 DEF Dying, Queue
  <2>2. CASE releasing_waitlist' = releasing_waitlist
    BY <1>1, <1>2, <1>4, <2>1, <2>2 DEF CountInv, QueueOK, Queue, Dying
  <2>3. CASE rc[c] = 1 /\ releasing_waitlist' = Append(releasing_waitlist, c)
             /\ waiting_remove' = waiting_remove
    <3>1. releasing_waitlist \in Seq(Object)
      BY <1>2 DEF TypeOK
    <3>2. ToSet(releasing_waitlist') = ToSet(releasing_waitlist) \cup {c} /\ IsInjective(releasing_waitlist')
      BY <1>4, <2>1, <2>3, <3>1, AppendSet DEF CountInv, QueueOK
    <3> QED BY <1>1, <1>2, <1>4, <2>1, <2>3, <3>2 DEF CountInv, QueueOK, Queue, Dying
  <2> QED BY <1>5, <2>2, <2>3
<1>8. \A p \in Dying' : rc'[p] = 0
  BY <1>4, <1>6, <1>7
<1> QED BY <1>4, <1>7, <1>8 DEF CountInv

\* lost_cycle_child_decr: the lost-cycle collector gives up one reference.
LEMMA LostChildCount ==
    ASSUME BaseInv, CountInv, NEW f \in Field, LostCycleChildDecr(f)
    PROVE  CountInv'
<1> USE DEF free_vars, release_lists
<1>1. PICK w, c : w = walk_obj /\ c = value[walk_obj][f]
  OBVIOUS
<1>2. /\ TypeOK /\ NoDangling /\ pc \in {"scan_children", "lost_children"} /\ pc \in DownPCs
      /\ UNCHANGED <<pc, walk_obj, slot, releasing_worklist, releasing_waitlist>>
      /\ f \in walk_todo /\ walk_todo' = walk_todo \ {f}
  BY <1>1 DEF LostCycleChildDecr, At, IsLeast, DownPCs, BaseInv, TypeInv
<1>3. \/ UNCHANGED <<alive, value, children_released, waiting_remove>>
      \/ rc[c] = 1 /\ Layout[c] = "MonoImm" /\ FreeReleasedObject(c)
  BY <1>1 DEF LostCycleChildDecr
<1>rc. /\ rc' \in [Object -> Int]
       /\ \A p \in Object : rc'[p] = IF p = c THEN rc[p] - 1 ELSE rc[p]
  <2>1. rc' = [rc EXCEPT ![c] = rc[c] - 1] /\ rc \in [Object -> Int]
    BY <1>1, <1>2 DEF LostCycleChildDecr, TypeOK
  <2>2. c \in Object
    BY <1>1, <1>2, ChildIsObject DEF BaseInv, DownPCs, WalkPCs
  <2> QED BY <2>1, <2>2
<1>4. /\ c \in Object /\ c \notin Dying
      /\ rc' \in [Object -> Int] /\ rc'[c] = rc[c] - 1 /\ rc[c] \in Nat \ {0}
      /\ \A p \in Object : p # c => rc'[p] = rc[p]
      /\ Ledger(alive, rc, slot, FieldTarget)'
      /\ DownOK'
      /\ waiting_remove' \subseteq waiting_remove \cup {p \in Object : p = c /\ rc[p] = 1}
  BY <1>1, <1>2, <1>3, <1>rc, GiveUpLedger
<1>5. \/ lost_cycle_worklist' = lost_cycle_worklist
      \/ rc[c] = 1 /\ lost_cycle_worklist' = Append(lost_cycle_worklist, c)
  BY <1>1 DEF LostCycleChildDecr
<1>6. \A p \in Dying : p \in Object /\ p # c /\ rc[p] = 0
  BY <1>2, <1>4, DyingAlive DEF CountInv, TypeOK
<1>7. ToSet(lost_cycle_worklist') \subseteq
          ToSet(lost_cycle_worklist) \cup {p \in Object : p = c /\ rc[p] = 1}
  <2>1. lost_cycle_worklist \in Seq(Object)
    BY <1>2 DEF TypeOK
  <2>2. ToSet(Append(lost_cycle_worklist, c)) = ToSet(lost_cycle_worklist) \cup {c}
    BY <1>4, <2>1, AppendSet
  <2> QED BY <1>4, <1>5, <2>2
<1>8. QueueOK' /\ Dying' \subseteq Dying \cup {p \in Object : p = c /\ rc[p] = 1}
  <2>1. c \notin Queue
    BY <1>4 DEF Dying
  <2> QED BY <1>2, <1>4, <1>7, <2>1 DEF CountInv, QueueOK, Queue, Dying
<1>9. \A p \in Dying' : rc'[p] = 0
  BY <1>4, <1>6, <1>8
<1> QED BY <1>4, <1>8, <1>9 DEF CountInv

\* An object that holds nothing and that nothing refers to is freed, or handed
\* over to the tracer.
LEMMA FreeLedgerStep ==
    ASSUME BaseInv, CountInv, NEW o, o \in alive, rc[o] = 0, HeldFields(o) = {},
           pc \in DownPCs => walk_obj = o, pc' \notin DownPCs, UNCHANGED <<rc, slot>>,
           FreeReleasedObject(o) \/ FreeCell(o)
    PROVE  /\ Ledger(alive, rc, slot, FieldTarget)'
           /\ DownOK'
           /\ waiting_remove' \subseteq waiting_remove \cup {o}
<1>1. TypeOK /\ o \in Object
  BY DEF BaseInv, TypeInv, TypeOK
<1>2. /\ \A p \in Object : p # o => (p \in alive' <=> p \in alive) /\ value'[p] = value[p]
      /\ \A p \in Object : p # o => /\ p \in children_released' <=> p \in children_released
                                    /\ p \in waiting_remove' <=> p \in waiting_remove
      /\ o \notin alive' \/ o \in waiting_remove'
      /\ alive' = alive \/ alive' = alive \ {o}
      /\ waiting_remove' \subseteq waiting_remove \cup {o}
  <2>1. CASE FreeCell(o)
    BY <1>1, <2>1 DEF FreeCell, TypeOK
  <2>2. CASE FreeReleasedObject(o) /\ DeferFree(o)
    BY <1>1, <2>2 DEF FreeReleasedObject
  <2>3. CASE FreeReleasedObject(o) /\ ~DeferFree(o)
    BY <2>1, <2>3 DEF FreeReleasedObject
  <2> QED BY <2>1, <2>2, <2>3
<1>3. ASSUME NEW p \in Object, NEW f \in Field
      PROVE  Target(p, f)' = Target(p, f)
  <2>1. CASE p = o
    <3>1. o \in alive' => HeldFields(o)' = {}
      BY <1>2 DEF HeldFields, DownPCs
    <3> QED BY <2>1, <3>1 DEF Target
  <2>2. CASE p # o
    <3>1. HeldFields(p)' = HeldFields(p) /\ value'[p] = value[p]
      BY <1>2, <2>2 DEF HeldFields, OwnFields, DownPCs
    <3> QED BY <1>2, <2>2, <3>1 DEF Target
  <2> QED BY <2>1, <2>2
<1>4. FieldTarget' = FieldTarget
  BY <1>3, SameTargets
<1>5. Ledger(alive', rc, slot, FieldTarget)
  <2>1. Ledger(alive \ {o}, rc, slot, FieldTarget)
    BY LedgerFree DEF CountInv
  <2> QED BY <1>2, <2>1 DEF CountInv
<1>6. DownOK'
  BY DEF DownOK, DownPCs
<1> QED BY <1>2, <1>4, <1>5, <1>6

\* Once its children are given up, the object is freed: by the releasing
\* machine, or by the tracer when it waited for it.
LEMMA FreeStep ==
    ASSUME BaseInv, CountInv, NEW o, o \in alive, o \in Dying, HeldFields(o) = {},
           o \notin Queue \/ waiting_remove' \subseteq waiting_remove,
           pc \in DownPCs => walk_obj = o, pc' \notin DownPCs,
           UNCHANGED <<rc, slot, releasing_worklist, releasing_waitlist, lost_cycle_worklist>>,
           FreeReleasedObject(o) \/ FreeCell(o)
    PROVE  CountInv'
<1>1. rc[o] = 0
  BY DEF CountInv
<1>2. /\ Ledger(alive, rc, slot, FieldTarget)'
      /\ DownOK'
      /\ waiting_remove' \subseteq waiting_remove \cup {o}
  BY <1>1, FreeLedgerStep
<1>3. QueueOK' /\ Dying' \subseteq Dying
  BY <1>2 DEF CountInv, QueueOK, Queue, Dying, DownPCs
<1>4. \A p \in Dying' : rc'[p] = 0
  BY <1>3 DEF CountInv
<1> QED BY <1>2, <1>3, <1>4 DEF CountInv

\* set_releasing_working: the waitlist becomes the worklist.
LEMMA SetReleasingCount ==
    ASSUME BaseInv, CountInv, SetReleasingWorking
    PROVE  CountInv'
<1> USE DEF control, flag_vars, header_vars
<1>1. pc = "releasing" /\ pc' = "releasing" /\ ToSet(<<>>) = {} /\ IsInjective(<<>>)
  BY DEF SetReleasingWorking, At, ToSet, IsInjective
<1>2. FieldTarget' = FieldTarget
  <2>1. \A o \in Object, f \in Field : Target(o, f)' = Target(o, f)
    BY <1>1 DEF SetReleasingWorking, Target, HeldFields, OwnFields
  <2> QED BY <2>1, SameTargets
<1>3. QueueOK' /\ DownOK' /\ Dying' \subseteq Dying
  BY <1>1 DEF SetReleasingWorking, CountInv, QueueOK, DownOK, Queue, Dying, DownPCs
<1>4. \A p \in Dying' : rc'[p] = 0
  BY <1>3 DEF CountInv, SetReleasingWorking
<1> QED BY <1>2, <1>3, <1>4 DEF CountInv, Ledger, SetReleasingWorking

\* gc_one_step_releasing takes an object whose references are all still held:
\* this is where an object torn down before would be released a second time.
LEMMA ReleasingPopCount ==
    ASSUME BaseInv, CountInv, TornNotQueued, ReleasingPop
    PROVE  CountInv'
<1> USE DEF control, flag_vars, header_vars
<1>1. PICK o : o = Last(releasing_worklist)
  OBVIOUS
<1>2. /\ TypeOK /\ pc = "releasing" /\ pc' = "release_children" /\ walk_obj' = o
      /\ walk_todo' = OwnFields(o) /\ releasing_worklist' = Front(releasing_worklist)
      /\ releasing_worklist \in Seq(Object) /\ releasing_worklist # <<>>
      /\ UNCHANGED <<alive, rc, value, slot, waiting_remove, children_released,
                     releasing_waitlist, lost_cycle_worklist>>
  BY <1>1 DEF ReleasingPop, At, BaseInv, TypeInv, TypeOK
<1>3. /\ ToSet(releasing_worklist') = ToSet(releasing_worklist) \ {o}
      /\ IsInjective(releasing_worklist') /\ o \in ToSet(releasing_worklist) /\ o \in Object
  <2>1. ToSet(Front(releasing_worklist)) = ToSet(releasing_worklist) \ {Last(releasing_worklist)}
        /\ IsInjective(Front(releasing_worklist))
    BY <1>2, PopOnce DEF CountInv, QueueOK
  <2>2. ToSet(releasing_worklist) = ToSet(Front(releasing_worklist)) \cup {Last(releasing_worklist)}
    BY <1>2, PopSet
  <2>3. Last(releasing_worklist) \in Object
    BY <1>2, PopObject
  <2> QED BY <1>1, <1>2, <2>1, <2>2, <2>3
<1>4. o \notin children_released /\ o \notin waiting_remove /\ o \notin Queue'
  BY <1>2, <1>3 DEF TornNotQueued, Queue, CountInv, QueueOK
<1>5. FieldTarget' = FieldTarget
  <2>1. ASSUME NEW p \in Object, NEW f \in Field
        PROVE  Target(p, f)' = Target(p, f)
    <3>1. HeldFields(p)' = HeldFields(p)
      BY <1>2, <1>4 DEF HeldFields, OwnFields
    <3> QED BY <1>2, <3>1 DEF Target
  <2> QED BY <2>1, SameTargets
<1>6. DownOK'
  BY <1>2 DEF DownOK, OwnFields, DownPCs
<1>7. QueueOK' /\ Dying' \subseteq Dying
  BY <1>2, <1>3, <1>4 DEF CountInv, QueueOK, Queue, Dying
<1>8. \A p \in Dying' : rc'[p] = 0
  BY <1>2, <1>7 DEF CountInv
<1> QED BY <1>2, <1>5, <1>6, <1>7, <1>8 DEF CountInv, Ledger

\* The end of gc_one_step_releasing.
LEMMA ReleasingFreeCount ==
    ASSUME BaseInv, CountInv, ReleasingFree
    PROVE  CountInv'
<1> USE DEF release_lists
<1>1. PICK w : w = walk_obj
  OBVIOUS
<1>2. /\ NoDangling /\ pc = "release_children" /\ pc' = "releasing" /\ walk_todo = {}
      /\ FreeReleasedObject(w) /\ TypeInv
      /\ UNCHANGED <<rc, slot, releasing_worklist, releasing_waitlist, lost_cycle_worklist>>
  BY <1>1 DEF ReleasingFree, At, BaseInv
<1>3. w \in alive /\ w \in Object
  BY <1>1, <1>2 DEF NoDangling, TypeInv, TypeOK, WalkOK
<1>4. w \in Dying /\ w \notin Queue /\ HeldFields(w) = {}
  BY <1>1, <1>2, <1>3 DEF Dying, HeldFields, CountInv, QueueOK
<1> QED BY <1>1, <1>2, <1>3, <1>4, FreeStep DEF DownPCs

\* The releasing machine keeps the counts.
LEMMA ReleasingCount ==
    ASSUME BaseInv, CountInv, TornNotQueued, ReleasingMachine
    PROVE  CountInv'
<1>1. CASE ReleasingReturn
  <2>1. pc \notin DownPCs /\ pc' \notin DownPCs
    BY <1>1 DEF ReleasingReturn, At, DownPCs
  <2> QED BY <1>1, <2>1, QuietStep DEF ReleasingReturn, header_vars, flag_vars, release_lists
<1> QED BY <1>1, SetReleasingCount, ReleasingPopCount, ReleaseChildCount, ReleasingFreeCount
        DEF ReleasingMachine

\* While the candidates are reclaimed no object is in the tracing worklist, so
\* none waits for the tracer and free_released_object frees at once.
LEMMA NoneTraced ==
    ASSUME BaseInv, tracing_state = "Reclaiming_Cyclic_Candidates"
    PROVE  tracing_flag = {} /\ waiting_remove = {}
  BY DEF BaseInv, FlagInv, TracingFlagExact, WaitingIsTraced, PhaseInv, TraceListsDrained, ToSet

\* gc_one_step_scan and gc_one_step_free_unreachable begin to give up the
\* references of an object, unless they did before.
LEMMA LostWalkCount ==
    ASSUME BaseInv, CountInv, pc = "tracing",
           tracing_state = "Reclaiming_Cyclic_Candidates",
           NEW o \in Object, LostCycleWalk(o),
           \/ pc' = "scan_children"
           \/ pc' = "lost_children" /\ o \in ToSet(lost_cycle_worklist),
           ToSet(lost_cycle_worklist') \subseteq ToSet(lost_cycle_worklist),
           UNCHANGED <<alive, rc, value, slot, waiting_remove,
                       releasing_worklist, releasing_waitlist>>
    PROVE  CountInv'
<1>1. /\ walk_obj' = o /\ waiting_remove = {}
      /\ walk_todo' = IF o \in children_released THEN {} ELSE OwnFields(o)
      /\ children_released' = children_released \cup {o}
  BY NoneTraced DEF LostCycleWalk
<1>2. FieldTarget' = FieldTarget
  <2>1. ASSUME NEW p \in Object, NEW f \in Field
        PROVE  Target(p, f)' = Target(p, f)
    <3>1. HeldFields(p)' = HeldFields(p)
      BY <1>1 DEF HeldFields, OwnFields
    <3> QED BY <3>1 DEF Target
  <2> QED BY <2>1, SameTargets
<1>3. DownOK'
  BY <1>1 DEF DownOK, OwnFields, DownPCs
<1>4. QueueOK' /\ Dying' \subseteq Dying
  BY <1>1 DEF CountInv, QueueOK, Queue, Dying
<1>5. \A p \in Dying' : rc'[p] = 0
  BY <1>4 DEF CountInv
<1> QED BY <1>2, <1>3, <1>4, <1>5 DEF CountInv, Ledger

LEMMA LostPopCount ==
    ASSUME BaseInv, CountInv, LostCyclePop
    PROVE  CountInv'
<1> USE DEF header_vars, release_lists
<1>1. PICK o : o = Last(lost_cycle_worklist)
  OBVIOUS
<1>2. /\ lost_cycle_worklist \in Seq(Object) /\ lost_cycle_worklist # <<>>
      /\ lost_cycle_worklist' = Front(lost_cycle_worklist)
      /\ pc = "tracing" /\ tracing_state = "Reclaiming_Cyclic_Candidates"
      /\ pc' = "lost_children" /\ LostCycleWalk(o)
      /\ UNCHANGED <<alive, rc, value, slot, waiting_remove,
                     releasing_worklist, releasing_waitlist>>
  BY <1>1 DEF LostCyclePop, Reclaiming, At, BaseInv, TypeInv, TypeOK
<1>3. o \in Object /\ o \in ToSet(lost_cycle_worklist)
      /\ ToSet(lost_cycle_worklist') \subseteq ToSet(lost_cycle_worklist)
  BY <1>1, <1>2, PopObject, PopSet
<1> QED BY <1>2, <1>3, LostWalkCount

\* The entry the scan looks at is an object.
LEMMA ScanEntry ==
    ASSUME BaseInv, ScanIndex # 0
    PROVE  /\ ScanIndex \in 1 .. Len(cyclic_candidates)
           /\ cyclic_candidates[ScanIndex] \in Object
           /\ cyclic_candidates[ScanIndex] \in ToSet(cyclic_candidates)
<1>1. cyclic_candidates \in Seq(Object) /\ current_candidate_check_index \in Nat
  BY DEF BaseInv, TypeInv, TypeOK
<1>2. Len(cyclic_candidates) \in Nat /\ DOMAIN cyclic_candidates = 1 .. Len(cyclic_candidates)
  BY <1>1, LenProperties
<1>3. ScanIndex \in 1 .. Len(cyclic_candidates)
  BY <1>1, <1>2 DEF ScanIndex
<1> QED BY <1>1, <1>2, <1>3, ElementOfSeq DEF ToSet

LEMMA ScanCount ==
    ASSUME BaseInv, CountInv, ScanUnmarked
    PROVE  CountInv'
<1> USE DEF header_vars, release_lists
<1>1. PICK o : o = cyclic_candidates[ScanIndex]
  OBVIOUS
<1>2. /\ ScanIndex # 0
      /\ pc = "tracing" /\ tracing_state = "Reclaiming_Cyclic_Candidates"
      /\ pc' = "scan_children" /\ LostCycleWalk(o)
      /\ UNCHANGED <<alive, rc, value, slot, waiting_remove,
                     releasing_worklist, releasing_waitlist, lost_cycle_worklist>>
  BY <1>1 DEF ScanUnmarked, Reclaiming, At
<1>3. o \in Object
  BY <1>1, <1>2, ScanEntry
<1> QED BY <1>2, <1>3, LostWalkCount

\* The end of gc_one_step_scan: the candidate is queued if nothing refers to it.
LEMMA ScanEnqueueCount ==
    ASSUME BaseInv, CountInv, ScanEnqueue
    PROVE  CountInv'
<1> USE DEF header_vars, release_lists, flag_vars
<1>1. PICK w : w = walk_obj
  OBVIOUS
<1>2. /\ pc = "scan_children" /\ pc' = "tracing" /\ walk_todo = {}
      /\ lost_cycle_worklist' = IF rc[w] = 0 THEN Append(lost_cycle_worklist, w)
                                ELSE lost_cycle_worklist
      /\ lost_cycle_worklist \in Seq(Object) /\ w \in Object /\ w \in children_released
      /\ UNCHANGED <<alive, rc, value, slot, waiting_remove, children_released,
                     releasing_worklist, releasing_waitlist>>
  BY <1>1 DEF ScanEnqueue, At, BaseInv, TypeInv, TypeOK, WalkOK, Ref, CountInv, DownOK
<1>3. FieldTarget' = FieldTarget
  <2>1. ASSUME NEW p \in Object, NEW f \in Field
        PROVE  Target(p, f)' = Target(p, f)
    <3>1. HeldFields(p)' = HeldFields(p)
      BY <1>1, <1>2 DEF HeldFields, OwnFields
    <3> QED BY <1>2, <3>1 DEF Target
  <2> QED BY <2>1, SameTargets
<1>4. DownOK'
  BY <1>2 DEF DownOK, DownPCs
<1>5. QueueOK' /\ Dying' \subseteq Dying \cup {p \in Object : p = w /\ rc[p] = 0}
  <2>1. ToSet(Append(lost_cycle_worklist, w)) = ToSet(lost_cycle_worklist) \cup {w}
    BY <1>2, AppendSet
  <2> QED BY <1>2, <2>1 DEF CountInv, QueueOK, Queue, Dying
<1>6. \A p \in Dying' : rc'[p] = 0
  BY <1>2, <1>5 DEF CountInv
<1> QED BY <1>2, <1>3, <1>4, <1>5, <1>6 DEF CountInv, Ledger

\* The end of gc_one_step_free_unreachable.
LEMMA LostFreeCount ==
    ASSUME BaseInv, CountInv, LostCycleFree
    PROVE  CountInv'
<1> USE DEF release_lists
<1>1. PICK w : w = walk_obj
  OBVIOUS
<1>2. /\ NoDangling /\ pc = "lost_children" /\ pc' = "tracing" /\ walk_todo = {}
      /\ FreeReleasedObject(w) /\ TypeInv /\ tracing_state = "Reclaiming_Cyclic_Candidates"
      /\ UNCHANGED <<rc, slot, releasing_worklist, releasing_waitlist, lost_cycle_worklist>>
  BY <1>1 DEF LostCycleFree, At, BaseInv, PhaseInv, PhaseOK
<1>3. w \in alive /\ w \in Object
  BY <1>1, <1>2 DEF NoDangling, TypeInv, TypeOK, WalkOK
<1>4. w \in Dying /\ HeldFields(w) = {}
  BY <1>1, <1>2, <1>3 DEF Dying, HeldFields
<1>5. waiting_remove' \subseteq waiting_remove
  BY <1>2, NoneTraced DEF FreeReleasedObject, DeferFree, FreeCell
<1> QED BY <1>1, <1>2, <1>3, <1>4, <1>5, FreeStep DEF DownPCs

\* gc_one_step_tracing and gc_one_step_prepare_tracing_mutations free an object
\* that waited for them.
LEMMA TracePopCount ==
    ASSUME BaseInv, CountInv, TracingPop \/ MutationPop
    PROVE  CountInv'
<1> USE DEF release_lists
<1>1. /\ NoDangling /\ pc = "tracing" /\ pc' \in {"trace_children", "mutation_children"}
      /\ UNCHANGED <<rc, slot, releasing_worklist, releasing_waitlist, lost_cycle_worklist>>
  BY DEF TracingPop, MutationPop, At
<1>2. PICK o : \/ UNCHANGED <<alive, value, children_released, waiting_remove>>
               \/ o \in waiting_remove /\ FreeCell(o)
  BY DEF TracingPop, MutationPop
<1>3. CASE UNCHANGED <<alive, value, children_released, waiting_remove>>
  BY <1>1, <1>3, QuietStep DEF DownPCs
<1>4. CASE o \in waiting_remove /\ FreeCell(o)
  <2>1. o \in Dying /\ o \in alive
    BY <1>1, <1>4, DyingAlive DEF Dying
  <2>2. HeldFields(o) = {} /\ waiting_remove' \subseteq waiting_remove
    BY <1>1, <1>4 DEF HeldFields, FreeCell
  <2> QED BY <1>1, <1>4, <2>1, <2>2, FreeStep DEF DownPCs
<1> QED BY <1>2, <1>3, <1>4

\* The tracing machine keeps the counts.
LEMMA TracingCount ==
    ASSUME BaseInv, CountInv, TracingMachine
    PROVE  CountInv'
<1> USE DEF header_vars, flag_vars, release_lists
<1> DEFINE Same == UNCHANGED <<alive, rc, value, slot, waiting_remove, children_released,
                       releasing_worklist, releasing_waitlist, lost_cycle_worklist>>
<1>1. CASE TracingReturn \/ StartTracing \/ RootsCollected \/ TracingStepped
             \/ MutationsDrained \/ MutationStepped \/ ReclaimingDone \/ ScanSkip
  <2>1. Same /\ pc \notin DownPCs /\ pc' \notin DownPCs
    BY <1>1 DEF TracingReturn, StartTracing, RootsCollected, TracingStepped, MutationsDrained,
                MutationStepped, ReclaimingDone, ScanSkip, Reclaiming, At, DownPCs, control
  <2> QED BY <2>1, QuietStep
<1>2. ASSUME NEW s \in Stack, PushRoot(s)
      PROVE  CountInv'
  <2>1. Same /\ pc \notin DownPCs /\ pc' \notin DownPCs
    BY <1>2 DEF PushRoot, At, DownPCs
  <2> QED BY <2>1, QuietStep
<1>3. ASSUME NEW f \in Field, TraceChild(f)
      PROVE  CountInv'
  <2>1. Same /\ pc \notin DownPCs /\ pc' \notin DownPCs
    BY <1>3 DEF TraceChild, At, DownPCs
  <2> QED BY <2>1, QuietStep
<1> QED BY <1>1, <1>2, <1>3, TracePopCount, LostPopCount, LostChildCount, LostFreeCount,
           ScanCount, ScanEnqueueCount DEF TracingMachine

\* A step that changes nothing.
LEMMA StutterCount ==
    ASSUME CountInv, UNCHANGED vars
    PROVE  CountInv'
<1> USE DEF vars, header_vars, flag_vars, release_lists, control
<1>1. \A o \in Object, f \in Field : Target(o, f)' = Target(o, f)
  BY DEF Target, HeldFields, OwnFields
<1>2. FieldTarget' = FieldTarget
  BY <1>1, SameTargets
<1>3. Ledger(alive, rc, slot, FieldTarget)' /\ Dying' = Dying
  BY <1>2 DEF CountInv, Ledger, Dying, Queue
<1>4. QueueOK' /\ DownOK'
  BY DEF CountInv, QueueOK, DownOK, Queue, OwnFields
<1> QED BY <1>3, <1>4 DEF CountInv

\* Every step from a state in which the two collectors share no object keeps
\* the counts.
LEMMA CountStep ==
    ASSUME BaseInv, CountInv, TornNotQueued, [Next]_vars
    PROVE  CountInv'
  BY MutatorCount, ReleasingCount, TracingCount, StutterCount DEF Next

LEMMA CountInit == Init => CountInv
<1> SUFFICES ASSUME Init
             PROVE  CountInv
  OBVIOUS
<1>1. Dying = {} /\ QueueOK /\ DownOK
  BY DEF Init, Dying, Queue, QueueOK, DownOK, DownPCs, ToSet, IsInjective
<1>2. FieldTarget = [e \in Place |-> Null]
  BY DEF Init, FieldTarget, Target
<1>3. Ledger(alive, rc, slot, FieldTarget)
  BY <1>2 DEF Init, Ledger
<1> QED BY <1>1, <1>3 DEF CountInv

LEMMA BaseInvariant == Spec => []BaseInv
  BY TypeInvariant, FlagInvariant, PhaseInvariant, PTL DEF BaseInv

\* The table of held references counts what Holders counts.
LEMMA LedgerIsExact ==
    ASSUME CountInv
    PROVE  RcExact
<1>1. ASSUME NEW o \in alive
      PROVE  rc[o] = Holders(o)
  <2>1. Ledger(alive, rc, slot, FieldTarget) /\ o # Null
    BY HeapAssumption DEF CountInv, Ledger
  <2>2. {d \in DOMAIN slot : slot[d] = o} = {s \in Slot : slot[s] = o}
    BY <2>1 DEF Ledger
  <2>3. {d \in DOMAIN FieldTarget : FieldTarget[d] = o} =
            {e \in alive \X Field : e[2] \in HeldFields(e[1]) /\ value[e[1]][e[2]] = o}
    <3>1. alive \subseteq Object
      BY <2>1 DEF Ledger
    <3> QED BY <2>1, <3>1 DEF FieldTarget, Target, Place
  <2> QED BY <2>1, <2>2, <2>3 DEF Ledger, CountOf, Holders
<1> QED BY <1>1 DEF RcExact

\* Nothing is queued for release twice.
LEMMA QueueIsOnce ==
    ASSUME BaseInv, CountInv
    PROVE  ReleasedOnce
<1>1. releasing_worklist \in Seq(Object) /\ releasing_waitlist \in Seq(Object)
  BY DEF BaseInv, TypeInv, TypeOK
<1>2. /\ IsInjective(releasing_worklist \o releasing_waitlist)
      /\ ToSet(releasing_worklist \o releasing_waitlist) = Queue
  BY <1>1, ConcatSet DEF CountInv, QueueOK, Queue
<1> QED BY <1>2 DEF ReleasedOnce, CountInv, Dying

\* The invariant behind the theorems below.
LEMMA CountInvariant == Spec /\ []TornNotQueued => []CountInv
<1>1. BaseInv /\ CountInv /\ TornNotQueued /\ [Next]_vars => CountInv'
  BY CountStep
<1> QED BY <1>1, CountInit, BaseInvariant, PTL DEF Spec

\* Reference counting is exact: at every step of the program and of both
\* collectors a count is the number of references that slots and fields hold, for
\* every heap, budget and threshold, as long as the releasing machine never takes
\* an object whose children the lost-cycle collector has released.
THEOREM CountingCorrect == Spec /\ []TornNotQueued => []RcExact
<1>1. CountInv => RcExact
  BY LedgerIsExact
<1> QED BY <1>1, CountInvariant, PTL

\* Under the same condition an object is queued for release at most once, and
\* only when nothing refers to it.
THEOREM ReleasedOnceCorrect == Spec /\ []TornNotQueued => []ReleasedOnce
<1>1. BaseInv /\ CountInv => ReleasedOnce
  BY QueueIsOnce
<1> QED BY <1>1, CountInvariant, BaseInvariant, PTL

=============================================================================
