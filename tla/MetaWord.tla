------------------------------ MODULE MetaWord ------------------------------
(***************************************************************************)
(* The word meta_ref_count of one object (runtime/include/syli/object.h):  *)
(* its reference count, its flags and its mark bit, updated by threads     *)
(* that count references, set and clear flags, and mark.  Each operation   *)
(* is for one part of the word and has to leave the others alone.          *)
(*                                                                         *)
(* The zone of the object decides how: plainly if it is local to a thread, *)
(* with atomic operations if it is shared, not at all if it is static.     *)
(* The compiler creates local objects only; the runtime has all three.     *)
(***************************************************************************)
EXTENDS Integers, FiniteSets

CONSTANTS
    Thread, Owner,          \* the threads, and the one a local object belongs to
    REFCOUNT_SIZE_BITS,     \* the width of the count, 56 in the code
    Flag,                   \* the flags in use
    MaxRefs                 \* bound: the references one thread holds

\* The counts that have room, REFCOUNT_MASK and one more, and the bits above them:
\* ObjectMetaFlags and the mark, the last bit of the word.
REFCOUNT_RANGE == 2 ^ REFCOUNT_SIZE_BITS
FlagUnit == [Cyclic_Candidate |-> 1, Tracing |-> 4, Waiting_Remove |-> 8, Children_Released |-> 16]
FlagValue(f) == FlagUnit[f] * REFCOUNT_RANGE
MARKING_BIT == 128 * REFCOUNT_RANGE
Words == 256 * REFCOUNT_RANGE

ASSUME ThreadAssumption == IsFiniteSet(Thread) /\ Owner \in Thread
ASSUME FlagAssumption == Flag \subseteq DOMAIN FlagUnit
\* The references there can be have room in the count.
ASSUME WidthAssumption ==
    /\ MaxRefs \in Nat \ {0} /\ REFCOUNT_RANGE \in Nat
    /\ MaxRefs * Cardinality(Thread) < REFCOUNT_RANGE

VARIABLES
    zone,                       \* "GcLocal", "GcShared" or "Static"
    meta,                       \* the word
    tracing_current_bit_mark,   \* the mark of the current generation
    pending,                    \* pending[t]: the operation t is in the middle of
    refs,                       \* refs[t]: the references t holds
    flags,                      \* the flags set and not cleared
    mark,                       \* the mark last given
    overwritten                 \* a plain store hit a word changed since its load

vars == <<zone, meta, tracing_current_bit_mark, pending, refs, flags, mark, overwritten>>

HasBit(w, b) == (w \div b) % 2 = 1
WithBit(w, b) == IF HasBit(w, b) THEN w ELSE w + b
WithoutBit(w, b) == IF HasBit(w, b) THEN w - b ELSE w

\* What the three readers return.
syli_object_refcount == IF zone = "Static" THEN 0 ELSE meta % REFCOUNT_RANGE
syli_object_has_flags(f) == zone # "Static" /\ HasBit(meta, FlagValue(f))
syli_object_mark_tag_shift ==
    IF zone # "Static" /\ HasBit(meta, MARKING_BIT) THEN MARKING_BIT ELSE 0

None == [op |-> "none"]
Idle(t) == pending[t] = None

\* t may work on the object: on a local one the owner, on another whoever holds
\* a reference, and the owner's collector.
MayUse(t) == t = Owner \/ (zone # "GcLocal" /\ refs[t] > 0)

-----------------------------------------------------------------------------
\* syli_rt_rc_alloc_object
Init ==
    /\ zone \in {"GcLocal", "GcShared", "Static"}
    /\ tracing_current_bit_mark \in {0, MARKING_BIT}
    /\ meta = 1 + tracing_current_bit_mark
    /\ pending = [t \in Thread |-> None]
    /\ refs = [t \in Thread |-> IF t = Owner THEN 1 ELSE 0]
    /\ flags = {}
    /\ mark = tracing_current_bit_mark
    /\ overwritten = FALSE

\* The word after n is added to it: plainly in a local object, where only the
\* owner is, and by atomic_fetch_add and atomic_fetch_sub in a shared one.
Added(n) == IF zone = "Static" THEN meta ELSE (meta + n) % Words

\* syli_object_incr: t takes a reference for u.
syli_object_incr(t, u) ==
    /\ Idle(t) /\ refs[t] > 0
    /\ zone = "GcLocal" => u = t
    /\ refs[u] < MaxRefs
    /\ refs' = [refs EXCEPT ![u] = @ + 1]
    /\ meta' = Added(1)
    /\ UNCHANGED <<zone, tracing_current_bit_mark, pending, flags, mark, overwritten>>

\* syli_object_decr_n; syli_object_decr is the same for 1.
syli_object_decr_n(t, n) ==
    /\ Idle(t)
    /\ n <= refs[t]
    /\ refs' = [refs EXCEPT ![t] = @ - n]
    /\ meta' = Added(-n)
    /\ UNCHANGED <<zone, tracing_current_bit_mark, pending, flags, mark, overwritten>>

-----------------------------------------------------------------------------
Update(op, w, f) == IF op = "set" THEN WithBit(w, FlagValue(f)) ELSE WithoutBit(w, FlagValue(f))
FlagsAfter(op, f) == IF op = "set" THEN flags \cup {f} ELSE flags \ {f}

\* syli_object_set_flags and syli_object_clear_flags of a local object.
UpdateLocal(t, op, f) ==
    /\ zone = "GcLocal" /\ Idle(t) /\ MayUse(t)
    /\ meta' = Update(op, meta, f)
    /\ flags' = FlagsAfter(op, f)
    /\ UNCHANGED <<zone, tracing_current_bit_mark, pending, refs, mark, overwritten>>

\* The same of a shared one: load, and compare and exchange, until it succeeds.
LoadShared(t, op, f) ==
    /\ zone = "GcShared"
    /\ \/ Idle(t) /\ MayUse(t)
       \/ pending[t] = [op |-> op, flag |-> f, failed |-> TRUE]
    /\ pending' = [pending EXCEPT ![t] = [op |-> op, flag |-> f, failed |-> FALSE, old |-> meta]]
    /\ UNCHANGED <<zone, meta, tracing_current_bit_mark, refs, flags, mark, overwritten>>

InExchange(t) == pending[t].op \in {"set", "clear"} /\ ~pending[t].failed

\* Mutant of ExchangeAllowed: the new word is stored whatever the word is now.
ExchangeAlways(t) == TRUE
ExchangeAllowed(t) == meta = pending[t].old

Exchange(t) ==
    /\ InExchange(t) /\ ExchangeAllowed(t)
    /\ meta' = Update(pending[t].op, pending[t].old, pending[t].flag)
    /\ flags' = FlagsAfter(pending[t].op, pending[t].flag)
    /\ pending' = [pending EXCEPT ![t] = None]
    /\ UNCHANGED <<zone, tracing_current_bit_mark, refs, mark, overwritten>>

\* The weak exchange may also fail when the word is the expected one.
ExchangeFails(t) ==
    /\ InExchange(t)
    /\ pending' = [pending EXCEPT ![t] = [op |-> @.op, flag |-> @.flag, failed |-> TRUE]]
    /\ UNCHANGED <<zone, meta, tracing_current_bit_mark, refs, flags, mark, overwritten>>

-----------------------------------------------------------------------------
\* gc_mark_tag_object, a plain load and a plain store in every zone.
MarkLoad(t) ==
    /\ t = Owner /\ Idle(t) /\ zone # "Static"
    /\ pending' = [pending EXCEPT ![t] = [op |-> "mark", old |-> meta]]
    /\ UNCHANGED <<zone, meta, tracing_current_bit_mark, refs, flags, mark, overwritten>>

MarkStore(t) ==
    /\ pending[t].op = "mark"
    /\ meta' = WithoutBit(pending[t].old, MARKING_BIT) + tracing_current_bit_mark
    /\ mark' = tracing_current_bit_mark
    /\ overwritten' = (overwritten \/ meta # pending[t].old)
    /\ pending' = [pending EXCEPT ![t] = None]
    /\ UNCHANGED <<zone, tracing_current_bit_mark, refs, flags>>

\* gc_next_marking_generation
gc_next_marking_generation ==
    /\ Idle(Owner)
    /\ tracing_current_bit_mark' = MARKING_BIT - tracing_current_bit_mark
    /\ UNCHANGED <<zone, meta, pending, refs, flags, mark, overwritten>>

Next ==
    \/ \E t, u \in Thread : syli_object_incr(t, u)
    \/ \E t \in Thread, n \in 1 .. MaxRefs : syli_object_decr_n(t, n)
    \/ \E t \in Thread, op \in {"set", "clear"}, f \in Flag :
          UpdateLocal(t, op, f) \/ LoadShared(t, op, f)
    \/ \E t \in Thread : Exchange(t) \/ ExchangeFails(t) \/ MarkLoad(t) \/ MarkStore(t)
    \/ gc_next_marking_generation

Spec == Init /\ [][Next]_vars

\* What happens to a word once it is spoilt is not looked at.
Intact == ~overwritten

-----------------------------------------------------------------------------
(***************************************************************************)
(* Properties                                                              *)
(***************************************************************************)

\* The references there are, numbered for each thread.
References == {r \in Thread \X (1 .. MaxRefs) : r[2] <= refs[r[1]]}

\* Through every interleaving of counting, of flag updates and their retries and
\* of marking, the word says how many references there are, which flags are set
\* and how the object is marked.  One thing spoils it, in a shared object only:
\* the collector's mark is a plain store and undoes what other threads did to
\* the word since its load.
MetaExact ==
    /\ overwritten => zone = "GcShared"
    /\ ~overwritten /\ zone # "Static" =>
          /\ syli_object_refcount = Cardinality(References)
          /\ flags = {f \in Flag : syli_object_has_flags(f)}
          /\ syli_object_mark_tag_shift = mark

=============================================================================
