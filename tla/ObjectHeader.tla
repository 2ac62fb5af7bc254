---------------------------- MODULE ObjectHeader ----------------------------
(***************************************************************************)
(* The header word of an object: how the compiler puts it together         *)
(* (compiler/middle_end/lower_oir_to_rir.ml) and how the runtime takes it  *)
(* apart (runtime/include/syli/header_object.h, object.h).                 *)
(*                                                                         *)
(* A 64-bit word is the set of its bits that are 1: `or' is \cup, `and'    *)
(* with a mask is \cap.  The fields of an object are given by              *)
(* [ref, shift]: is it a reference, and the logarithm of its cell's bytes. *)
(***************************************************************************)
EXTENDS Integers, Sequences, FiniteSets, FiniteSetsExt

Bits(n) == {b \in 0 .. 30 : (n \div 2 ^ b) % 2 = 1}
Number(w) == MapThenSumSet(LAMBDA b : 2 ^ b, w)
ShiftLeft(w, k) == {b + k : b \in w} \cap (0 .. 63)
ShiftRight(w, k) == {b - k : b \in {c \in w : c >= k}}

\* ObjectType
Type_MonoImm     == 0
Type_MonoRef     == 1
Type_MixedOrder  == 2
Type_MixedBitmap == 3

\* The masks of the fields of the header.
GC_ZONE_MASK           == 62 .. 63
GC_CYCLIC_MASK         == {61}
GC_TYPE_MASK           == 59 .. 60
GC_HAS_POINTERS_MASK   == {57}
GC_TRACEABLE_MASK      == {56}
GC_VARIANT_FLAGS_MASK  == 48 .. 55
GC_CYCLIC_MUTABLE_MASK == {47}
GC_UNIT_MASK           == 43 .. 46
GC_PAYLOAD_MASK        == 0 .. 31
GC_BITMAP_LENGTH_MASK  == 0 .. 4
GC_ORDER_PTR_COUNT_MASK == 0 .. 15
GC_ORDER_IMM_COUNT_MASK == 16 .. 31

-----------------------------------------------------------------------------
(***************************************************************************)
(* The compiler                                                            *)
(***************************************************************************)

\* The positions of the references, from 0.
RefIndexes(fields) == {i - 1 : i \in {j \in DOMAIN fields : fields[j].ref}}

\* ptr_and_imm_counts
PtrCount(fields) == Cardinality(RefIndexes(fields))
ImmCount(fields) == Len(fields) - PtrCount(fields)

\* classify_mono_fields
IsMono(fields) == \A i, j \in DOMAIN fields : fields[i].ref = fields[j].ref
MonoType(fields) == IF RefIndexes(fields) = {} THEN Type_MonoImm ELSE Type_MonoRef

\* Mutant of FieldsAreOrdered: a trailing reference is overlooked.
FieldsAreOrderedLoose(fields) ==
    \A i, j \in DOMAIN fields :
        i < j /\ j < Len(fields) /\ fields[j].ref => fields[i].ref

\* fields_are_ordered
FieldsAreOrdered(fields) ==
    \A i, j \in DOMAIN fields : i < j /\ fields[j].ref => fields[i].ref

ObjectTypeOf(fields) ==
    IF IsMono(fields) THEN MonoType(fields)
    ELSE IF FieldsAreOrdered(fields) THEN Type_MixedOrder ELSE Type_MixedBitmap

\* encode_payload
EncodePayload(fields) ==
    CASE IsMono(fields) -> Bits(Len(fields))
      [] ObjectTypeOf(fields) = Type_MixedOrder ->
            Bits(PtrCount(fields)) \cup ShiftLeft(Bits(ImmCount(fields)), 16)
      [] OTHER -> Bits(Len(fields)) \cup ShiftLeft(RefIndexes(fields), 5)

\* max_cell_shift_of_fields
MaxCellShift(fields) ==
    IF fields = <<>> THEN 3 ELSE Max({fields[i].shift : i \in DOMAIN fields})

\* cyclic_bit_of_prop, traceable_bit_of_prop, cyclic_mutable_bit_of_prop
CyclicBit(prop) ==
    IF prop \in {"Acyclic", "Acyclic_trackable"} THEN {} ELSE GC_CYCLIC_MASK
TraceableBit(prop) == IF prop = "Acyclic" THEN {} ELSE GC_TRACEABLE_MASK
CyclicMutableBit(prop) ==
    IF prop = "Mutable_cyclic_trackable" THEN GC_CYCLIC_MUTABLE_MASK ELSE {}

\* header_operand_of_obj and make_header, for a record, a constructor or a
\* closure; the zone is 0.
HeaderOfFields(fields, tag, prop) ==
    CyclicBit(prop) \cup CyclicMutableBit(prop) \cup TraceableBit(prop)
    \cup ShiftLeft(Bits(ObjectTypeOf(fields)), 59)
    \cup (IF RefIndexes(fields) = {} THEN {} ELSE GC_HAS_POINTERS_MASK)
    \cup ShiftLeft(Bits(tag), 48)
    \cup ShiftLeft(Bits(MaxCellShift(fields)) \cap (0 .. 3), 43)
    \cup (EncodePayload(fields) \cap GC_PAYLOAD_MASK)

\* The same for an array: the payload is 0, and the generated code adds the
\* length, known at run time, to the header.  The payload being 0, the sum is
\* a union as long as the length fits it.
HeaderOfArray(element, length, prop) ==
    (HeaderOfFields(<<element>>, 0, prop) \ GC_PAYLOAD_MASK) \cup Bits(length)

-----------------------------------------------------------------------------
(***************************************************************************)
(* The runtime                                                             *)
(***************************************************************************)
syli_object_is_cyclic(h)         == h \cap GC_CYCLIC_MASK # {}
syli_object_is_cyclic_mutable(h) == h \cap GC_CYCLIC_MUTABLE_MASK # {}
syli_object_is_traceable(h)      == h \cap GC_TRACEABLE_MASK # {}
syli_object_has_pointers(h)      == h \cap GC_HAS_POINTERS_MASK # {}
syli_object_is_local(h)          == h \cap GC_ZONE_MASK = {}
syli_object_type(h)              == Number(ShiftRight(h \cap GC_TYPE_MASK, 59))
syli_object_payload(h)           == h \cap GC_PAYLOAD_MASK
syli_object_unit_shift(h)        == Number(ShiftRight(h \cap GC_UNIT_MASK, 43))
syli_object_get_variant_tag(h)   == Number(ShiftRight(h \cap GC_VARIANT_FLAGS_MASK, 48))

syli_object_order_ptr_count(h) == Number(syli_object_payload(h) \cap GC_ORDER_PTR_COUNT_MASK)
syli_object_order_imm_count(h) ==
    Number(ShiftRight(syli_object_payload(h) \cap GC_ORDER_IMM_COUNT_MASK, 16))
syli_object_bitmap_length(h)   == Number(syli_object_payload(h) \cap GC_BITMAP_LENGTH_MASK)
syli_object_bitmap_bits(h)     == ShiftRight(syli_object_payload(h), 5)

\* syli_object_length
syli_object_length(h) ==
    CASE syli_object_type(h) \in {Type_MonoImm, Type_MonoRef} -> Number(syli_object_payload(h))
      [] syli_object_type(h) = Type_MixedOrder ->
            syli_object_order_ptr_count(h) + syli_object_order_imm_count(h)
      [] OTHER -> syli_object_bitmap_length(h)

\* The cells the collectors take for references, from 0.
ReferenceCells(h) ==
    CASE syli_object_type(h) = Type_MonoImm -> {}
      [] syli_object_type(h) = Type_MonoRef -> 0 .. syli_object_length(h) - 1
      [] syli_object_type(h) = Type_MixedOrder -> 0 .. syli_object_order_ptr_count(h) - 1
      [] OTHER -> syli_object_bitmap_bits(h) \cap (0 .. syli_object_bitmap_length(h) - 1)

\* syli_object_total_bytes, by what gc_account_cyclic_free accounts
syli_object_total_bytes(h) ==
    16 + syli_object_length(h) * 2 ^ syli_object_unit_shift(h)
       + (IF syli_object_is_cyclic_mutable(h) THEN 8 ELSE 0)

\* syli_object_alloc: the bytes asked from malloc for a length the caller gives.
AllocatedBytes(h, length) ==
    16 + length * 2 ^ syli_object_unit_shift(h)
       + (IF syli_object_is_cyclic_mutable(h) THEN 8 ELSE 0)

\* Where syli_object_set_candidate_index writes: value[len], in words of 8 bytes.
CandidateIndexAt(h) == 16 + 8 * syli_object_length(h)

=============================================================================
