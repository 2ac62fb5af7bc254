----------------------------- MODULE StackRoots -----------------------------
(***************************************************************************)
(* The collection of the roots on the stack                                *)
(* (runtime/src/syli_state_gc_roots.c, include/syli/gc_roots.h).           *)
(*                                                                         *)
(* LLVM describes in a section of the executable, for each return address  *)
(* of a call, where the frame keeps references.  The first trace reads the *)
(* section and builds a table of its records; each trace unwinds the       *)
(* stack, looks the address of each frame up by binary search, and pushes  *)
(* the owned references of the frame on the tracing worklist.              *)
(*                                                                         *)
(* The section, the stack and the unwinder are external: the section is    *)
(* modelled as LLVM lays it out, records with their byte offsets; a frame  *)
(* by the word that each location of its record leads to.                  *)
(***************************************************************************)
EXTENDS Integers, Sequences, SequencesExt, FiniteSets

CONSTANTS
    Object,     \* the heap objects
    Section,    \* the stackmap sections considered
    Stack       \* the stacks considered: sequences of frames

\* The words a location may lead to: a tagged reference, the address of a stack
\* slot (aligned, so it carries the tag of a borrow), or 0.
Tags == {"Borrow", "Own", "AlwaysBorrow", "Immediate"}
SlotAddress == [tag |-> "Borrow", obj |-> "none"]
Zero == [tag |-> "Zero", obj |-> "none"]
Word == {SlotAddress, Zero} \cup [tag : Tags, obj : Object]

\* An instruction pointer that could not be read.
NoIp == 0

Kinds == {"Register", "Direct", "Indirect", "Constant", "ConstantIndex"}

STACKMAP_VERSION == 3

\* The sizes of the packed structures.
HeaderBytes   == 16
FunctionBytes == 24
RecordBytes   == 16
LocationBytes == 12

\* LLVM aligns the end of the locations and the end of the record to 8 bytes.
AlignUp(n) == 8 * ((n + 7) \div 8)
EmittedBytes(r) ==
    AlignUp(AlignUp(RecordBytes + LocationBytes * Len(r.locations)) + 4 + 4 * r.liveouts)

FirstRecordAt(s) == HeaderBytes + FunctionBytes * Len(s.functions) + 8 * s.num_constants

\* The records of the f-th function of section s.
RecordsOf(s, f) == s.functions[f].first .. s.functions[f].first + s.functions[f].num_records - 1

\* A section as LLVM emits it: the records of a function follow those of the
\* function before, one after the other; `first' and `at' say where they are.
Emitted(s) ==
    /\ s.version \in Nat /\ s.num_constants \in Nat
    /\ s.functions \in Seq([addr : Nat \ {0}, num_records : Nat, first : Nat \ {0}])
    /\ s.records \in Seq([at : Nat, instr_offset : Nat, locations : Seq(Kinds),
                          liveouts : Nat])
    /\ s.functions = <<>> => s.records = <<>>
    /\ \A f \in 1 .. Len(s.functions) :
          /\ f = 1 => s.functions[f].first = 1
          /\ f > 1 => s.functions[f].first =
                         s.functions[f - 1].first + s.functions[f - 1].num_records
          /\ f = Len(s.functions) =>
                s.functions[f].first + s.functions[f].num_records = Len(s.records) + 1
          /\ RecordsOf(s, f) \subseteq 1 .. Len(s.records)
          /\ \A g \in 1 .. Len(s.functions) :
                f # g => RecordsOf(s, f) \cap RecordsOf(s, g) = {}
    /\ \A k \in 1 .. Len(s.records) :
          /\ k = 1 => s.records[k].at = FirstRecordAt(s)
          /\ k > 1 => s.records[k].at = s.records[k - 1].at + EmittedBytes(s.records[k - 1])
          /\ \A l \in 1 .. Len(s.records) : k # l => s.records[k].at # s.records[l].at

ASSUME SectionAssumption == \A s \in Section : Emitted(s)

\* Frames have a word for each location of any record.
ASSUME StackAssumption ==
    /\ Stack \subseteq Seq([ip : Nat, regs : BOOLEAN, words : Seq(Word)])
    /\ \A s \in Section : \A k \in 1 .. Len(s.records) : \A st \in Stack :
          \A d \in 1 .. Len(st) : Len(s.records[k].locations) <= Len(st[d].words)

VARIABLES
    section,    \* the bytes between the section's bounds
    stack,      \* the frames above the collector, innermost first
    phase,      \* which loop has control
    allocated,  \* stackmap_record_entry # NULL
    table,      \* stackmap_record_entry
    i, j,       \* the loops over the functions and their records
    current,    \* current_record, a byte offset
    frame,      \* the frame the cursor is at
    low, high, entry,   \* the binary search: entry is an index of table, 0 for none
    loc,        \* the loop over the locations of a record
    tracing_flag, tracing_worklist

vars == <<section, stack, phase, allocated, table, i, j, current, frame,
          low, high, entry, loc, tracing_flag, tracing_worklist>>

build_vars  == <<allocated, table, i, j, current>>
search_vars == <<low, high, entry>>
trace_lists == <<tracing_flag, tracing_worklist>>

Phases == {"start", "idle", "build", "unwind", "lookup", "collect", "exit"}

-----------------------------------------------------------------------------
\* What the runtime reads at a byte offset of the section.
RecordAt(p) == CHOOSE r \in ToSet(section.records) : r.at = p
IsRecord(p) == \E r \in ToSet(section.records) : r.at = p

\* Mutant of Advance: the padding after the locations is forgotten.
AdvanceUnpadded(p, r) ==
    p + RecordBytes + LocationBytes * Len(r.locations) + 4 + 4 * r.liveouts
      + (IF (4 * r.liveouts + 4) % 8 = 4 THEN 4 ELSE 0)

\* advance_record
Advance(p, r) ==
    p + RecordBytes + LocationBytes * Len(r.locations)
      + (IF (LocationBytes * Len(r.locations)) % 8 = 4 THEN 4 ELSE 0)
      + 4 + 4 * r.liveouts
      + (IF (4 * r.liveouts + 4) % 8 = 4 THEN 4 ELSE 0)

\* decode_location: a register or a base that cannot be read gives 0.
DecodeLocation(f, kind, k) ==
    IF ~f.regs THEN Zero
    ELSE CASE kind \in {"Register", "Indirect"} -> f.words[k]
           [] kind = "Direct" -> SlotAddress
           [] OTHER -> Zero

-----------------------------------------------------------------------------
Init ==
    /\ section \in Section
    /\ stack = <<>>
    /\ phase = "start"
    /\ allocated = FALSE
    /\ table = <<>>
    /\ i = 0 /\ j = 0 /\ current = 0
    /\ frame = 0
    /\ low = 0 /\ high = 0 /\ entry = 0
    /\ loc = 0
    /\ tracing_flag = {} /\ tracing_worklist = <<>>

NoSection == section.functions = <<>>

\* syli_rt_stackmap_check_version
CheckVersion ==
    /\ phase = "start"
    /\ phase' = IF NoSection \/ section.version = STACKMAP_VERSION THEN "idle" ELSE "exit"
    /\ UNCHANGED <<section, stack, build_vars, frame, search_vars, loc, trace_lists>>

\* A trace starts: syli_rt_collect_stack_roots on whatever the stack is then.
\* The worklist of the trace before is drained.
CollectStackRoots ==
    /\ phase = "idle"
    /\ stack' \in Stack
    /\ tracing_flag' = {} /\ tracing_worklist' = <<>>
    /\ frame' = 0
    /\ phase' = IF NoSection THEN "idle" ELSE IF allocated THEN "unwind" ELSE "build"
    /\ i' = 1 /\ j' = 0 /\ current' = FirstRecordAt(section)
    /\ UNCHANGED <<section, allocated, table, search_vars, loc>>

\* calloc in syli_build_stackmap_record_entry
AllocTable ==
    /\ phase = "build" /\ ~allocated
    /\ \/ allocated' = TRUE /\ phase' = phase
       \/ allocated' = FALSE /\ phase' = "exit"
    /\ UNCHANGED <<section, stack, table, i, j, current, frame, search_vars, loc, trace_lists>>

\* One turn of the inner loop.
BuildEntry ==
    /\ phase = "build" /\ allocated
    /\ i <= Len(section.functions)
    /\ j < section.functions[i].num_records
    /\ IsRecord(current)
    /\ table' = Append(table, [pc |-> section.functions[i].addr + RecordAt(current).instr_offset,
                               record |-> current])
    /\ current' = Advance(current, RecordAt(current))
    /\ j' = j + 1
    /\ UNCHANGED <<section, stack, phase, allocated, i, frame, search_vars, loc, trace_lists>>

NextFunction ==
    /\ phase = "build" /\ allocated
    /\ i <= Len(section.functions)
    /\ j >= section.functions[i].num_records
    /\ i' = i + 1
    /\ j' = 0
    /\ UNCHANGED <<section, stack, phase, allocated, table, current, frame, search_vars, loc,
                   trace_lists>>

BuildDone ==
    /\ phase = "build" /\ allocated
    /\ i > Len(section.functions)
    /\ phase' = "unwind"
    /\ UNCHANGED <<section, stack, build_vars, frame, search_vars, loc, trace_lists>>

\* unw_step: the next frame, until the outermost one.  A frame whose
\* instruction pointer cannot be read is passed over.
UnwindStep ==
    /\ phase = "unwind"
    /\ frame < Len(stack)
    /\ frame' = frame + 1
    /\ phase' = IF stack[frame + 1].ip = NoIp THEN "unwind" ELSE "lookup"
    /\ low' = 0 /\ high' = Len(section.records) /\ entry' = 0
    /\ UNCHANGED <<section, stack, build_vars, loc, trace_lists>>

UnwindDone ==
    /\ phase = "unwind"
    /\ frame = Len(stack)
    /\ phase' = "idle"
    /\ UNCHANGED <<section, stack, build_vars, frame, search_vars, loc, trace_lists>>

Mid == low + (high - low) \div 2

\* Mutants of HighAfter and LowAfter: the lower half loses its last entry; the
\* upper half keeps the entry already seen.
HighAfterShort == Mid - 1
LowAfterStuck == Mid

HighAfter == Mid
LowAfter == Mid + 1

\* One turn of the loop of syli_lookup_record_entry.
LookupTurn ==
    /\ phase = "lookup"
    /\ low < high
    /\ LET ip == stack[frame].ip
           pc == table[Mid + 1].pc
       IN  \/ /\ pc = ip
              /\ entry' = Mid + 1 /\ phase' = "collect" /\ loc' = 1
              /\ UNCHANGED <<low, high>>
           \/ /\ ip < pc
              /\ high' = HighAfter
              /\ UNCHANGED <<low, entry, phase, loc>>
           \/ /\ ip > pc
              /\ low' = LowAfter
              /\ UNCHANGED <<high, entry, phase, loc>>
    /\ UNCHANGED <<section, stack, build_vars, frame, trace_lists>>

\* Mutant of LookupFails: a frame without a record ends the unwinding.
LookupFailsStops ==
    /\ phase = "lookup"
    /\ low >= high
    /\ phase' = "idle"
    /\ UNCHANGED <<section, stack, build_vars, frame, search_vars, loc, trace_lists>>

\* No record: collect_frame returns.
LookupFails ==
    /\ phase = "lookup"
    /\ low >= high
    /\ phase' = "unwind"
    /\ UNCHANGED <<section, stack, build_vars, frame, search_vars, loc, trace_lists>>

Locations == RecordAt(table[entry].record).locations

\* Mutant of TracingPush: a borrowed reference is pushed too.
TracingPushBorrowed(w) ==
    IF w.tag \in {"AlwaysBorrow", "Immediate"} \/ w.obj \in tracing_flag
    THEN UNCHANGED trace_lists
    ELSE /\ tracing_flag' = tracing_flag \cup {w.obj}
         /\ tracing_worklist' = Append(tracing_worklist, w.obj)

\* gc_tracing_worklist_push
TracingPush(w) ==
    IF w.tag # "Own" \/ w.obj \in tracing_flag
    THEN UNCHANGED trace_lists
    ELSE /\ tracing_flag' = tracing_flag \cup {w.obj}
         /\ tracing_worklist' = Append(tracing_worklist, w.obj)

\* One turn of the loop of collect_frame.
CollectLocation ==
    /\ phase = "collect"
    /\ loc <= Len(Locations)
    /\ LET w == DecodeLocation(stack[frame], Locations[loc], loc)
       IN  IF w = Zero THEN UNCHANGED trace_lists ELSE TracingPush(w)
    /\ loc' = loc + 1
    /\ UNCHANGED <<section, stack, phase, build_vars, frame, search_vars>>

FrameDone ==
    /\ phase = "collect"
    /\ loc > Len(Locations)
    /\ phase' = "unwind"
    /\ UNCHANGED <<section, stack, build_vars, frame, search_vars, loc, trace_lists>>

Collecting ==
    \/ AllocTable
    \/ BuildEntry
    \/ NextFunction
    \/ BuildDone
    \/ UnwindStep
    \/ UnwindDone
    \/ LookupTurn
    \/ LookupFails
    \/ CollectLocation
    \/ FrameDone

Next == CheckVersion \/ CollectStackRoots \/ Collecting

\* The collection is a function of one thread: once called it runs.
Spec == Init /\ [][Next]_vars /\ WF_vars(Collecting)

-----------------------------------------------------------------------------
(***************************************************************************)
(* Properties                                                              *)
(***************************************************************************)

\* The type invariant.
TypeOK ==
    /\ section \in Section
    /\ stack \in Stack \cup {<<>>}
    /\ phase \in Phases
    /\ allocated \in BOOLEAN
    /\ table \in Seq([pc : Nat \ {0}, record : Nat])
    /\ {i, j, current, frame, low, high, entry, loc} \subseteq Nat
    /\ tracing_flag \subseteq Object
    /\ tracing_worklist \in Seq(Object)

\* The return address that record k describes, by the function it belongs to.
Owner(k) == CHOOSE f \in 1 .. Len(section.functions) : k \in RecordsOf(section, f)
PcOf(k) == section.functions[Owner(k)].addr + section.records[k].instr_offset

\* LLVM lists the functions in the order it emits them, which is that of their
\* addresses as long as the linker does not move them apart.
Ascending == \A k, l \in 1 .. Len(section.records) : k < l => PcOf(k) < PcOf(l)

\* The walk over the packed records lands on every record, whatever padding the
\* numbers of locations and live-outs before it call for, and the table has one
\* entry for each, under its return address.  It is built once: later traces
\* find it as it was.
TableExact ==
    /\ phase = "build" /\ Len(table) < Len(section.records) =>
          current = section.records[Len(table) + 1].at
    /\ phase \in {"unwind", "lookup", "collect"} =>
          table = [k \in 1 .. Len(section.records) |->
                      [pc |-> PcOf(k), record |-> section.records[k].at]]

\* The search finds the record of a return address if there is one: it gives up
\* only on an address that has none, as long as the records ascend, and what it
\* finds is the record of that address even if they do not.
LookupExact ==
    /\ phase = "collect" => PcOf(entry) = stack[frame].ip
    /\ phase = "lookup" /\ low >= high /\ Ascending =>
          \A k \in 1 .. Len(section.records) : PcOf(k) # stack[frame].ip

\* The owned references of a frame: those in the spill slots and registers the
\* record of its return address names.
FrameRoots(f) ==
    {o \in Object : \E k \in 1 .. Len(section.records) :
        /\ PcOf(k) = f.ip
        /\ f.regs
        /\ \E n \in DOMAIN section.records[k].locations :
              /\ section.records[k].locations[n] \in {"Register", "Indirect"}
              /\ f.words[n] = [tag |-> "Own", obj |-> o]}

\* The roots of a trace are the owned references of all frames, each pushed once
\* however many frames and locations hold it; when the records do not ascend,
\* roots may be missing but none is made up.
RootsExact ==
    LET roots == UNION {FrameRoots(stack[d]) : d \in DOMAIN stack}
    IN  phase = "idle" =>
            /\ IsInjective(tracing_worklist)
            /\ ToSet(tracing_worklist) \subseteq roots
            /\ Ascending => roots = ToSet(tracing_worklist)

\* A collection ends: neither the walk over the section nor a search runs forever.
CollectionEnds == phase \in Phases \ {"start", "idle", "exit"} ~> phase \in {"idle", "exit"}

=============================================================================
