-------------------------- MODULE StackRootsProofs --------------------------
(***************************************************************************)
(* Proofs about StackRoots, for every section LLVM may emit and every      *)
(* stack: the table is the section's records, the binary search is exact,  *)
(* and the roots pushed are the owned references of the frames.            *)
(***************************************************************************)
EXTENDS StackRoots, BasicLemmas

FunctionType == [addr : Nat \ {0}, num_records : Nat, first : Nat \ {0}]
RecordType == [at : Nat, instr_offset : Nat, locations : Seq(Kinds), liveouts : Nat]
FrameType == [ip : Nat, regs : BOOLEAN, words : Seq(Word)]

NF == Len(section.functions)
N == Len(section.records)

\* The padding advance_record skips is the padding LLVM emits.
LEMMA AdvanceExact ==
    ASSUME NEW r \in RecordType, NEW p \in Nat
    PROVE  Advance(p, r) = p + EmittedBytes(r) /\ Advance(p, r) \in Nat
<1> DEFINE n == Len(r.locations)
           l == r.liveouts
<1>1. n \in Nat /\ l \in Nat
  BY LenProperties DEF RecordType
<1> HIDE DEF n, l
<1>2. AlignUp(16 + 12 * n) = 16 + 12 * n + (IF (12 * n) % 8 = 4 THEN 4 ELSE 0)
  BY <1>1, Z3 DEF AlignUp
<1> DEFINE m == AlignUp(16 + 12 * n)
<1>3. m \in Nat /\ m % 8 = 0
  BY <1>1, Z3 DEF AlignUp
<1> HIDE DEF m
<1>4. AlignUp(m + 4 + 4 * l) = m + 4 + 4 * l + (IF (4 * l + 4) % 8 = 4 THEN 4 ELSE 0)
  BY <1>1, <1>3, Z3 DEF AlignUp
<1>5. EmittedBytes(r) = AlignUp(m + 4 + 4 * l)
  BY DEF EmittedBytes, RecordBytes, LocationBytes, m, n, l
<1>6. Advance(p, r) = p + 16 + 12 * n + (IF (12 * n) % 8 = 4 THEN 4 ELSE 0)
                        + 4 + 4 * l + (IF (4 * l + 4) % 8 = 4 THEN 4 ELSE 0)
  BY DEF Advance, RecordBytes, LocationBytes, n, l
<1> QED BY <1>1, <1>2, <1>3, <1>4, <1>5, <1>6 DEF m

\* What the section is, in terms of the variable.
LEMMA SectionFacts ==
    ASSUME section \in Section
    PROVE  /\ section.functions \in Seq(FunctionType)
           /\ section.records \in Seq(RecordType)
           /\ NF \in Nat /\ N \in Nat
           /\ \A f \in 1 .. NF : section.functions[f] \in FunctionType
           /\ \A k \in 1 .. N : section.records[k] \in RecordType
           /\ FirstRecordAt(section) \in Nat
           /\ NoSection => N = 0
           /\ ~NoSection => NF >= 1
<1>1. Emitted(section)
  BY SectionAssumption
<1>2. /\ section.functions \in Seq(FunctionType)
      /\ section.records \in Seq(RecordType)
  BY <1>1 DEF Emitted, FunctionType, RecordType
<1>3. NF \in Nat /\ N \in Nat
  BY <1>2, LenProperties DEF NF, N
<1>4. NoSection => N = 0
  BY <1>1, EmptySeq DEF Emitted, NoSection, N
<1>5. ~NoSection => NF >= 1
  BY <1>2, <1>3, EmptySeq DEF NoSection, NF
<1>6. FirstRecordAt(section) \in Nat
  <2>1. section.num_constants \in Nat
    BY <1>1 DEF Emitted
  <2> QED BY <2>1, <1>3 DEF FirstRecordAt, HeaderBytes, FunctionBytes, NF
<1>7. \A f \in 1 .. NF : section.functions[f] \in FunctionType
  BY <1>2, ElementOfSeq DEF NF
<1>8. \A k \in 1 .. N : section.records[k] \in RecordType
  BY <1>2, ElementOfSeq DEF N
<1> QED BY <1>2, <1>3, <1>4, <1>5, <1>6, <1>7, <1>8

\* The record found at its own offset, and its function.
LEMMA RecordFacts ==
    ASSUME section \in Section, NEW f \in 1 .. NF, NEW k \in RecordsOf(section, f)
    PROVE  /\ k \in 1 .. N
           /\ Owner(k) = f
           /\ IsRecord(section.records[k].at)
           /\ RecordAt(section.records[k].at) = section.records[k]
           /\ k < N => section.records[k + 1].at =
                         section.records[k].at + EmittedBytes(section.records[k])
<1>1. Emitted(section)
  BY SectionAssumption
<1>2. k \in 1 .. N
  BY <1>1 DEF Emitted, NF, N
<1>3. Owner(k) = f
  BY <1>1, SectionFacts DEF Emitted, NF, Owner
<1>4. \A m \in 1 .. N : section.records[m].at = section.records[k].at => m = k
  BY <1>1, <1>2 DEF Emitted, N
<1>5. \A r \in ToSet(section.records) : \E m \in 1 .. N : r = section.records[m]
  BY SectionFacts, LenProperties DEF ToSet, N
<1>6. section.records[k] \in ToSet(section.records)
  BY <1>2, SectionFacts, LenProperties DEF ToSet, N
<1>7. RecordAt(section.records[k].at) = section.records[k]
  BY <1>4, <1>5, <1>6 DEF RecordAt
<1>8. k < N => section.records[k + 1].at =
                 section.records[k].at + EmittedBytes(section.records[k])
  <2> SUFFICES ASSUME k < N PROVE section.records[k + 1].at =
                 section.records[k].at + EmittedBytes(section.records[k])
    OBVIOUS
  <2>1. k + 1 \in 1 .. N /\ k + 1 > 1 /\ (k + 1) - 1 = k
    BY <1>2, SectionFacts
  <2>2. \A m \in 1 .. N : m > 1 => section.records[m].at =
                 section.records[m - 1].at + EmittedBytes(section.records[m - 1])
    BY <1>1 DEF Emitted, N
  <2> QED BY <2>1, <2>2
<1> QED BY <1>2, <1>3, <1>6, <1>7, <1>8 DEF IsRecord

-----------------------------------------------------------------------------
(***************************************************************************)
(* The table                                                               *)
(***************************************************************************)
Entry(k) == [pc |-> PcOf(k), record |-> section.records[k].at]

\* The table so far is a prefix of the records, and current_record is the next
\* one: the loop counters say how long the prefix is.
BuildInv ==
    /\ ~allocated => table = <<>>
    /\ phase = "start" => ~allocated
    /\ \A k \in 1 .. Len(table) : table[k] = Entry(k)
    /\ phase = "build" =>
          /\ i \in 1 .. NF + 1
          /\ ~allocated => i = 1
          /\ i <= NF => /\ j <= section.functions[i].num_records
                        /\ Len(table) = section.functions[i].first - 1 + j
          /\ i > NF => Len(table) = N
          /\ Len(table) < N => current = section.records[Len(table) + 1].at
    /\ phase # "build" /\ allocated => Len(table) = N
    /\ phase \in {"unwind", "lookup", "collect"} => allocated

\* What the search knows: the entry sought is between low and high.
LookupInv ==
    /\ phase \in {"build", "unwind", "lookup", "collect"} => frame <= Len(stack)
    /\ phase \in {"lookup", "collect"} => frame >= 1
    /\ phase = "lookup" =>
          /\ low <= high /\ high <= N
          /\ Ascending => \A k \in 1 .. N :
                PcOf(k) = stack[frame].ip => low < k /\ k <= high
    /\ phase = "collect" =>
          entry \in 1 .. N /\ PcOf(entry) = stack[frame].ip /\ loc >= 1

\* The addresses depend on the section alone.
LEMMA SameSection ==
    ASSUME section' = section
    PROVE  /\ NF' = NF /\ N' = N
           /\ \A k : PcOf(k)' = PcOf(k) /\ Entry(k)' = Entry(k)
           /\ Ascending' = Ascending
           /\ \A p : RecordAt(p)' = RecordAt(p)
<1>1. NF' = NF /\ N' = N
  BY DEF NF, N
<1>2. \A k : Owner(k)' = Owner(k)
  BY DEF Owner, RecordsOf
<1>3. \A k : PcOf(k)' = PcOf(k) /\ Entry(k)' = Entry(k)
  BY <1>2 DEF PcOf, Entry
<1>4. Ascending' = Ascending
  BY <1>3 DEF Ascending
<1> QED BY <1>1, <1>3, <1>4 DEF RecordAt

\* The stack the collector is on, frame by frame.
LEMMA StackFacts ==
    ASSUME stack \in Stack \cup {<<>>}
    PROVE  /\ Len(stack) \in Nat
           /\ \A d \in 1 .. Len(stack) : stack[d] \in FrameType
           /\ section \in Section =>
                \A d \in 1 .. Len(stack) : \A k \in 1 .. N :
                   Len(section.records[k].locations) <= Len(stack[d].words)
<1>1. stack \in Seq(FrameType)
  BY StackAssumption, EmptySeq DEF FrameType
<1>2. Len(stack) \in Nat /\ \A d \in 1 .. Len(stack) : stack[d] \in FrameType
  BY <1>1, LenProperties, ElementOfSeq
<1>3. CASE stack = <<>>
  BY <1>2, <1>3, EmptySeq
<1>4. CASE stack \in Stack
  BY <1>2, <1>4, StackAssumption DEF N
<1> QED BY <1>3, <1>4

TypeBuild == TypeOK /\ BuildInv

LEMMA BuildInit == Init => TypeBuild
<1> SUFFICES ASSUME Init PROVE TypeBuild
  OBVIOUS
<1>1. Len(table) = 0 /\ table \in Seq([pc : Nat \ {0}, record : Nat])
  BY EmptySeq DEF Init
<1>2. tracing_worklist \in Seq(Object)
  BY EmptySeq DEF Init
<1>3. TypeOK
  <2>1. {i, j, current, frame, low, high, entry, loc} \subseteq Nat
    BY DEF Init
  <2> QED BY <2>1, <1>1, <1>2 DEF Init, TypeOK, Phases
<1>4. BuildInv
  BY <1>1 DEF Init, BuildInv
<1> QED BY <1>3, <1>4 DEF TypeBuild

\* One turn of the loop that builds the table.
LEMMA BuildEntryStep ==
    ASSUME TypeBuild, BuildEntry
    PROVE  TypeBuild'
<1> DEFINE k == Len(table) + 1
<1>1. /\ section \in Section /\ table \in Seq([pc : Nat \ {0}, record : Nat])
      /\ i \in Nat /\ j \in Nat /\ current \in Nat
  BY DEF TypeBuild, TypeOK
<1>2. Len(table) \in Nat
  BY <1>1, LenProperties
<1>3. i \in 1 .. NF /\ section.functions[i] \in FunctionType
  BY <1>1, SectionFacts DEF BuildEntry, TypeBuild, BuildInv, NF
<1>4. Len(table) = section.functions[i].first - 1 + j /\ j < section.functions[i].num_records
  BY <1>3, SectionFacts, <1>1 DEF BuildEntry, TypeBuild, BuildInv, NF
<1>5. k \in RecordsOf(section, i)
  BY <1>1, <1>2, <1>3, <1>4 DEF RecordsOf, FunctionType
<1>6. /\ k \in 1 .. N /\ Owner(k) = i
      /\ RecordAt(section.records[k].at) = section.records[k]
      /\ k < N => section.records[k + 1].at =
                     section.records[k].at + EmittedBytes(section.records[k])
  BY <1>1, <1>3, <1>5, RecordFacts
<1>7. current = section.records[k].at
  BY <1>2, <1>6, SectionFacts, <1>1 DEF BuildEntry, TypeBuild, BuildInv
<1>8. section.records[k] \in RecordType
  BY <1>1, <1>6, SectionFacts
<1>9. RecordAt(current) = section.records[k]
  BY <1>6, <1>7
<1>10. current' = current + EmittedBytes(section.records[k]) /\ current' \in Nat
  BY <1>1, <1>8, <1>9, AdvanceExact DEF BuildEntry
<1>11. table' = Append(table, Entry(k)) /\ Entry(k) \in [pc : Nat \ {0}, record : Nat]
  <2>1. PcOf(k) = section.functions[i].addr + section.records[k].instr_offset
    BY <1>6 DEF PcOf
  <2>2. section.functions[i].addr \in Nat \ {0}
    BY <1>3 DEF FunctionType
  <2>3. section.records[k].instr_offset \in Nat /\ section.records[k].at \in Nat
    BY <1>8 DEF RecordType
  <2>4. PcOf(k) \in Nat \ {0}
    <3>1. \A a \in Nat \ {0}, b \in Nat : a + b \in Nat \ {0}
      OBVIOUS
    <3> QED BY <2>1, <2>2, <2>3, <3>1
  <2> QED BY <2>1, <2>3, <2>4, <1>7, <1>9 DEF BuildEntry, Entry
<1>12. /\ table' \in Seq([pc : Nat \ {0}, record : Nat])
       /\ Len(table') = k
       /\ \A m \in 1 .. Len(table) : table'[m] = table[m]
       /\ table'[k] = Entry(k)
  BY <1>1, <1>2, <1>11, AppendProperties
<1>13. section' = section /\ phase' = phase /\ allocated' = allocated /\ i' = i /\ j' = j + 1
       /\ allocated /\ phase = "build"
  BY DEF BuildEntry
<1>14. TypeOK'
  BY <1>1, <1>10, <1>12, <1>13 DEF TypeBuild, TypeOK, BuildEntry, search_vars, trace_lists
<1>15. \A m \in 1 .. Len(table') : table'[m] = Entry(m)'
  <2>1. \A m \in 1 .. Len(table) : table[m] = Entry(m)
    BY DEF TypeBuild, BuildInv
  <2> QED BY <2>1, <1>2, <1>12, <1>13, SameSection
<1>16. Len(table') < N => current' = section.records[Len(table') + 1].at
  BY <1>6, <1>7, <1>10, <1>12
<1>17. i <= NF /\ j' <= section.functions[i].num_records
       /\ Len(table') = section.functions[i].first - 1 + j'
  <2>1. section.functions[i].first \in Nat /\ section.functions[i].num_records \in Nat
    BY <1>3 DEF FunctionType
  <2>2. i <= NF
    BY <1>1, <1>3, SectionFacts
  <2>3. j' = j + 1 /\ Len(table') = Len(table) + 1
    BY <1>12, <1>13
  <2> DEFINE a == section.functions[i].first
             b == section.functions[i].num_records
  <2>4. a \in Nat /\ b \in Nat /\ Len(table) = a - 1 + j /\ j < b
    BY <2>1, <1>4
  <2> HIDE DEF a, b
  <2>5. j + 1 <= b /\ Len(table) + 1 = a - 1 + (j + 1)
    BY <2>4, <1>1, <1>2
  <2> QED BY <2>2, <2>3, <2>5 DEF a, b
<1>18. BuildInv'
  BY <1>13, <1>15, <1>16, <1>17, <1>3, <1>1, SectionFacts, SameSection DEF BuildInv, NF, N
<1> QED BY <1>14, <1>18 DEF TypeBuild

\* While a frame is collected: its record, and the words its locations lead to.
LEMMA CollectFacts ==
    ASSUME TypeBuild, LookupInv, phase = "collect"
    PROVE  /\ entry \in 1 .. N /\ frame \in 1 .. Len(stack) /\ loc \in Nat \ {0}
           /\ Locations = section.records[entry].locations
           /\ Len(Locations) \in Nat
           /\ loc <= Len(Locations) =>
                 /\ stack[frame].words[loc] \in Word
                 /\ DecodeLocation(stack[frame], Locations[loc], loc) \in Word
<1>1. /\ section \in Section /\ stack \in Stack \cup {<<>>}
      /\ frame \in Nat /\ loc \in Nat
  BY DEF TypeBuild, TypeOK
<1>2. Len(stack) \in Nat /\ N \in Nat
  BY <1>1, StackFacts, SectionFacts
<1>3. entry \in 1 .. N /\ frame \in 1 .. Len(stack) /\ loc \in Nat \ {0}
  BY <1>1, <1>2 DEF LookupInv
<1>4. table[entry] = Entry(entry)
  BY <1>3 DEF TypeBuild, BuildInv
<1>5. table[entry].record = section.records[entry].at
  BY <1>4 DEF Entry
<1>6. Emitted(section)
  BY <1>1, SectionAssumption
<1>7. RecordAt(section.records[entry].at) = section.records[entry]
  <2>1. \A m \in 1 .. N : section.records[m].at = section.records[entry].at => m = entry
    BY <1>3, <1>6 DEF Emitted, N
  <2>2. \A r \in ToSet(section.records) : \E m \in 1 .. N : r = section.records[m]
    BY <1>1, SectionFacts, LenProperties DEF ToSet, N
  <2>3. section.records[entry] \in ToSet(section.records)
    BY <1>1, <1>3, SectionFacts, LenProperties DEF ToSet, N
  <2> QED BY <2>1, <2>2, <2>3 DEF RecordAt
<1>8. Locations = section.records[entry].locations
  BY <1>5, <1>7 DEF Locations
<1>9. Len(Locations) \in Nat
  <2>1. section.records[entry].locations \in Seq(Kinds)
    BY <1>1, <1>3, SectionFacts DEF RecordType
  <2> QED BY <2>1, <1>8, LenProperties
<1>10. stack[frame].words \in Seq(Word) /\ Len(Locations) <= Len(stack[frame].words)
  BY <1>1, <1>3, <1>8, StackFacts DEF FrameType
<1>11. loc <= Len(Locations) => stack[frame].words[loc] \in Word
  <2> SUFFICES ASSUME loc <= Len(Locations) PROVE stack[frame].words[loc] \in Word
    OBVIOUS
  <2>1. Len(stack[frame].words) \in Nat
    BY <1>10, LenProperties
  <2>2. loc \in 1 .. Len(stack[frame].words)
    BY <2>1, <1>3, <1>9, <1>10
  <2> QED BY <2>2, <1>10, ElementOfSeq
<1>12. SlotAddress \in Word /\ Zero \in Word
  BY DEF Word
<1> QED BY <1>3, <1>8, <1>9, <1>11, <1>12 DEF DecodeLocation

\* Every step keeps the table a prefix of the records.
LEMMA BuildStep ==
    ASSUME TypeBuild, LookupInv, [Next]_vars
    PROVE  TypeBuild'
<1> USE DEF TypeBuild, build_vars, search_vars, trace_lists
<1>1. /\ section \in Section /\ stack \in Stack \cup {<<>>}
      /\ table \in Seq([pc : Nat \ {0}, record : Nat])
      /\ i \in Nat /\ j \in Nat /\ current \in Nat /\ frame \in Nat
      /\ low \in Nat /\ high \in Nat /\ entry \in Nat /\ loc \in Nat
      /\ tracing_flag \subseteq Object /\ tracing_worklist \in Seq(Object)
  BY DEF TypeOK
<1>2. ASSUME UNCHANGED <<section, build_vars>>, phase' # "build",
             phase' \in {"start"} => phase = "start",
             phase' \in {"unwind", "lookup", "collect"} => allocated,
             phase = "build" => Len(table) = N \/ ~allocated
      PROVE  BuildInv'
  BY <1>2, SameSection DEF BuildInv
<1>3. CASE CheckVersion
  BY <1>1, <1>2, <1>3 DEF CheckVersion, TypeOK, Phases, BuildInv
<1>4. CASE CollectStackRoots
  <2>1. TypeOK'
    BY <1>1, <1>4, SectionFacts, EmptySeq DEF CollectStackRoots, TypeOK, Phases
  <2>2. phase' = "build" => ~allocated /\ ~NoSection
    BY <1>4 DEF CollectStackRoots
  <2>3. ~NoSection => 1 \in 1 .. NF /\ section.functions[1].first = 1
                       /\ section.functions[1].num_records \in Nat
    <3> SUFFICES ASSUME ~NoSection
                 PROVE  1 \in 1 .. NF /\ section.functions[1].first = 1
                        /\ section.functions[1].num_records \in Nat
      OBVIOUS
    <3>1. 1 \in 1 .. NF
      BY <1>1, SectionFacts
    <3>2. section.functions[1].num_records \in Nat
      BY <3>1, <1>1, SectionFacts DEF FunctionType
    <3>3. \A f \in 1 .. NF : f = 1 => section.functions[f].first = 1
      BY <1>1, SectionAssumption DEF Emitted, NF
    <3> QED BY <3>1, <3>2, <3>3
  <2>4. 0 < N => section.records[1].at = FirstRecordAt(section)
    BY <1>1, SectionFacts, SectionAssumption DEF Emitted, N
  <2>5. phase' = "build" => Len(table) = 0
    BY <2>2, EmptySeq DEF BuildInv
  <2>6. section' = section /\ table' = table /\ allocated' = allocated /\ i' = 1 /\ j' = 0
        /\ current' = FirstRecordAt(section) /\ phase = "idle"
        /\ phase' \in {"idle", "unwind", "build"} /\ (phase' = "unwind" => allocated)
    BY <1>4 DEF CollectStackRoots
  <2>7. ASSUME phase' = "build"
        PROVE  /\ 1 <= NF /\ 0 <= section.functions[1].num_records
               /\ Len(table) = section.functions[1].first - 1 + 0
               /\ Len(table) < N => FirstRecordAt(section) = section.records[Len(table) + 1].at
    <3>1. NF \in Nat /\ N \in Nat
      BY <1>1, SectionFacts
    <3>2. 1 <= NF /\ section.functions[1].first = 1 /\ section.functions[1].num_records \in Nat
      BY <3>1, <2>2, <2>3, <2>7
    <3>3. Len(table) = 0
      BY <2>5, <2>7
    <3>4. Len(table) < N => FirstRecordAt(section) = section.records[Len(table) + 1].at
      BY <3>3, <2>4
    <3>5. \A b \in Nat : 0 <= b
      OBVIOUS
    <3> QED BY <3>2, <3>3, <3>4, <3>5
  <2>8. BuildInv'
    <3>1. CASE phase' # "build"
      BY <3>1, <2>6, SameSection DEF BuildInv
    <3>2. CASE phase' = "build"
      <4>1. NF \in Nat /\ N \in Nat /\ 1 \in 1 .. NF + 1 /\ ~(1 > NF)
        BY <3>2, <2>7, <1>1, SectionFacts
      <4> QED BY <3>2, <4>1, <2>6, <2>7, SameSection DEF BuildInv
    <3> QED BY <3>1, <3>2
  <2> QED BY <2>1, <2>8
<1>5. CASE AllocTable
  BY <1>1, <1>5, SameSection DEF AllocTable, TypeOK, Phases, BuildInv
<1>6. CASE BuildEntry
  BY <1>6, BuildEntryStep
<1>7. CASE NextFunction
  <2>1. section' = section /\ table' = table /\ allocated' = allocated /\ i' = i + 1 /\ j' = 0
        /\ current' = current /\ phase = "build" /\ phase' = phase /\ allocated
        /\ i \in 1 .. NF /\ j >= section.functions[i].num_records
    BY <1>1, <1>7, SectionFacts DEF NextFunction, BuildInv, NF
  <2>2. j = section.functions[i].num_records /\ Len(table) = section.functions[i].first - 1 + j
    <3>1. section.functions[i].num_records \in Nat
      BY <1>1, <2>1, SectionFacts DEF FunctionType
    <3>2. i <= NF
      BY <2>1, <1>1, SectionFacts
    <3>3. j <= section.functions[i].num_records /\ Len(table) = section.functions[i].first - 1 + j
      BY <3>2, <2>1 DEF BuildInv
    <3>4. \A b \in Nat : j <= b /\ j >= b => j = b
      BY <1>1
    <3> QED BY <3>1, <3>3, <3>4, <2>1
  <2>3. i < NF => /\ i + 1 \in 1 .. NF
                  /\ section.functions[i + 1].first =
                        section.functions[i].first + section.functions[i].num_records
    <3> SUFFICES ASSUME i < NF
                 PROVE  /\ i + 1 \in 1 .. NF
                        /\ section.functions[i + 1].first =
                              section.functions[i].first + section.functions[i].num_records
      OBVIOUS
    <3>1. i + 1 \in 1 .. NF /\ i + 1 > 1 /\ (i + 1) - 1 = i
      BY <2>1, <1>1, SectionFacts
    <3>2. \A f \in 1 .. NF : f > 1 => section.functions[f].first =
             section.functions[f - 1].first + section.functions[f - 1].num_records
      BY <1>1, SectionAssumption DEF Emitted, NF
    <3> QED BY <3>1, <3>2
  <2>4. i = NF => section.functions[i].first + section.functions[i].num_records = N + 1
    BY <1>1, <2>1, SectionAssumption DEF Emitted, NF, N
  <2>5. /\ section.functions[i].first \in Nat /\ section.functions[i].num_records \in Nat
        /\ \A f \in 1 .. NF : section.functions[f].num_records \in Nat
    BY <1>1, <2>1, SectionFacts DEF FunctionType
  <2> DEFINE a == section.functions[i].first
             b == section.functions[i].num_records
             c == section.functions[i + 1].first
             d == section.functions[i + 1].num_records
  <2>6. /\ a \in Nat /\ b \in Nat /\ Len(table) = a - 1 + b
        /\ i < NF => c = a + b /\ d \in Nat
        /\ i = NF => a + b = N + 1
    BY <2>2, <2>3, <2>4, <2>5
  <2>9. i \in Nat /\ NF \in Nat /\ N \in Nat /\ i \in 1 .. NF
    BY <2>1, <1>1, SectionFacts
  <2> HIDE DEF a, b, c, d
  <2>10. /\ i + 1 \in 1 .. NF + 1
         /\ i + 1 <= NF => 0 <= d /\ Len(table) = c - 1 + 0
         /\ i + 1 > NF => Len(table) = N
    BY <2>6, <2>9
  <2>7. BuildInv'
    BY <2>1, <2>10, SameSection DEF BuildInv, c, d
  <2>8. TypeOK'
    BY <1>1, <1>7 DEF NextFunction, TypeOK
  <2> QED BY <2>7, <2>8
<1>8. CASE BuildDone
  BY <1>1, <1>2, <1>8, SectionFacts DEF BuildDone, TypeOK, Phases, BuildInv, NF
<1>9. CASE UnwindStep
  BY <1>1, <1>2, <1>9, SectionFacts DEF UnwindStep, TypeOK, Phases, BuildInv, N
<1>10. CASE UnwindDone
  BY <1>1, <1>2, <1>10 DEF UnwindDone, TypeOK, Phases, BuildInv
<1>11. CASE LookupTurn
  <2>1. Mid \in Nat
    BY <1>1, <1>11 DEF LookupTurn, Mid
  <2>2. phase' \in {"lookup", "collect"} /\ low' \in Nat /\ high' \in Nat /\ entry' \in Nat
        /\ loc' \in Nat /\ UNCHANGED <<section, stack, build_vars, frame, trace_lists>>
    BY <1>1, <2>1, <1>11 DEF LookupTurn, HighAfter, LowAfter
  <2>3. BuildInv'
    BY <1>2, <2>2, <1>11 DEF LookupTurn, BuildInv
  <2>4. TypeOK'
    BY <1>1, <2>2 DEF TypeOK, Phases
  <2> QED BY <2>3, <2>4
<1>12. CASE LookupFails
  BY <1>1, <1>2, <1>12 DEF LookupFails, TypeOK, Phases, BuildInv
<1>13. CASE CollectLocation
  <2> DEFINE w == DecodeLocation(stack[frame], Locations[loc], loc)
  <2>1. w \in Word
    BY <1>13, CollectFacts DEF CollectLocation
  <2>2. w.tag = "Own" => w.obj \in Object
    BY <2>1 DEF Word, SlotAddress, Zero
  <2> HIDE DEF w
  <2>3. UNCHANGED trace_lists \/ TracingPush(w)
    BY <1>13 DEF CollectLocation, w
  <2>4. tracing_flag' \subseteq Object /\ tracing_worklist' \in Seq(Object)
    <3>1. CASE w.tag = "Own" /\ TracingPush(w)
      <4>1. Append(tracing_worklist, w.obj) \in Seq(Object)
        BY <1>1, <2>2, <3>1, AppendSet
      <4> QED BY <1>1, <2>2, <3>1, <4>1 DEF TracingPush
    <3>2. CASE UNCHANGED trace_lists
      BY <1>1, <3>2
    <3> QED BY <2>3, <3>1, <3>2 DEF TracingPush
  <2>5. BuildInv'
    BY <1>2, <1>13 DEF CollectLocation, BuildInv
  <2>6. TypeOK'
    BY <1>1, <2>4, <1>13 DEF CollectLocation, TypeOK
  <2> QED BY <2>5, <2>6
<1>14. CASE FrameDone
  BY <1>1, <1>2, <1>14 DEF FrameDone, TypeOK, Phases, BuildInv
<1>15. CASE UNCHANGED vars
  BY <1>15, SameSection DEF vars, TypeOK, BuildInv
<1> QED BY <1>3, <1>4, <1>5, <1>6, <1>7, <1>8, <1>9, <1>10, <1>11, <1>12, <1>13, <1>14,
           <1>15 DEF Next, Collecting

-----------------------------------------------------------------------------
(***************************************************************************)
(* The search                                                              *)
(***************************************************************************)

\* A turn of the search keeps the entry sought between low and high.
LEMMA LookupTurnStep ==
    ASSUME TypeBuild, LookupInv, LookupTurn
    PROVE  LookupInv'
<1>1. /\ section \in Section /\ stack \in Stack \cup {<<>>}
      /\ frame \in Nat /\ low \in Nat /\ high \in Nat /\ loc \in Nat
  BY DEF TypeBuild, TypeOK
<1>2. N \in Nat /\ Len(stack) \in Nat
  BY <1>1, SectionFacts, StackFacts
<1>3. /\ phase = "lookup" /\ low < high /\ high <= N
      /\ frame <= Len(stack) /\ frame >= 1
      /\ UNCHANGED <<section, stack, frame>>
  BY DEF LookupInv, LookupTurn
<1>4. Mid \in Nat /\ low <= Mid /\ Mid < high /\ Mid + 1 \in 1 .. N
  BY <1>1, <1>2, <1>3, Z3 DEF Mid
<1>5. table[Mid + 1].pc = PcOf(Mid + 1)
  <2>1. Len(table) = N
    BY <1>3 DEF TypeBuild, BuildInv
  <2> QED BY <2>1, <1>4 DEF TypeBuild, BuildInv, Entry
<1> DEFINE ip == stack[frame].ip
<1>6. CASE PcOf(Mid + 1) = ip /\ entry' = Mid + 1 /\ phase' = "collect" /\ loc' = 1
  BY <1>3, <1>4, <1>6, SameSection DEF LookupInv
<1>7. ip \in Nat /\ \A k \in 1 .. N : PcOf(k) \in Nat
  <2>1. ip \in Nat
    BY <1>1, <1>2, <1>3, StackFacts DEF FrameType
  <2>2. \A k \in 1 .. N : table[k] \in [pc : Nat \ {0}, record : Nat] /\ table[k] = Entry(k)
    BY <1>3, ElementOfSeq DEF TypeBuild, BuildInv, TypeOK
  <2>3. \A e \in [pc : Nat \ {0}, record : Nat] : e.pc \in Nat
    OBVIOUS
  <2>4. \A k \in 1 .. N : Entry(k).pc = PcOf(k)
    BY DEF Entry
  <2> QED BY <2>1, <2>2, <2>3, <2>4
<1>8. CASE ip < PcOf(Mid + 1) /\ high' = Mid /\ low' = low /\ phase' = phase
  <2>1. Ascending => \A k \in 1 .. N : PcOf(k) = ip => low < k /\ k <= Mid
    <3> SUFFICES ASSUME Ascending, NEW k \in 1 .. N, PcOf(k) = ip
                 PROVE  low < k /\ k <= Mid
      OBVIOUS
    <3>1. low < k
      BY <1>3 DEF LookupInv
    <3>2. CASE Mid + 1 < k
      BY <3>2, <1>4, <1>7, <1>8 DEF Ascending, N
    <3>3. CASE k = Mid + 1
      BY <3>3, <1>7, <1>8
    <3> QED BY <3>1, <3>2, <3>3, <1>2, <1>4
  <2> QED BY <2>1, <1>1, <1>2, <1>3, <1>4, <1>8, SameSection DEF LookupInv
<1>9. CASE ip > PcOf(Mid + 1) /\ low' = Mid + 1 /\ high' = high /\ phase' = phase
  <2>1. Ascending => \A k \in 1 .. N : PcOf(k) = ip => Mid + 1 < k /\ k <= high
    <3> SUFFICES ASSUME Ascending, NEW k \in 1 .. N, PcOf(k) = ip
                 PROVE  Mid + 1 < k /\ k <= high
      OBVIOUS
    <3>1. k <= high
      BY <1>3 DEF LookupInv
    <3>2. CASE k < Mid + 1
      BY <3>2, <1>4, <1>7, <1>9 DEF Ascending, N
    <3>3. CASE k = Mid + 1
      BY <3>3, <1>7, <1>9
    <3> QED BY <3>1, <3>2, <3>3, <1>2, <1>4
  <2> QED BY <2>1, <1>1, <1>2, <1>3, <1>4, <1>9, SameSection DEF LookupInv
<1> QED BY <1>5, <1>6, <1>8, <1>9 DEF LookupTurn, HighAfter, LowAfter

Inv == TypeBuild /\ LookupInv

\* Every step preserves the invariant of the table and of the search.
LEMMA InvStep ==
    ASSUME Inv, [Next]_vars
    PROVE  Inv'
<1> USE DEF build_vars, search_vars, trace_lists
<1>1. TypeBuild'
  BY BuildStep DEF Inv
<1>2. /\ section \in Section /\ stack \in Stack \cup {<<>>} /\ frame \in Nat /\ loc \in Nat
      /\ N \in Nat /\ Len(stack) \in Nat
  BY SectionFacts, StackFacts DEF Inv, TypeBuild, TypeOK
<1> SUFFICES LookupInv'
  BY <1>1 DEF Inv
<1>3. ASSUME phase' \in {"start", "idle", "exit"} \/ (phase = "build" /\ phase' = "build"),
             UNCHANGED <<stack, frame>>
      PROVE  LookupInv'
  BY <1>3 DEF LookupInv, Inv
<1>4. CASE CollectStackRoots
  <2>1. frame' = 0 /\ stack' \in Stack \cup {<<>>}
        /\ phase' \in {"idle", "build", "unwind"}
    BY <1>4 DEF CollectStackRoots
  <2>2. Len(stack') \in Nat
    BY <2>1, StackAssumption, EmptySeq, LenProperties
  <2> QED BY <2>1, <2>2 DEF LookupInv
<1>5. CASE UnwindStep
  <2>1. Ascending => \A k \in 1 .. N : 0 < k /\ k <= N
    BY <1>2
  <2> QED BY <1>5, <1>2, <2>1, SameSection DEF UnwindStep, LookupInv, Inv, N
<1>6. CASE BuildDone
  BY <1>6, <1>2 DEF BuildDone, LookupInv, Inv
<1>7. CASE LookupTurn
  BY <1>7, LookupTurnStep DEF Inv
<1>8. CASE LookupFails \/ FrameDone
  BY <1>8, <1>2, SameSection DEF LookupFails, FrameDone, LookupInv, Inv
<1>9. CASE CollectLocation
  BY <1>9, <1>2, SameSection DEF CollectLocation, LookupInv, Inv
<1>10. CASE UNCHANGED vars
  BY <1>10, SameSection DEF vars, LookupInv, Inv
<1>11. CASE CheckVersion \/ AllocTable \/ BuildEntry \/ NextFunction \/ UnwindDone
  BY <1>11, <1>3 DEF CheckVersion, AllocTable, BuildEntry, NextFunction, UnwindDone
<1> QED BY <1>1, <1>4, <1>5, <1>6, <1>7, <1>8, <1>9, <1>10, <1>11 DEF Next, Collecting, Inv

\* The invariant holds at every step of the collector.
LEMMA InvCorrect == Spec => []Inv
<1>1. Init => Inv
  <2>1. Init => LookupInv
    BY DEF Init, LookupInv
  <2> QED BY <2>1, BuildInit DEF Inv
<1>2. Inv /\ [Next]_vars => Inv'
  BY InvStep
<1> QED BY <1>1, <1>2, PTL DEF Spec

\* Every variable of the collector of roots keeps its type: in particular what
\* it pushes are objects, never the address of a stack slot.
THEOREM TypeCorrect == Spec => []TypeOK
<1>1. Inv => TypeOK
  BY DEF Inv, TypeBuild
<1> QED BY <1>1, InvCorrect, PTL

\* For every section LLVM may emit, whatever the padding of its records, the
\* table built from it has exactly its records, each under its return address.
THEOREM TableCorrect == Spec => []TableExact
<1>1. Inv => TableExact
  <2> SUFFICES ASSUME Inv PROVE TableExact
    OBVIOUS
  <2>1. N \in Nat /\ table \in Seq([pc : Nat \ {0}, record : Nat])
    BY SectionFacts DEF Inv, TypeBuild, TypeOK
  <2>2. ASSUME phase \in {"unwind", "lookup", "collect"}
        PROVE  table = [k \in 1 .. N |-> Entry(k)]
    <3>1. Len(table) = N /\ \A k \in 1 .. N : table[k] = Entry(k)
      BY <2>2 DEF Inv, TypeBuild, BuildInv
    <3>2. table = [k \in 1 .. N |-> table[k]]
      BY <2>1, <3>1, LenProperties
    <3> QED BY <3>1, <3>2
  <2>3. phase = "build" /\ Len(table) < N => current = section.records[Len(table) + 1].at
    BY DEF Inv, TypeBuild, BuildInv
  <2> QED BY <2>2, <2>3 DEF TableExact, N, Entry
<1> QED BY <1>1, InvCorrect, PTL

\* The binary search finds the record of every return address that has one, for
\* every number of records, and never another one.
THEOREM LookupCorrect == Spec => []LookupExact
<1>1. Inv => LookupExact
  <2> SUFFICES ASSUME Inv PROVE LookupExact
    OBVIOUS
  <2>1. low \in Nat /\ high \in Nat
    BY DEF Inv, TypeBuild, TypeOK
  <2>2. ASSUME phase = "lookup", low >= high, Ascending, NEW k \in 1 .. N
        PROVE  PcOf(k) # stack[frame].ip
    BY <2>1, <2>2, SectionFacts DEF Inv, TypeBuild, TypeOK, LookupInv
  <2> QED BY <2>2 DEF LookupExact, Inv, LookupInv, N
<1> QED BY <1>1, InvCorrect, PTL

-----------------------------------------------------------------------------
(***************************************************************************)
(* The roots                                                               *)
(***************************************************************************)

\* Location n of record k leads to an owned reference to o in frame f.
Leads(f, k, n, o) ==
    /\ f.regs
    /\ n \in 1 .. Len(section.records[k].locations)
    /\ section.records[k].locations[n] \in {"Register", "Indirect"}
    /\ f.words[n] = [tag |-> "Own", obj |-> o]

\* The references met so far: those of the frames that are done, and those of
\* the locations of the current frame that are.
FramesDone == IF phase = "unwind" THEN frame ELSE frame - 1
Met(o) ==
    \/ \E d \in 1 .. FramesDone : o \in FrameRoots(stack[d])
    \/ phase = "collect" /\ \E n \in 1 .. loc - 1 : Leads(stack[frame], entry, n, o)

\* What has been pushed is what has been met.
RootsInv ==
    /\ tracing_flag = ToSet(tracing_worklist) /\ IsInjective(tracing_worklist)
    /\ phase = "start" => stack = <<>> /\ tracing_worklist = <<>>
    /\ phase = "build" => tracing_flag = {} /\ frame = 0
    /\ phase \in {"unwind", "lookup", "collect"} =>
          /\ \A o \in tracing_flag : Met(o)
          /\ Ascending => \A o \in Object : Met(o) => o \in tracing_flag
    /\ RootsExact

\* The roots of a frame in terms of the locations of its records.
LEMMA FrameRootsFacts ==
    ASSUME TypeOK, NEW f, NEW o \in Object
    PROVE  o \in FrameRoots(f) <=>
             \E k \in 1 .. N : /\ PcOf(k) = f.ip
                               /\ \E n \in 1 .. Len(section.records[k].locations) :
                                     Leads(f, k, n, o)
<1>1. \A k \in 1 .. N : DOMAIN section.records[k].locations
                            = 1 .. Len(section.records[k].locations)
  BY SectionFacts, LenProperties DEF RecordType, TypeOK
<1> QED BY <1>1 DEF FrameRoots, Leads, N

\* A frame with no record has no roots; nor has one whose address is unknown.
LEMMA NoRoots ==
    ASSUME TypeOK, NEW f, \A k \in 1 .. N : PcOf(k) # f.ip
    PROVE  FrameRoots(f) = {}
<1>1. \A o \in Object : o \notin FrameRoots(f)
  BY FrameRootsFacts
<1> QED BY <1>1 DEF FrameRoots

LEMMA NoIpNoRecord ==
    ASSUME Inv, phase \in {"unwind", "lookup", "collect"}, NEW k \in 1 .. N
    PROVE  PcOf(k) # NoIp
<1>1. table[k] \in [pc : Nat \ {0}, record : Nat] /\ table[k] = Entry(k)
  BY ElementOfSeq DEF Inv, TypeBuild, BuildInv, TypeOK
<1>2. Entry(k).pc = PcOf(k) /\ \A e \in [pc : Nat \ {0}, record : Nat] : e.pc # 0
  BY DEF Entry
<1> QED BY <1>1, <1>2 DEF NoIp

\* One turn of the loop over the locations.
LEMMA CollectLocationRoots ==
    ASSUME Inv, RootsInv, CollectLocation
    PROVE  RootsInv'
<1> USE DEF build_vars, search_vars, trace_lists
<1> DEFINE f == stack[frame]
           w == DecodeLocation(f, Locations[loc], loc)
<1>1. /\ phase = "collect" /\ phase' = "collect" /\ loc' = loc + 1 /\ loc <= Len(Locations)
      /\ UNCHANGED <<section, stack, frame, entry>>
      /\ IF w = Zero THEN UNCHANGED trace_lists ELSE TracingPush(w)
  BY DEF CollectLocation
<1>2. /\ entry \in 1 .. N /\ loc \in Nat \ {0} /\ Locations = section.records[entry].locations
      /\ w \in Word /\ f.words[loc] \in Word
  BY <1>1, CollectFacts DEF Inv
<1>3. \A o \in Object : Leads(f, entry, loc, o) <=> w = [tag |-> "Own", obj |-> o]
  <2>1. \A o : SlotAddress # [tag |-> "Own", obj |-> o] /\ Zero # [tag |-> "Own", obj |-> o]
    BY DEF SlotAddress, Zero
  <2>2. loc \in 1 .. Len(section.records[entry].locations)
    BY <1>1, <1>2, CollectFacts DEF Inv
  <2> QED BY <2>1, <2>2, <1>2 DEF Leads, DecodeLocation
<1>4. \A o \in Object : Met(o)' <=> Met(o) \/ w = [tag |-> "Own", obj |-> o]
  <2>1. \A n : n \in 1 .. loc' - 1 <=> n \in 1 .. loc - 1 \/ n = loc
    BY <1>1, <1>2
  <2>2. \A d : FrameRoots(stack[d])' = FrameRoots(stack[d])
    BY <1>1, SameSection DEF FrameRoots
  <2>3. \A n, o : Leads(stack[frame], entry, n, o)' = Leads(stack[frame], entry, n, o)
    BY <1>1 DEF Leads
  <2>4. FramesDone' = FramesDone
    BY <1>1 DEF FramesDone
  <2> QED BY <1>1, <1>3, <2>1, <2>2, <2>3, <2>4 DEF Met
<1>5. w.tag = "Own" => w.obj \in Object /\ w = [tag |-> "Own", obj |-> w.obj]
  BY <1>2 DEF Word, SlotAddress, Zero
<1>6. w.tag # "Own" => \A o : w # [tag |-> "Own", obj |-> o]
  OBVIOUS
<1>7. Zero.tag # "Own"
  BY DEF Zero
<1> HIDE DEF w, f
<1>8. /\ tracing_flag = ToSet(tracing_worklist) /\ IsInjective(tracing_worklist)
      /\ tracing_worklist \in Seq(Object) /\ tracing_flag \subseteq Object
      /\ \A o \in tracing_flag : Met(o)
      /\ Ascending => \A o \in Object : Met(o) => o \in tracing_flag
  BY <1>1 DEF RootsInv, Inv, TypeBuild, TypeOK
<1>9. ASSUME \A o \in Object : Met(o)' <=> Met(o) \/ (w.tag = "Own" /\ o = w.obj),
             tracing_flag' = tracing_flag \cup (IF w.tag = "Own" THEN {w.obj} ELSE {}),
             tracing_flag' = ToSet(tracing_worklist') /\ IsInjective(tracing_worklist')
      PROVE  RootsInv'
  <2>1. \A o \in tracing_flag' : Met(o)'
    BY <1>5, <1>8, <1>9
  <2>2. Ascending' => \A o \in Object : Met(o)' => o \in tracing_flag'
    BY <1>1, <1>8, <1>9, SameSection
  <2> QED BY <1>1, <1>9, <2>1, <2>2 DEF RootsInv, RootsExact
<1>10. \A o \in Object : Met(o)' <=> Met(o) \/ (w.tag = "Own" /\ o = w.obj)
  BY <1>4, <1>5, <1>6
<1>11. CASE UNCHANGED trace_lists /\ (w.tag # "Own" \/ w.obj \in tracing_flag)
  BY <1>8, <1>9, <1>10, <1>11
<1>12. CASE w.tag = "Own" /\ w.obj \notin tracing_flag
            /\ tracing_flag' = tracing_flag \cup {w.obj}
            /\ tracing_worklist' = Append(tracing_worklist, w.obj)
  <2>1. ToSet(tracing_worklist') = ToSet(tracing_worklist) \cup {w.obj}
        /\ IsInjective(tracing_worklist')
    BY <1>5, <1>8, <1>12, AppendSet
  <2> QED BY <2>1, <1>8, <1>9, <1>10, <1>12
<1> QED BY <1>1, <1>7, <1>11, <1>12 DEF TracingPush

\* Steps that leave the roots of the frames and the pushed references alone.
LEMMA SameRoots ==
    ASSUME UNCHANGED <<section, stack>>
    PROVE  /\ \A d : FrameRoots(stack[d])' = FrameRoots(stack[d])
           /\ Ascending' = Ascending
           /\ \A e, n, o : Leads(stack[e], e, n, o)' = Leads(stack[e], e, n, o)
  BY SameSection DEF FrameRoots, Leads

\* The next frame is done, and its roots are in what has been pushed as far as
\* they must be.
LEMMA FrameEnds ==
    ASSUME Inv, RootsInv, phase \in {"unwind", "lookup", "collect"}, phase' = "unwind",
           UNCHANGED <<section, stack, trace_lists>>,
           FramesDone' = FramesDone + 1,
           \A o \in tracing_flag : Met(o) => Met(o)',
           Ascending => \A o \in Object : o \in FrameRoots(stack[FramesDone + 1]) => Met(o)
    PROVE  RootsInv'
<1>1. FramesDone \in Int /\ tracing_flag \subseteq Object
  BY SectionFacts DEF FramesDone, Inv, TypeBuild, TypeOK
<1>2. \A d : d \in 1 .. FramesDone' => d \in 1 .. FramesDone \/ d = FramesDone + 1
  BY <1>1
<1>3. Ascending' => \A o \in Object : Met(o)' => Met(o)
  BY <1>2, SameRoots DEF Met
<1>4. Ascending' = Ascending /\ tracing_flag' = tracing_flag /\ tracing_worklist' = tracing_worklist
  BY SameRoots DEF trace_lists
<1>5. \A o \in tracing_flag' : Met(o)'
  BY <1>4 DEF RootsInv
<1>6. Ascending' => \A o \in Object : Met(o)' => o \in tracing_flag'
  BY <1>3, <1>4 DEF RootsInv
<1> QED BY <1>4, <1>5, <1>6 DEF RootsInv, RootsExact

\* The addresses in the table are numbers, different ones if they ascend.
LEMMA PcDistinct ==
    ASSUME Inv, phase \in {"unwind", "lookup", "collect"}, Ascending,
           NEW k \in 1 .. N, NEW l \in 1 .. N, PcOf(k) = PcOf(l)
    PROVE  k = l
<1>1. \A m \in 1 .. N : table[m] \in [pc : Nat \ {0}, record : Nat] /\ table[m] = Entry(m)
  BY ElementOfSeq DEF Inv, TypeBuild, BuildInv, TypeOK
<1>2. \A m : Entry(m).pc = PcOf(m)
  BY DEF Entry
<1>3. \A e \in [pc : Nat \ {0}, record : Nat] : e.pc \in Nat
  OBVIOUS
<1>4. PcOf(k) \in Nat /\ PcOf(l) \in Nat
  BY <1>1, <1>2, <1>3
<1>5. k \in Int /\ l \in Int
  OBVIOUS
<1>6. ~(k < l) /\ ~(l < k)
  BY <1>4 DEF Ascending, N
<1> QED BY <1>5, <1>6

\* A frame is done: what its record leads to is what it holds.
LEMMA FrameDoneRoots ==
    ASSUME Inv, RootsInv, FrameDone
    PROVE  RootsInv'
<1>1. /\ phase = "collect" /\ phase' = "unwind" /\ loc > Len(Locations)
      /\ UNCHANGED <<section, stack, frame, trace_lists>>
  BY DEF FrameDone
<1>2. /\ entry \in 1 .. N /\ loc \in Nat \ {0} /\ Locations = section.records[entry].locations
      /\ Len(Locations) \in Nat /\ frame \in 1 .. Len(stack) /\ frame \in Nat
      /\ PcOf(entry) = stack[frame].ip /\ TypeOK
  BY <1>1, CollectFacts DEF Inv, TypeBuild, TypeOK, LookupInv
<1>3. FramesDone = frame - 1 /\ FramesDone' = FramesDone + 1 /\ FramesDone + 1 = frame
  BY <1>1, <1>2 DEF FramesDone
<1>4. \A o \in Object : \A n : Leads(stack[frame], entry, n, o) => o \in FrameRoots(stack[frame])
  BY <1>2, FrameRootsFacts DEF Leads
<1>5. tracing_flag \subseteq Object
  BY <1>2 DEF TypeOK
<1>6. \A o \in tracing_flag : Met(o) => Met(o)'
  <2> SUFFICES ASSUME NEW o \in tracing_flag, Met(o) PROVE Met(o)'
    OBVIOUS
  <2>1. \A d : d \in 1 .. FramesDone \/ d = frame => d \in 1 .. FramesDone'
    BY <1>2, <1>3
  <2>2. \E d \in 1 .. FramesDone' : o \in FrameRoots(stack[d])
    BY <1>3, <1>4, <1>5, <2>1 DEF Met
  <2> QED BY <2>2, <1>1, SameRoots DEF Met
<1>7. ASSUME Ascending, NEW o \in Object, o \in FrameRoots(stack[frame])
      PROVE  Met(o)
  <2>1. PICK k \in 1 .. N : /\ PcOf(k) = stack[frame].ip
                            /\ \E n \in 1 .. Len(section.records[k].locations) :
                                  Leads(stack[frame], k, n, o)
    BY <1>2, <1>7, FrameRootsFacts
  <2>2. k = entry
    BY <2>1, <1>1, <1>2, <1>7, PcDistinct
  <2>3. \A n \in 1 .. Len(Locations) : n \in 1 .. loc - 1
    BY <1>1, <1>2
  <2> QED BY <2>1, <2>2, <2>3, <1>1, <1>2 DEF Met
<1> QED BY <1>1, <1>3, <1>6, <1>7, FrameEnds

LEMMA ToSetEmpty == ToSet(<<>>) = {}
  BY DEF ToSet

\* Every step pushes what it meets and nothing else.
LEMMA RootsStep ==
    ASSUME Inv, RootsInv, [Next]_vars
    PROVE  RootsInv'
<1> USE DEF build_vars, search_vars, trace_lists
<1>1. /\ TypeOK /\ section \in Section /\ stack \in Stack \cup {<<>>} /\ frame \in Nat
      /\ N \in Nat /\ Len(stack) \in Nat /\ tracing_flag \subseteq Object
      /\ tracing_worklist \in Seq(Object)
  BY SectionFacts, StackFacts DEF Inv, TypeBuild, TypeOK
<1>2. ASSUME UNCHANGED <<section, stack, frame, entry, loc, trace_lists>>,
             phase' = phase \/ phase' = "exit"
      PROVE  RootsInv'
  <2>1. \A o : Met(o)' = Met(o) \/ phase' # phase
    BY <1>2, SameRoots, SameSection DEF Met, FramesDone, Leads
  <2>2. RootsExact'
    BY <1>2, SameRoots DEF RootsInv, RootsExact
  <2> QED BY <1>2, <2>1, <2>2, SameRoots DEF RootsInv
<1>3. CASE CollectStackRoots
  <2>1. ToSet(<<>>) = {} /\ IsInjective(<<>>)
    BY DEF ToSet, IsInjective
  <2>2. tracing_flag' = {} /\ tracing_worklist' = <<>> /\ frame' = 0
        /\ phase' \in {"idle", "build", "unwind"} /\ (phase' = "idle" => NoSection)
        /\ section' = section
    BY <1>3 DEF CollectStackRoots
  <2>3. \A o : phase' = "unwind" => ~Met(o)'
    BY <2>2 DEF Met, FramesDone
  <2>4. phase' = "idle" => UNION {FrameRoots(stack[d]) : d \in DOMAIN stack}' = {}
    <3> SUFFICES ASSUME NoSection, NEW d PROVE FrameRoots(stack[d])' = {}
      BY <2>2
    <3>1. N' = 0
      BY <1>1, <2>2, SectionFacts DEF N
    <3> QED BY <3>1 DEF FrameRoots, N
  <2> QED BY <2>1, <2>2, <2>3, <2>4 DEF RootsInv, RootsExact
<1>4. CASE BuildDone
  <2>1. phase = "build" /\ phase' = "unwind" /\ UNCHANGED <<section, stack, frame, trace_lists>>
    BY <1>4 DEF BuildDone
  <2>2. \A o : ~Met(o)'
    BY <2>1 DEF Met, FramesDone, RootsInv
  <2> QED BY <2>1, <2>2 DEF RootsInv, RootsExact
<1>5. CASE UnwindStep
  <2>1. phase = "unwind" /\ frame' = frame + 1 /\ UNCHANGED <<section, stack, loc, trace_lists>>
        /\ phase' = (IF stack[frame + 1].ip = NoIp THEN "unwind" ELSE "lookup")
    BY <1>5 DEF UnwindStep
  <2>2. CASE phase' = "lookup"
    <3>1. FramesDone' = FramesDone
      BY <2>1, <2>2, <1>1 DEF FramesDone
    <3>2. \A o : Met(o)' = Met(o)
      BY <3>1, <2>1, <2>2, SameRoots DEF Met
    <3> QED BY <3>2, <2>1, <2>2, SameRoots DEF RootsInv, RootsExact
  <2>3. CASE phase' = "unwind" /\ stack[frame + 1].ip = NoIp
    <3>1. FramesDone = frame /\ FramesDone' = FramesDone + 1
      BY <2>1, <2>3 DEF FramesDone
    <3>2. FrameRoots(stack[frame + 1]) = {}
      BY <2>1, <2>3, <1>1, NoRoots, NoIpNoRecord
    <3>3. \A o \in tracing_flag : Met(o) => Met(o)'
      <4>1. \A d \in 1 .. FramesDone : d \in 1 .. FramesDone'
        BY <3>1, <1>1
      <4> QED BY <4>1, <2>1, <2>3, SameRoots DEF Met
    <3> QED BY <2>1, <2>3, <3>1, <3>2, <3>3, FrameEnds
  <2> QED BY <2>1, <2>2, <2>3
<1>6. CASE UnwindDone
  <2>1. phase = "unwind" /\ phase' = "idle" /\ frame = Len(stack)
        /\ UNCHANGED <<section, stack, frame, trace_lists>>
    BY <1>6 DEF UnwindDone
  <2>2. DOMAIN stack = 1 .. frame /\ FramesDone = frame
    <3>1. stack \in Seq(FrameType)
      BY <1>1, StackAssumption, EmptySeq DEF FrameType
    <3> QED BY <2>1, <3>1, LenProperties DEF FramesDone
  <2>3. \A o : Met(o) <=> o \in UNION {FrameRoots(stack[d]) : d \in DOMAIN stack}
    BY <2>1, <2>2 DEF Met
  <2>4. UNION {FrameRoots(stack[d]) : d \in DOMAIN stack} \subseteq Object
    BY DEF FrameRoots
  <2>5. RootsExact'
    BY <2>1, <2>3, <2>4, SameRoots DEF RootsInv, RootsExact
  <2> QED BY <2>1, <2>5 DEF RootsInv
<1>7. CASE LookupTurn
  <2>1. phase = "lookup" /\ phase' \in {"lookup", "collect"} /\ (phase' = "collect" => loc' = 1)
        /\ UNCHANGED <<section, stack, frame, trace_lists>>
    BY <1>7 DEF LookupTurn
  <2>2. FramesDone' = FramesDone
    BY <2>1 DEF FramesDone
  <2>3. \A o : Met(o)' = Met(o)
    BY <2>1, <2>2, SameRoots DEF Met
  <2> QED BY <2>1, <2>3, SameRoots DEF RootsInv, RootsExact
<1>8. CASE LookupFails
  <2>1. phase = "lookup" /\ phase' = "unwind" /\ low >= high
        /\ UNCHANGED <<section, stack, frame, trace_lists>>
    BY <1>8 DEF LookupFails
  <2>2. FramesDone = frame - 1 /\ FramesDone' = FramesDone + 1 /\ FramesDone + 1 = frame
    BY <2>1, <1>1 DEF FramesDone
  <2>3. Ascending => FrameRoots(stack[frame]) = {}
    <3>1. low \in Nat /\ high \in Nat
      BY <1>1 DEF TypeOK
    <3>2. ASSUME Ascending, NEW k \in 1 .. N PROVE PcOf(k) # stack[frame].ip
      BY <3>1, <3>2, <2>1, <1>1 DEF Inv, LookupInv
    <3> QED BY <3>2, <1>1, NoRoots
  <2>4. \A o \in tracing_flag : Met(o) => Met(o)'
    <3>1. \A d \in 1 .. FramesDone : d \in 1 .. FramesDone'
      BY <2>2, <1>1
    <3> QED BY <3>1, <2>1, SameRoots DEF Met
  <2> QED BY <2>1, <2>2, <2>3, <2>4, FrameEnds
<1>9. CASE CollectLocation
  BY <1>9, CollectLocationRoots
<1>10. CASE FrameDone
  BY <1>10, FrameDoneRoots
<1>11. CASE CheckVersion
  <2>1. phase = "start" /\ phase' \in {"idle", "exit"}
        /\ UNCHANGED <<section, stack, frame, trace_lists>>
    BY <1>11 DEF CheckVersion
  <2>2. stack = <<>> /\ tracing_worklist = <<>> /\ tracing_flag = {}
    BY <2>1, ToSetEmpty DEF RootsInv
  <2>3. DOMAIN stack = {} /\ IsInjective(<<>>)
    BY <2>2 DEF IsInjective
  <2>4. RootsExact'
    BY <2>1, <2>2, <2>3, ToSetEmpty DEF RootsExact
  <2> QED BY <2>1, <2>2, <2>4 DEF RootsInv
<1>12. CASE AllocTable \/ BuildEntry \/ NextFunction
  BY <1>2, <1>12 DEF AllocTable, BuildEntry, NextFunction
<1>13. CASE UNCHANGED vars
  BY <1>2, <1>13 DEF vars
<1> QED BY <1>3, <1>4, <1>5, <1>6, <1>7, <1>8, <1>9, <1>10, <1>11, <1>12, <1>13
        DEF Next, Collecting

\* The roots pushed by a trace are the owned references of the frames, each
\* once, for every section and every stack: with records that ascend all of
\* them, and in no case anything else.
THEOREM RootsCorrect == Spec => []RootsExact
<1>1. Init => RootsInv
  <2> SUFFICES ASSUME Init PROVE RootsInv
    OBVIOUS
  <2>1. tracing_worklist = <<>> /\ tracing_flag = {} /\ stack = <<>> /\ phase = "start"
    BY DEF Init
  <2>2. IsInjective(<<>>)
    BY DEF IsInjective
  <2> QED BY <2>1, <2>2, ToSetEmpty DEF RootsInv, RootsExact
<1>2. Inv /\ RootsInv /\ [Next]_vars => RootsInv'
  BY RootsStep
<1>3. RootsInv => RootsExact
  BY DEF RootsInv
<1> QED BY <1>1, <1>2, <1>3, InvCorrect, PTL DEF Spec

=============================================================================
