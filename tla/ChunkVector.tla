---------------------------- MODULE ChunkVector ----------------------------
(***************************************************************************)
(* The vectors behind the worklists and the candidate registry             *)
(* (runtime/include/syli/chunk_vector.h): chunks of a fixed size reached   *)
(* through an array that doubles, and a cursor (active_chunk,              *)
(* active_offset) to where the next entry goes.  Chunks are kept when the  *)
(* vector shrinks.                                                         *)
(*                                                                         *)
(* An allocation may fail at any time.  A push that would then write       *)
(* outside the array is undefined behaviour and has no successor.          *)
(***************************************************************************)
EXTENDS Integers, SequencesExt

CONSTANTS
    Value,           \* the entries
    Garbage,         \* what malloc leaves in a cell
    CHUNK_SIZE,      \* CHUNK_VECTOR_CHUNK_SIZE
    INITIAL_CAPACITY,  \* CHUNK_VECTOR_INITIAL_CHUNK_ARRAY_CAPACITY
    MaxElements      \* bound on the size of the vector

ASSUME VectorAssumption ==
    /\ CHUNK_SIZE \in Nat \ {0}
    /\ INITIAL_CAPACITY \in Nat \ {0}
    /\ MaxElements \in Nat

VARIABLES
    live,            \* cv->chunks # NULL
    chunks,          \* the chunks; chunk_count is Len(chunks)
    array_size,      \* the entries the array cv->chunks really has room for
    chunk_array_capacity,
    active_chunk, active_offset, total_elements

cursor == <<active_chunk, active_offset, total_elements>>
vars   == <<live, chunks, array_size, chunk_array_capacity, cursor>>

Chunk == [0 .. CHUNK_SIZE - 1 -> Value \cup {Garbage}]
FreshChunk == [k \in 0 .. CHUNK_SIZE - 1 |-> Garbage]

\* The type invariant: the cursor never leaves its chunk, and no counter wraps below 0.
TypeOK ==
    /\ live \in BOOLEAN
    /\ chunks \in Seq(Chunk)
    /\ array_size \in Nat
    /\ chunk_array_capacity \in Nat
    /\ active_chunk \in Nat
    /\ active_offset \in 0 .. CHUNK_SIZE
    /\ total_elements \in Nat

\* vector_init
Init ==
    /\ live = TRUE
    /\ chunks = <<FreshChunk>>
    /\ array_size = INITIAL_CAPACITY
    /\ chunk_array_capacity = INITIAL_CAPACITY
    /\ active_chunk = 0 /\ active_offset = 0 /\ total_elements = 0

-----------------------------------------------------------------------------
\* vector_index_to_chunk and the cell it leads to; indices are those of C.
EntryAt(i) == chunks[(i \div CHUNK_SIZE) + 1][i % CHUNK_SIZE]

\* Mutant of WriteCell: the last chunk allocated, not the one of the cursor.
WriteCellLastChunk(cs, chunk, offset, v) ==
    [cs EXCEPT ![Len(cs)] = [cs[Len(cs)] EXCEPT ![offset] = v]]

\* An assignment to one cell of the chunks.
WriteCell(cs, chunk, offset, v) ==
    [cs EXCEPT ![chunk + 1] = [cs[chunk + 1] EXCEPT ![offset] = v]]

\* vector_back on a vector that is not empty.
Back == IF active_offset > 0 THEN chunks[active_chunk + 1][active_offset - 1]
        ELSE chunks[active_chunk][CHUNK_SIZE - 1]

\* The next entry goes to the next chunk.
ChunkFull == active_offset >= CHUNK_SIZE

\* Then the array or the chunks it holds may not be enough.
ArrayTooSmall == ChunkFull /\ active_chunk + 1 >= chunk_array_capacity
ChunkMissing  == ChunkFull /\ active_chunk + 1 >= Len(chunks)

\* The cell the next entry goes to.
SlotChunk  == IF ChunkFull THEN active_chunk + 1 ELSE active_chunk
SlotOffset == IF ChunkFull THEN 0 ELSE active_offset

\* That cell is in the array, or the array is extended first.
SlotInRoom == /\ SlotChunk < Len(chunks) \/ ChunkMissing
              /\ SlotChunk < array_size \/ ArrayTooSmall

\* vector_push_back, and vector_alloc_slot followed by its caller's assignment
\* to the slot (gc_vector_push_back, gc_register_candidate).
PushBack(v) ==
    /\ live
    /\ total_elements < MaxElements
    /\ SlotInRoom
    /\ LET capacity == IF ArrayTooSmall THEN 2 * chunk_array_capacity
                       ELSE chunk_array_capacity
           grown    == IF ChunkMissing THEN Append(chunks, FreshChunk) ELSE chunks
       IN  /\ chunk_array_capacity' = capacity
           /\ array_size' = IF ArrayTooSmall THEN capacity ELSE array_size
           /\ chunks' = WriteCell(grown, SlotChunk, SlotOffset, v)
    /\ active_chunk' = SlotChunk
    /\ active_offset' = SlotOffset + 1
    /\ total_elements' = total_elements + 1
    /\ UNCHANGED live

\* vector_alloc_slot when realloc fails: the cursor has moved and the capacity
\* is doubled already.
ReallocFails ==
    /\ live
    /\ ArrayTooSmall
    /\ chunk_array_capacity' = 2 * chunk_array_capacity
    /\ active_chunk' = active_chunk + 1
    /\ active_offset' = 0
    /\ UNCHANGED <<live, chunks, array_size, total_elements>>

\* Mutant of MallocFails: the cursor is not moved back.
MallocFailsMoved ==
    /\ live
    /\ ChunkMissing /\ (SlotChunk < array_size \/ ArrayTooSmall)
    /\ chunk_array_capacity' = IF ArrayTooSmall THEN 2 * chunk_array_capacity
                               ELSE chunk_array_capacity
    /\ array_size' = chunk_array_capacity'
    /\ active_chunk' = active_chunk + 1
    /\ active_offset' = 0
    /\ UNCHANGED <<live, chunks, total_elements>>

\* vector_alloc_slot when malloc fails: the cursor is moved back to the end of
\* the last chunk; a bigger array is kept.
MallocFails ==
    /\ live
    /\ ChunkMissing /\ (SlotChunk < array_size \/ ArrayTooSmall)
    /\ chunk_array_capacity' = IF ArrayTooSmall THEN 2 * chunk_array_capacity
                               ELSE chunk_array_capacity
    /\ array_size' = IF ArrayTooSmall THEN chunk_array_capacity' ELSE array_size
    /\ active_offset' = CHUNK_SIZE
    /\ UNCHANGED <<live, chunks, active_chunk, total_elements>>

\* vector_pop_back
PopBack ==
    /\ live
    /\ total_elements # 0
    /\ total_elements' = total_elements - 1
    /\ IF active_offset > 0
       THEN active_offset' = active_offset - 1 /\ UNCHANGED active_chunk
       ELSE active_offset' = CHUNK_SIZE - 1 /\ active_chunk' = active_chunk - 1
    /\ UNCHANGED <<live, chunks, array_size, chunk_array_capacity>>

\* vector_at and an assignment through the pointer it returns.
Replace(i, v) ==
    /\ live
    /\ i < total_elements
    /\ chunks' = WriteCell(chunks, i \div CHUNK_SIZE, i % CHUNK_SIZE, v)
    /\ UNCHANGED <<live, array_size, chunk_array_capacity, cursor>>

\* Mutant of Clear: only the active chunk is emptied.
ClearActiveChunk ==
    /\ live
    /\ active_offset' = 0 /\ total_elements' = active_chunk * CHUNK_SIZE
    /\ UNCHANGED <<live, chunks, array_size, chunk_array_capacity, active_chunk>>

\* vector_clear: the chunks are kept and used again.
Clear ==
    /\ live
    /\ active_chunk' = 0 /\ active_offset' = 0 /\ total_elements' = 0
    /\ UNCHANGED <<live, chunks, array_size, chunk_array_capacity>>

\* vector_destroy: the cursor and the capacity keep their values.
Destroy ==
    /\ live
    /\ live' = FALSE
    /\ chunks' = <<>>
    /\ array_size' = 0
    /\ total_elements' = 0
    /\ UNCHANGED <<chunk_array_capacity, active_chunk, active_offset>>

\* vector_init of a vector that was destroyed.
Reinit ==
    /\ ~live
    /\ live' = TRUE
    /\ chunks' = <<FreshChunk>>
    /\ array_size' = INITIAL_CAPACITY
    /\ chunk_array_capacity' = INITIAL_CAPACITY
    /\ active_chunk' = 0 /\ active_offset' = 0 /\ total_elements' = 0

Next ==
    \/ \E v \in Value : PushBack(v)
    \/ ReallocFails
    \/ MallocFails
    \/ PopBack
    \/ \E i \in 0 .. MaxElements, v \in Value : Replace(i, v)
    \/ Clear
    \/ Destroy
    \/ Reinit

Spec == Init /\ [][Next]_vars

-----------------------------------------------------------------------------
(***************************************************************************)
(* Properties                                                              *)
(***************************************************************************)

\* The cursor is where index arithmetic expects the next entry, whatever the
\* order of pushes, pops, clears and failed allocations; every chunk is within
\* the array; and the cursor is in a chunk that exists, unless a realloc failed.
CursorExact ==
    live =>
        /\ total_elements = active_chunk * CHUNK_SIZE + active_offset
        /\ Len(chunks) <= array_size
        /\ array_size = chunk_array_capacity => active_chunk < Len(chunks)

\* vector_back finds by the cursor the entry vector_at finds by its index.
BackIsLastEntry ==
    live /\ total_elements > 0 => Back = EntryAt(total_elements - 1)

\* The entries, as vector_at returns them.
Elements == [i \in 1 .. total_elements |-> EntryAt(i - 1)]

Vector == INSTANCE VectorSpec WITH seq <- Elements

\* The chunks, the array and the cursor together implement a sequence: what the
\* worklists of the collectors are taken to be in SyliGC.
ImplementsVector == Vector!Spec

\* Each operation has its own effect on that sequence, with the value and the
\* index its caller gave it: a push into a chunk that was used before appends
\* its value and not what the cell held, and a push that fails changes nothing.
OperationsExact ==
    [][/\ \A v \in Value : PushBack(v) => Vector!PushBack(v)
       /\ PopBack => Vector!PopBack
       /\ \A i \in 0 .. MaxElements, v \in Value : Replace(i, v) => Vector!Replace(i + 1, v)
       /\ Clear => Vector!Clear
       /\ ReallocFails \/ MallocFails => Elements' = Elements]_vars

=============================================================================
