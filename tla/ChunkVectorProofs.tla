------------------------- MODULE ChunkVectorProofs -------------------------
(***************************************************************************)
(* ChunkVector implements a sequence, for every chunk size and capacity.   *)
(***************************************************************************)
EXTENDS ChunkVector, BasicLemmas

-----------------------------------------------------------------------------
(***************************************************************************)
(* The inductive invariant                                                 *)
(***************************************************************************)

\* CursorExact with what it needs to be inductive: after a failed realloc the
\* cursor may be one past the last chunk, but then nothing is behind it.
CursorInv ==
    live =>
        /\ total_elements = active_chunk * CHUNK_SIZE + active_offset
        /\ Len(chunks) <= array_size
        /\ array_size <= chunk_array_capacity
        /\ active_chunk <= Len(chunks)
        /\ active_chunk = Len(chunks) => active_offset = 0 /\ array_size # chunk_array_capacity

\* The inductive invariant: a destroyed vector has no entries.
VInv == TypeOK /\ CursorInv /\ (live \/ total_elements = 0)

\* A new chunk is a chunk.
LEMMA FreshIsChunk == FreshChunk \in Chunk
  BY DEF FreshChunk, Chunk

\* Assigning one cell keeps the chunks.
LEMMA AssignCell ==
    ASSUME NEW s \in Seq(Chunk), NEW k \in 0 .. Len(s) - 1, NEW r \in 0 .. CHUNK_SIZE - 1,
           NEW v \in Value
    PROVE  /\ WriteCell(s, k, r, v) \in Seq(Chunk)
           /\ Len(WriteCell(s, k, r, v)) = Len(s)
           /\ \A j \in 1 .. Len(s) : \A q \in 0 .. CHUNK_SIZE - 1 :
                 WriteCell(s, k, r, v)[j][q] = IF j = k + 1 /\ q = r THEN v ELSE s[j][q]
<1> DEFINE c == [s[k + 1] EXCEPT ![r] = v]
<1>1. k + 1 \in 1 .. Len(s)
  BY LenProperties
<1>2. s[k + 1] \in Chunk
  BY <1>1, ElementOfSeq
<1>3. c \in Chunk /\ \A q \in 0 .. CHUNK_SIZE - 1 : c[q] = IF q = r THEN v ELSE s[k + 1][q]
  BY <1>2 DEF Chunk
<1>4. WriteCell(s, k, r, v) = [s EXCEPT ![k + 1] = c]
  BY DEF WriteCell
<1> HIDE DEF c
<1>5. /\ [s EXCEPT ![k + 1] = c] \in Seq(Chunk)
      /\ Len([s EXCEPT ![k + 1] = c]) = Len(s)
      /\ \A j \in 1 .. Len(s) : [s EXCEPT ![k + 1] = c][j] = IF j = k + 1 THEN c ELSE s[j]
  BY <1>1, <1>3, ExceptSeq
<1> QED BY <1>3, <1>4, <1>5

\* In particular their number.
LEMMA AssignKeeps ==
    ASSUME NEW s \in Seq(Chunk), NEW k \in 0 .. Len(s) - 1, NEW r \in 0 .. CHUNK_SIZE - 1,
           NEW v \in Value
    PROVE  WriteCell(s, k, r, v) \in Seq(Chunk) /\ Len(WriteCell(s, k, r, v)) = Len(s)
  BY AssignCell, Zenon

\* What a push does to the chunks: it writes one cell, in room.
LEMMA PushChunks ==
    ASSUME VInv, NEW v \in Value, PushBack(v)
    PROVE  /\ chunks' \in Seq(Chunk)
           /\ Len(chunks') >= Len(chunks)
           /\ Len(chunks') <= array_size'
           /\ SlotChunk \in Nat /\ SlotOffset \in 0 .. CHUNK_SIZE - 1
           /\ SlotChunk < Len(chunks')
           /\ SlotChunk * CHUNK_SIZE + SlotOffset = total_elements
           /\ array_size' <= chunk_array_capacity'
           /\ array_size' \in Nat /\ chunk_array_capacity' \in Nat
           /\ chunks'[SlotChunk + 1][SlotOffset] = v
           /\ \A j \in 1 .. Len(chunks) : \A q \in 0 .. CHUNK_SIZE - 1 :
                 (j # SlotChunk + 1 \/ q # SlotOffset) => chunks'[j][q] = chunks[j][q]
<1> DEFINE S == CHUNK_SIZE
           n == Len(chunks)
           grown == IF ChunkMissing THEN Append(chunks, FreshChunk) ELSE chunks
<1>0. S \in Nat \ {0} /\ n \in Nat /\ chunks \in Seq(Chunk)
  BY VectorAssumption, LenProperties DEF VInv, TypeOK
<1>1. /\ live /\ SlotInRoom
      /\ active_chunk \in Nat /\ active_offset \in 0 .. S
      /\ total_elements = active_chunk * S + active_offset
      /\ n <= array_size /\ array_size <= chunk_array_capacity /\ active_chunk <= n
      /\ active_chunk = n => active_offset = 0
      /\ array_size \in Nat /\ chunk_array_capacity \in Nat
  BY DEF VInv, TypeOK, CursorInv, PushBack
<1>2. SlotChunk \in Nat /\ SlotOffset \in 0 .. S - 1
  BY <1>0, <1>1 DEF SlotChunk, SlotOffset, ChunkFull
<1>3. SlotChunk * S + SlotOffset = total_elements
  <2>1. CASE ChunkFull
    BY <1>0, <1>1, <2>1, Distribute DEF SlotChunk, SlotOffset, ChunkFull
  <2>2. CASE ~ChunkFull
    BY <1>1, <2>2 DEF SlotChunk, SlotOffset
  <2> QED BY <2>1, <2>2
<1>4. /\ grown \in Seq(Chunk)
      /\ Len(grown) = IF ChunkMissing THEN n + 1 ELSE n
      /\ \A j \in 1 .. n : grown[j] = chunks[j]
  BY <1>0, FreshIsChunk, AppendProperties
<1>5. SlotChunk < Len(grown) /\ (ChunkMissing => SlotChunk = n)
  <2>1. CASE ChunkMissing
    <3>1. active_offset # 0 /\ active_chunk # n
      BY <1>0, <1>1, <2>1 DEF ChunkMissing, ChunkFull
    <3>2. SlotChunk = active_chunk + 1 /\ active_chunk + 1 >= n
      BY <2>1 DEF ChunkMissing, SlotChunk
    <3>3. SlotChunk = n
      BY <1>0, <1>1, <3>1, <3>2
    <3> QED BY <1>0, <1>4, <2>1, <3>3
  <2>2. CASE ~ChunkMissing
    BY <1>1, <1>4, <2>2 DEF SlotInRoom
  <2> QED BY <2>1, <2>2
<1>6. /\ chunks' = WriteCell(grown, SlotChunk, SlotOffset, v)
      /\ chunk_array_capacity' = IF ArrayTooSmall THEN 2 * chunk_array_capacity
                                 ELSE chunk_array_capacity
      /\ array_size' = IF ArrayTooSmall THEN 2 * chunk_array_capacity ELSE array_size
  BY DEF PushBack
<1>7. Len(grown) <= array_size' /\ array_size' <= chunk_array_capacity'
      /\ array_size' \in Nat /\ chunk_array_capacity' \in Nat
  <2>1. CASE ArrayTooSmall
    <3>1. active_offset # 0 /\ n >= 1
      BY <1>0, <1>1, <2>1 DEF ArrayTooSmall, ChunkFull
    <3> QED BY <1>0, <1>1, <1>4, <1>6, <2>1, <3>1
  <2>2. CASE ~ArrayTooSmall /\ ChunkMissing
    <3>1. SlotChunk < array_size
      BY <1>1, <2>2 DEF SlotInRoom
    <3> QED BY <1>0, <1>1, <1>4, <1>5, <1>6, <2>2, <3>1
  <2>3. CASE ~ArrayTooSmall /\ ~ChunkMissing
    BY <1>0, <1>1, <1>4, <1>6, <2>3
  <2> QED BY <2>1, <2>2, <2>3
<1> HIDE DEF grown
<1>8. SlotChunk \in 0 .. Len(grown) - 1 /\ SlotChunk + 1 \in 1 .. Len(grown)
  BY <1>0, <1>2, <1>4, <1>5
<1>9. /\ chunks' \in Seq(Chunk)
      /\ Len(chunks') = Len(grown)
      /\ \A j \in 1 .. Len(grown) : \A q \in 0 .. S - 1 :
            chunks'[j][q] = IF j = SlotChunk + 1 /\ q = SlotOffset THEN v ELSE grown[j][q]
  BY <1>2, <1>4, <1>6, <1>8, AssignCell
<1>10. Len(grown) >= n /\ \A j \in 1 .. n : j \in 1 .. Len(grown)
  BY <1>0, <1>4
<1>11. \A j \in 1 .. n : \A q \in 0 .. S - 1 :
          (j # SlotChunk + 1 \/ q # SlotOffset) => chunks'[j][q] = chunks[j][q]
  BY <1>4, <1>9, <1>10
<1>12. chunks'[SlotChunk + 1][SlotOffset] = v
  BY <1>2, <1>8, <1>9
<1> QED BY <1>2, <1>3, <1>5, <1>7, <1>9, <1>10, <1>11, <1>12

\* The entries below total_elements are in chunks that exist.
LEMMA EntryInRoom ==
    ASSUME VInv, live, NEW i \in 0 .. total_elements - 1
    PROVE  /\ i \in Nat
           /\ i \div CHUNK_SIZE \in 0 .. Len(chunks) - 1
           /\ i % CHUNK_SIZE \in 0 .. CHUNK_SIZE - 1
           /\ EntryAt(i) \in Value \cup {Garbage}
<1> DEFINE S == CHUNK_SIZE
           d == i \div S
           n == Len(chunks)
<1>1. S \in Nat \ {0} /\ n \in Nat /\ chunks \in Seq(Chunk) /\ total_elements \in Nat
  BY VectorAssumption, LenProperties DEF VInv, TypeOK
<1>2. /\ active_chunk \in Nat /\ active_offset \in 0 .. S
      /\ total_elements = active_chunk * S + active_offset
      /\ active_chunk <= n /\ (active_chunk = n => active_offset = 0)
  BY DEF VInv, TypeOK, CursorInv
<1>3. i \in Nat
  BY <1>1
<1>4. i = d * S + (i % S) /\ i % S \in 0 .. S - 1 /\ d \in Nat
  BY <1>1, <1>3, DivMod
<1> HIDE DEF d
<1>5. d < n
  <2> SUFFICES ASSUME n <= d PROVE FALSE
    BY <1>1, <1>4
  <2>1. n * S <= d * S
    <3>1. CASE n = d
      BY <1>1, <3>1, Distribute
    <3>2. CASE n # d
      <4>1. n < d
        BY <1>1, <1>4, <3>2
      <4>2. n * S + S <= d * S
        BY <1>1, <1>4, <4>1, Monotone
      <4> QED BY <1>1, <1>4, <4>2, Distribute
    <3> QED BY <3>1, <3>2
  <2>2. total_elements <= n * S
    <3>1. CASE active_chunk = n
      BY <1>1, <1>2, <3>1, Distribute
    <3>2. CASE active_chunk # n
      <4>1. active_chunk * S + S <= n * S
        BY <1>1, <1>2, <3>2, Monotone
      <4>2. active_chunk * S \in Nat
        BY <1>1, <1>2, Distribute
      <4> QED BY <1>1, <1>2, <4>1, <4>2
    <3> QED BY <3>1, <3>2
  <2>3. n * S \in Nat /\ d * S \in Nat
    BY <1>1, <1>4, Distribute
  <2> QED BY <1>1, <1>4, <2>1, <2>2, <2>3
<1>6. d \in 0 .. n - 1 /\ d + 1 \in 1 .. n
  BY <1>1, <1>4, <1>5
<1>7. chunks[d + 1] \in Chunk
  BY <1>1, <1>6, ElementOfSeq
<1>8. chunks[d + 1][i % S] \in Value \cup {Garbage}
  BY <1>4, <1>7 DEF Chunk
<1> QED BY <1>3, <1>4, <1>6, <1>8 DEF EntryAt, d

\* vector_init establishes the invariant.
LEMMA VInvInit == Init => VInv
<1> SUFFICES ASSUME Init PROVE VInv
  OBVIOUS
<1>1. chunks \in Seq(Chunk) /\ Len(chunks) = 1
  BY FreshIsChunk DEF Init
<1>2. live \in BOOLEAN
  BY DEF Init
<1> QED BY <1>1, <1>2, VectorAssumption DEF Init, VInv, TypeOK, CursorInv

\* Every operation of the vector, failed allocations included, preserves it.
LEMMA VInvStep ==
    ASSUME VInv, [Next]_vars
    PROVE  VInv'
<1> USE DEF cursor
<1>0. /\ CHUNK_SIZE \in Nat \ {0} /\ INITIAL_CAPACITY \in Nat \ {0}
      /\ Len(chunks) \in Nat /\ chunks \in Seq(Chunk)
  BY VectorAssumption, LenProperties DEF VInv, TypeOK
<1>1. ASSUME NEW v \in Value, PushBack(v)
      PROVE  VInv'
  <2>1. /\ chunks' \in Seq(Chunk) /\ Len(chunks') <= array_size'
        /\ SlotChunk \in Nat /\ SlotOffset \in 0 .. CHUNK_SIZE - 1
        /\ SlotChunk < Len(chunks')
        /\ SlotChunk * CHUNK_SIZE + SlotOffset = total_elements
        /\ array_size' <= chunk_array_capacity'
        /\ array_size' \in Nat /\ chunk_array_capacity' \in Nat
    BY <1>1, PushChunks
  <2>2. /\ active_chunk' = SlotChunk /\ active_offset' = SlotOffset + 1
        /\ total_elements' = total_elements + 1 /\ live' = live
    BY <1>1 DEF PushBack
  <2>3. Len(chunks') \in Nat
    BY <2>1, LenProperties
  <2>4. TypeOK'
    BY <1>0, <2>1, <2>2 DEF VInv, TypeOK
  <2>5. total_elements' = active_chunk' * CHUNK_SIZE + active_offset'
    <3>1. SlotChunk * CHUNK_SIZE \in Nat
      BY <1>0, <2>1, Distribute
    <3> QED BY <2>1, <2>2, <3>1
  <2>6. CursorInv'
    BY <2>1, <2>2, <2>3, <2>5 DEF CursorInv
  <2>7. live'
    BY <1>1, Zenon DEF PushBack
  <2> QED BY <2>4, <2>6, <2>7 DEF VInv
<1>2. CASE ReallocFails
  <2>1. /\ live /\ ChunkFull /\ active_chunk + 1 >= chunk_array_capacity
        /\ active_chunk \in Nat /\ active_offset = CHUNK_SIZE
        /\ array_size \in Nat /\ chunk_array_capacity \in Nat
    BY <1>0, <1>2 DEF VInv, TypeOK, ReallocFails, ArrayTooSmall, ChunkFull
  <2>2. /\ total_elements = active_chunk * CHUNK_SIZE + active_offset
        /\ Len(chunks) <= array_size /\ array_size <= chunk_array_capacity
        /\ active_chunk < Len(chunks)
    BY <1>0, <2>1 DEF VInv, CursorInv
  <2>3. /\ chunk_array_capacity' = 2 * chunk_array_capacity
        /\ active_chunk' = active_chunk + 1 /\ active_offset' = 0
        /\ live' = live /\ chunks' = chunks /\ array_size' = array_size
        /\ total_elements' = total_elements
    BY <1>2 DEF ReallocFails
  <2>4. total_elements' = active_chunk' * CHUNK_SIZE + active_offset'
    <3>1. (active_chunk + 1) * CHUNK_SIZE = active_chunk * CHUNK_SIZE + CHUNK_SIZE
          /\ active_chunk * CHUNK_SIZE \in Nat
      BY <1>0, <2>1, Distribute
    <3> QED BY <1>0, <2>1, <2>2, <2>3, <3>1
  <2>5. CursorInv'
    BY <1>0, <2>1, <2>2, <2>3, <2>4 DEF CursorInv
  <2>6. TypeOK'
    BY <1>0, <2>1, <2>3 DEF VInv, TypeOK
  <2>7. live'
    BY <2>1, <2>3, Zenon
  <2> QED BY <2>5, <2>6, <2>7 DEF VInv
<1>3. CASE MallocFails
  <2>1. /\ live /\ ChunkFull
        /\ active_chunk \in Nat /\ active_offset = CHUNK_SIZE
        /\ array_size \in Nat /\ chunk_array_capacity \in Nat
    BY <1>0, <1>3 DEF VInv, TypeOK, MallocFails, ChunkMissing, ChunkFull
  <2>2. /\ live' = live /\ chunks' = chunks /\ active_chunk' = active_chunk
        /\ active_offset' = active_offset /\ total_elements' = total_elements
    BY <1>3, <2>1 DEF MallocFails
  <2>3. /\ chunk_array_capacity' \in {chunk_array_capacity, 2 * chunk_array_capacity}
        /\ \/ array_size' = chunk_array_capacity' /\ chunk_array_capacity' = 2 * chunk_array_capacity
           \/ array_size' = array_size /\ chunk_array_capacity' = chunk_array_capacity
    BY <1>3 DEF MallocFails
  <2>4. /\ Len(chunks) <= array_size /\ array_size <= chunk_array_capacity
        /\ active_chunk < Len(chunks)
    BY <1>0, <2>1 DEF VInv, CursorInv
  <2>5. CursorInv'
    BY <1>0, <2>1, <2>2, <2>3, <2>4 DEF VInv, CursorInv
  <2>6. TypeOK'
    BY <1>0, <2>1, <2>2, <2>3 DEF VInv, TypeOK
  <2>7. live'
    BY <2>1, <2>2, Zenon
  <2> QED BY <2>5, <2>6, <2>7 DEF VInv
<1>4. CASE PopBack
  <2>1. /\ live /\ active_chunk \in Nat /\ active_offset \in 0 .. CHUNK_SIZE
        /\ total_elements \in Nat \ {0}
        /\ total_elements = active_chunk * CHUNK_SIZE + active_offset
        /\ active_chunk <= Len(chunks)
        /\ active_chunk = Len(chunks) => active_offset = 0 /\ array_size # chunk_array_capacity
    BY <1>4 DEF VInv, TypeOK, CursorInv, PopBack
  <2>2. /\ live' = live /\ chunks' = chunks /\ array_size' = array_size
        /\ chunk_array_capacity' = chunk_array_capacity
        /\ total_elements' = total_elements - 1
    BY <1>4 DEF PopBack
  <2>3. CASE active_offset > 0
    <3>1. active_offset' = active_offset - 1 /\ active_chunk' = active_chunk
      BY <1>4, <2>3 DEF PopBack
    <3>2. active_chunk * CHUNK_SIZE \in Nat /\ active_chunk # Len(chunks)
      BY <1>0, <2>1, <2>3, Distribute
    <3>3. CursorInv'
      BY <1>0, <2>1, <2>2, <2>3, <3>1, <3>2 DEF VInv, CursorInv
    <3>4. TypeOK'
      BY <1>0, <2>1, <2>2, <2>3, <3>1 DEF VInv, TypeOK
    <3>7. live'
      BY <2>1, <2>2, Zenon
    <3> QED BY <3>3, <3>4, <3>7 DEF VInv
  <2>4. CASE ~(active_offset > 0)
    <3>1. active_offset' = CHUNK_SIZE - 1 /\ active_chunk' = active_chunk - 1
      BY <1>4, <2>4 DEF PopBack
    <3>2. active_offset = 0 /\ active_chunk * CHUNK_SIZE # 0
      BY <1>0, <2>1, <2>4
    <3>3. /\ active_chunk # 0 /\ active_chunk - 1 \in Nat
          /\ (active_chunk - 1) * CHUNK_SIZE = active_chunk * CHUNK_SIZE - CHUNK_SIZE
          /\ active_chunk * CHUNK_SIZE \in Nat
      BY <1>0, <2>1, <3>2, Distribute
    <3>4. total_elements' = active_chunk' * CHUNK_SIZE + active_offset'
      BY <1>0, <2>1, <2>2, <3>1, <3>2, <3>3
    <3>5. CursorInv'
      BY <1>0, <2>1, <2>2, <3>1, <3>3, <3>4 DEF VInv, CursorInv
    <3>6. TypeOK'
      BY <1>0, <2>1, <2>2, <3>1, <3>3 DEF VInv, TypeOK
    <3>7. live'
      BY <2>1, <2>2, Zenon
    <3> QED BY <3>5, <3>6, <3>7 DEF VInv
  <2> QED BY <2>3, <2>4
<1>5. ASSUME NEW i \in 0 .. MaxElements, NEW v \in Value, Replace(i, v)
      PROVE  VInv'
  <2>1. live /\ i \in 0 .. total_elements - 1
    BY <1>5 DEF VInv, TypeOK, Replace
  <2>2. i \div CHUNK_SIZE \in 0 .. Len(chunks) - 1 /\ i % CHUNK_SIZE \in 0 .. CHUNK_SIZE - 1
    BY <2>1, EntryInRoom
  <2> DEFINE d == i \div CHUNK_SIZE
             r == i % CHUNK_SIZE
  <2>a. chunks' = WriteCell(chunks, d, r, v)
    BY <1>5 DEF Replace
  <2> HIDE DEF d, r
  <2>b. d \in 0 .. Len(chunks) - 1 /\ r \in 0 .. CHUNK_SIZE - 1
    BY <2>2 DEF d, r
  <2>3. chunks' \in Seq(Chunk) /\ Len(chunks') = Len(chunks)
    <3>1. /\ WriteCell(chunks, d, r, v) \in Seq(Chunk)
          /\ Len(WriteCell(chunks, d, r, v)) = Len(chunks)
      BY <1>0, <2>b, AssignKeeps, Zenon
    <3> QED BY <2>a, <3>1, Zenon
  <2>4. /\ live' = live /\ array_size' = array_size
        /\ chunk_array_capacity' = chunk_array_capacity
        /\ active_chunk' = active_chunk /\ active_offset' = active_offset
        /\ total_elements' = total_elements
    BY <1>5 DEF Replace
  <2>5. TypeOK'
    BY <2>3, <2>4 DEF VInv, TypeOK
  <2>6. CursorInv'
    BY <2>3, <2>4 DEF VInv, CursorInv
  <2>7. live'
    BY <2>1, <2>4, Zenon
  <2> QED BY <2>5, <2>6, <2>7 DEF VInv
<1>6. CASE Clear
  <2>1. 0 * CHUNK_SIZE = 0
    BY <1>0
  <2>2. live /\ Len(chunks) <= array_size /\ array_size <= chunk_array_capacity
    BY <1>6 DEF VInv, CursorInv, Clear
  <2> QED BY <1>0, <1>6, <2>1, <2>2 DEF VInv, TypeOK, CursorInv, Clear
<1>7. CASE Destroy
  <2>1. <<>> \in Seq(Chunk)
    BY EmptySeq
  <2> QED BY <1>7, <2>1 DEF VInv, TypeOK, CursorInv, Destroy
<1>8. CASE Reinit
  <2>1. chunks' \in Seq(Chunk) /\ Len(chunks') = 1
    BY <1>8, FreshIsChunk DEF Reinit
  <2>2. live' \in BOOLEAN
    BY <1>8 DEF Reinit
  <2> QED BY <1>0, <1>8, <2>1, <2>2 DEF VInv, TypeOK, CursorInv, Reinit
<1>9. CASE UNCHANGED vars
  BY <1>9 DEF VInv, TypeOK, CursorInv, vars
<1> QED BY <1>1, <1>2, <1>3, <1>4, <1>5, <1>6, <1>7, <1>8, <1>9 DEF Next

\* The invariant holds throughout.
LEMMA VectorInvariant == Spec => []VInv
  BY VInvInit, VInvStep, PTL DEF Spec

\* The cursor is exact for every chunk size and capacity, also after failed
\* allocations.
THEOREM CursorCorrect == Spec => []CursorExact
<1>1. VInv => CursorExact
  <2> SUFFICES ASSUME VInv, live
               PROVE  /\ total_elements = active_chunk * CHUNK_SIZE + active_offset
                      /\ Len(chunks) <= array_size
                      /\ array_size = chunk_array_capacity => active_chunk < Len(chunks)
    BY DEF CursorExact
  <2>1. Len(chunks) \in Nat /\ active_chunk \in Nat
    BY LenProperties DEF VInv, TypeOK
  <2> QED BY <2>1 DEF VInv, CursorInv
<1> QED BY <1>1, VectorInvariant, PTL

-----------------------------------------------------------------------------
(***************************************************************************)
(* What the entries are                                                    *)
(***************************************************************************)

\* The last entry, by its index, is where the cursor says.
LEMMA LastEntry ==
    ASSUME VInv, live, total_elements > 0
    PROVE  Back = EntryAt(total_elements - 1)
<1> DEFINE n == total_elements - 1
<1>1. /\ CHUNK_SIZE \in Nat \ {0} /\ n \in Nat
      /\ active_chunk \in Nat /\ active_offset \in 0 .. CHUNK_SIZE
      /\ total_elements = active_chunk * CHUNK_SIZE + active_offset
      /\ active_chunk * CHUNK_SIZE \in Nat
  BY VectorAssumption, Distribute DEF VInv, TypeOK, CursorInv
<1>2. CASE active_offset > 0
  <2>1. n = active_chunk * CHUNK_SIZE + (active_offset - 1)
        /\ active_offset - 1 \in 0 .. CHUNK_SIZE - 1
    BY <1>1, <1>2
  <2>2. n \div CHUNK_SIZE = active_chunk /\ n % CHUNK_SIZE = active_offset - 1
    BY <1>1, <2>1, DivModUnique
  <2> QED BY <1>2, <2>2 DEF Back, EntryAt
<1>3. CASE ~(active_offset > 0)
  <2>1. active_offset = 0 /\ active_chunk * CHUNK_SIZE # 0
    BY <1>1, <1>3
  <2>2. /\ active_chunk - 1 \in Nat
        /\ (active_chunk - 1) * CHUNK_SIZE = active_chunk * CHUNK_SIZE - CHUNK_SIZE
    BY <1>1, <2>1, Distribute
  <2>3. n = (active_chunk - 1) * CHUNK_SIZE + (CHUNK_SIZE - 1)
        /\ CHUNK_SIZE - 1 \in 0 .. CHUNK_SIZE - 1
    BY <1>1, <2>1, <2>2
  <2> DEFINE a == active_chunk - 1
             r == CHUNK_SIZE - 1
  <2>4. n \div CHUNK_SIZE = a /\ n % CHUNK_SIZE = r
    <3>1. a \in Nat /\ r \in 0 .. CHUNK_SIZE - 1 /\ n = a * CHUNK_SIZE + r
      BY <2>2, <2>3
    <3> HIDE DEF a, r, n
    <3> QED BY <1>1, <3>1, DivModUnique
  <2>5. (active_chunk - 1) + 1 = active_chunk
    BY <1>1
  <2> QED BY <1>3, <2>4, <2>5 DEF Back, EntryAt
<1> QED BY <1>2, <1>3

\* vector_back and vector_at agree for every chunk size and capacity.
THEOREM BackCorrect == Spec => []BackIsLastEntry
<1>1. VInv => BackIsLastEntry
  BY LastEntry DEF BackIsLastEntry
<1> QED BY <1>1, VectorInvariant, PTL

\* What a cell may hold.
Entry == Value \cup {Garbage}

\* The entries form a sequence of total_elements entries.
LEMMA ElementsType ==
    ASSUME VInv
    PROVE  /\ Elements \in Seq(Entry)
           /\ Len(Elements) = total_elements
           /\ total_elements \in Nat
           /\ \A i \in 1 .. total_elements : Elements[i] = EntryAt(i - 1)
<1>1. total_elements \in Nat /\ (live \/ total_elements = 0)
  BY DEF VInv, TypeOK
<1>2. ASSUME NEW i \in 1 .. total_elements
      PROVE  EntryAt(i - 1) \in Entry
  <2>1. live /\ i - 1 \in 0 .. total_elements - 1
    BY <1>1, <1>2
  <2> QED BY <2>1, EntryInRoom DEF Entry
<1>3. Elements \in [1 .. total_elements -> Entry]
  BY <1>2 DEF Elements
<1>4. Elements \in Seq(Entry) /\ Len(Elements) = total_elements
  BY <1>1, <1>3, SeqDef, LenProperties
<1> QED BY <1>1, <1>4 DEF Elements

\* When the chunks and the size stay, so do the entries.
LEMMA SameElements ==
    ASSUME UNCHANGED <<chunks, total_elements>>
    PROVE  Elements' = Elements
  BY DEF Elements, EntryAt

\* vector_push_back adds its value at the end and keeps every other entry.
LEMMA PushElements ==
    ASSUME VInv, VInv', NEW v \in Value, PushBack(v)
    PROVE  Elements' = Append(Elements, v)
<1> DEFINE S == CHUNK_SIZE
<1>0. PICK t \in Nat : total_elements = t
  BY DEF VInv, TypeOK
<1>1. S \in Nat \ {0} /\ live /\ total_elements = t /\ total_elements' = t + 1
  BY <1>0, VectorAssumption DEF PushBack
<1>2. /\ SlotChunk \in Nat /\ SlotOffset \in 0 .. S - 1
      /\ SlotChunk * S + SlotOffset = t
      /\ chunks'[SlotChunk + 1][SlotOffset] = v
      /\ \A j \in 1 .. Len(chunks) : \A q \in 0 .. S - 1 :
            (j # SlotChunk + 1 \/ q # SlotOffset) => chunks'[j][q] = chunks[j][q]
  BY <1>1, PushChunks
<1>3. /\ Elements \in Seq(Entry) /\ Len(Elements) = t
      /\ \A i \in 1 .. t : Elements[i] = EntryAt(i - 1)
      /\ Elements' \in Seq(Entry) /\ Len(Elements') = total_elements'
      /\ \A i \in 1 .. total_elements' : Elements'[i] = EntryAt(i - 1)'
  <2>1. ASSUME VInv' PROVE /\ Elements' \in Seq(Entry) /\ Len(Elements') = total_elements'
                           /\ \A i \in 1 .. total_elements' : Elements'[i] = EntryAt(i - 1)'
    <3>1. (VInv => /\ Elements \in Seq(Entry)
                   /\ Len(Elements) = total_elements
                   /\ \A i \in 1 .. total_elements : Elements[i] = EntryAt(i - 1))'
      BY ElementsType, PTL
    <3> QED BY <2>1, <3>1 DEF Entry
  <2> QED BY <1>1, <2>1, ElementsType
<1>4. v \in Entry
  BY DEF Entry
<1>5. /\ Append(Elements, v) \in Seq(Entry) /\ Len(Append(Elements, v)) = t + 1
      /\ \A i \in 1 .. t : Append(Elements, v)[i] = Elements[i]
      /\ Append(Elements, v)[t + 1] = v
  BY <1>3, <1>4, AppendProperties
<1>6. ASSUME NEW i \in 1 .. t
      PROVE  EntryAt(i - 1)' = EntryAt(i - 1)
  <2> DEFINE d == (i - 1) \div S
             r == (i - 1) % S
  <2>1. i - 1 \in 0 .. t - 1 /\ i - 1 \in Nat /\ i - 1 # t
    BY <1>1, <1>6
  <2>2. d \in 0 .. Len(chunks) - 1 /\ r \in 0 .. S - 1
    BY <1>1, <2>1, EntryInRoom
  <2>3. i - 1 = d * S + r
    BY <1>1, <2>1, DivMod
  <2>4. EntryAt(i - 1) = chunks[d + 1][r] /\ EntryAt(i - 1)' = chunks'[d + 1][r]
    BY DEF EntryAt
  <2> HIDE DEF d, r
  <2>5. d + 1 \in 1 .. Len(chunks)
    <3>1. Len(chunks) \in Nat
      BY LenProperties DEF VInv, TypeOK
    <3> QED BY <2>2, <3>1
  <2>6. d # SlotChunk \/ r # SlotOffset
    BY <1>2, <2>1, <2>3
  <2>7. d + 1 # SlotChunk + 1 \/ r # SlotOffset
    BY <1>2, <2>2, <2>6
  <2> QED BY <1>2, <2>2, <2>4, <2>5, <2>7
<1>7. EntryAt(t)' = v
  <2>1. t \div S = SlotChunk /\ t % S = SlotOffset
    BY <1>1, <1>2, DivModUnique
  <2> QED BY <1>2, <2>1 DEF EntryAt
<1>8. ASSUME NEW i \in 1 .. t + 1
      PROVE  Elements'[i] = Append(Elements, v)[i]
  <2>1. CASE i = t + 1
    <3>1. (t + 1) - 1 = t
      BY <1>1
    <3>2. Elements'[i] = EntryAt((t + 1) - 1)'
      BY <1>1, <1>3, <2>1
    <3> QED BY <1>5, <1>7, <2>1, <3>1, <3>2
  <2>2. CASE i # t + 1
    <3>1. i \in 1 .. t /\ i \in 1 .. total_elements'
      BY <1>1, <2>2
    <3> QED BY <1>3, <1>5, <1>6, <3>1
  <2> QED BY <2>1, <2>2
<1> QED BY <1>1, <1>3, <1>5, <1>8, SeqEqual

\* vector_pop_back drops the last entry and keeps every other one.
LEMMA PopElements ==
    ASSUME VInv, VInv', PopBack
    PROVE  Elements # <<>> /\ Elements' = Front(Elements)
<1> DEFINE t == total_elements
<1>1. t \in Nat \ {0} /\ t' = t - 1 /\ chunks' = chunks
  BY DEF VInv, TypeOK, PopBack
<1>2. /\ Elements \in Seq(Entry) /\ Len(Elements) = t
      /\ \A i \in 1 .. t : Elements[i] = EntryAt(i - 1)
  BY ElementsType
<1>3. Elements # <<>>
  BY <1>1, <1>2, EmptySeq
<1>4. /\ Front(Elements) \in Seq(Entry) /\ Len(Front(Elements)) = t - 1
      /\ \A i \in 1 .. t - 1 : Front(Elements)[i] = Elements[i]
  BY <1>2, <1>3, PopProperties
<1>5. \A i \in 1 .. t - 1 : i \in 1 .. t /\ EntryAt(i - 1)' = EntryAt(i - 1)
  BY <1>1 DEF EntryAt
<1>6. Elements' = [i \in 1 .. t - 1 |-> EntryAt(i - 1)']
  BY <1>1 DEF Elements
<1>7. DOMAIN Front(Elements) = 1 .. t - 1
  BY <1>4, LenProperties
<1>8. Front(Elements) = [i \in 1 .. t - 1 |-> Front(Elements)[i]]
  BY <1>4, <1>7, LenProperties
<1> QED BY <1>2, <1>3, <1>4, <1>5, <1>6, <1>8

\* An assignment through vector_at changes that entry only.
LEMMA ReplaceElements ==
    ASSUME VInv, VInv', NEW i \in 0 .. MaxElements, NEW v \in Value, Replace(i, v)
    PROVE  /\ i + 1 \in 1 .. Len(Elements)
           /\ Elements' = [Elements EXCEPT ![i + 1] = v]
<1> DEFINE S == CHUNK_SIZE
           d == i \div S
           r == i % S
<1>0. PICK t \in Nat : total_elements = t
  BY DEF VInv, TypeOK
<1>1. S \in Nat \ {0} /\ live /\ total_elements = t /\ total_elements' = t /\ i \in 0 .. t - 1
  BY <1>0, VectorAssumption DEF Replace, cursor
<1>2. d \in 0 .. Len(chunks) - 1 /\ r \in 0 .. S - 1
  BY <1>1, EntryInRoom
<1>3. i = d * S + r
  BY <1>1, DivMod
<1>4. chunks' = WriteCell(chunks, d, r, v)
  BY DEF Replace
<1> HIDE DEF d, r
<1>5. \A j \in 1 .. Len(chunks) : \A q \in 0 .. S - 1 :
         chunks'[j][q] = IF j = d + 1 /\ q = r THEN v ELSE chunks[j][q]
  <2>1. chunks \in Seq(Chunk)
    BY DEF VInv, TypeOK
  <2> QED BY <1>2, <1>4, <2>1, AssignCell
<1>6. ASSUME NEW k \in 1 .. t
      PROVE  EntryAt(k - 1)' = IF k = i + 1 THEN v ELSE EntryAt(k - 1)
  <2> DEFINE c == (k - 1) \div S
             q == (k - 1) % S
  <2>1. k - 1 \in 0 .. total_elements - 1 /\ k - 1 \in Nat
    BY <1>1
  <2>2. c \in 0 .. Len(chunks) - 1 /\ q \in 0 .. S - 1
    BY <1>1, <2>1, EntryInRoom
  <2>3. k - 1 = c * S + q
    BY <1>1, <2>1, DivMod
  <2>4. EntryAt(k - 1) = chunks[c + 1][q] /\ EntryAt(k - 1)' = chunks'[c + 1][q]
    BY DEF EntryAt
  <2>5. k - 1 = i => c = d /\ q = r
    BY DEF d, r
  <2> HIDE DEF c, q
  <2>6. c + 1 \in 1 .. Len(chunks) /\ (c + 1 = d + 1 <=> c = d)
    <3>1. Len(chunks) \in Nat
      BY LenProperties DEF VInv, TypeOK
    <3> QED BY <1>2, <2>2, <3>1
  <2>7. (c = d /\ q = r) <=> k = i + 1
    BY <1>1, <1>3, <2>1, <2>3, <2>5
  <2> QED BY <1>5, <2>2, <2>4, <2>6, <2>7
<1>7. /\ Elements \in Seq(Entry) /\ Len(Elements) = t
      /\ \A k \in 1 .. t : Elements[k] = EntryAt(k - 1)
  BY <1>1, ElementsType
<1>8. i + 1 \in 1 .. Len(Elements) /\ DOMAIN Elements = 1 .. t
  BY <1>1, <1>7, LenProperties
<1>9. Elements' = [k \in 1 .. t |-> EntryAt(k - 1)']
  BY <1>1 DEF Elements
<1>10. Elements' = [k \in 1 .. t |-> IF k = i + 1 THEN v ELSE Elements[k]]
  BY <1>6, <1>7, <1>9
<1>11. [Elements EXCEPT ![i + 1] = v] = [k \in 1 .. t |-> IF k = i + 1 THEN v ELSE Elements[k]]
  BY <1>8
<1> QED BY <1>8, <1>10, <1>11

\* A vector without entries is the empty sequence.
LEMMA NoElements ==
    ASSUME total_elements = 0
    PROVE  Elements = <<>>
<1>1. 1 .. total_elements = {}
  OBVIOUS
<1>2. Elements \in Seq({}) /\ Len(Elements) = 0
  <2>1. Elements \in [1 .. 0 -> {}]
    BY <1>1 DEF Elements
  <2>2. Elements \in Seq({})
    BY <2>1, SeqDef
  <2> QED BY <2>1, <2>2, LenProperties
<1> QED BY <1>2, EmptySeq

\* The chunks, the array and the cursor implement a sequence for every chunk
\* size, capacity and set of values; a failed allocation changes no entry.
THEOREM VectorRefinement == Spec => ImplementsVector
<1>1. Init => Vector!Init
  BY NoElements DEF Init, Vector!Init
<1>2. ASSUME VInv, VInv', [Next]_vars
      PROVE  [Vector!Next]_Elements
  <2>1. ASSUME NEW v \in Value, PushBack(v)
        PROVE  Vector!Next
    BY <1>2, <2>1, PushElements DEF Vector!Next, Vector!PushBack
  <2>2. CASE ReallocFails \/ MallocFails \/ UNCHANGED vars
    <3>1. UNCHANGED <<chunks, total_elements>>
      BY <2>2 DEF ReallocFails, MallocFails, vars, cursor
    <3> QED BY <3>1, SameElements
  <2>3. CASE PopBack
    <3>1. Elements # <<>> /\ Elements' = SubSeq(Elements, 1, Len(Elements) - 1)
      BY <1>2, <2>3, PopElements DEF Front
    <3> QED BY <3>1 DEF Vector!Next, Vector!PopBack, Vector!Front
  <2>4. ASSUME NEW i \in 0 .. MaxElements, NEW v \in Value, Replace(i, v)
        PROVE  Vector!Next
    <3>1. i + 1 \in 1 .. Len(Elements) /\ Elements' = [Elements EXCEPT ![i + 1] = v]
      BY <1>2, <2>4, ReplaceElements
    <3>2. Vector!Replace(i + 1, v)
      BY <3>1 DEF Vector!Replace
    <3> QED BY <3>1, <3>2 DEF Vector!Next
  <2>5. CASE Clear \/ Destroy \/ Reinit
    <3>1. total_elements' = 0
      BY <2>5 DEF Clear, Destroy, Reinit
    <3>2. Elements' = <<>>
      <4>1. (total_elements = 0 => Elements = <<>>)'
        BY NoElements, PTL
      <4> QED BY <3>1, <4>1
    <3> QED BY <3>2 DEF Vector!Next, Vector!Clear
  <2> QED BY <1>2, <2>1, <2>2, <2>3, <2>4, <2>5 DEF Next
<1> QED BY <1>1, <1>2, VectorInvariant, PTL DEF Spec, ImplementsVector, Vector!Spec

\* Each operation does to the sequence what its caller asked for, for every chunk
\* size, capacity and set of values.
THEOREM OperationsCorrect == Spec => OperationsExact
<1> DEFINE Exact ==
        /\ \A v \in Value : PushBack(v) => Vector!PushBack(v)
        /\ PopBack => Vector!PopBack
        /\ \A i \in 0 .. MaxElements, v \in Value : Replace(i, v) => Vector!Replace(i + 1, v)
        /\ Clear => Vector!Clear
        /\ ReallocFails \/ MallocFails => Elements' = Elements
<1>1. ASSUME VInv, VInv'
      PROVE  Exact
  <2>1. ASSUME NEW v \in Value, PushBack(v)
        PROVE  Vector!PushBack(v)
    BY <1>1, <2>1, PushElements DEF Vector!PushBack
  <2>2. ASSUME PopBack
        PROVE  Vector!PopBack
    <3>1. Elements # <<>> /\ Elements' = SubSeq(Elements, 1, Len(Elements) - 1)
      BY <1>1, <2>2, PopElements DEF Front
    <3> QED BY <3>1 DEF Vector!PopBack, Vector!Front
  <2>3. ASSUME NEW i \in 0 .. MaxElements, NEW v \in Value, Replace(i, v)
        PROVE  Vector!Replace(i + 1, v)
    BY <1>1, <2>3, ReplaceElements DEF Vector!Replace
  <2>4. ASSUME Clear
        PROVE  Vector!Clear
    <3>1. (total_elements = 0 => Elements = <<>>)'
      BY NoElements, PTL
    <3> QED BY <2>4, <3>1 DEF Clear, Vector!Clear
  <2>5. ASSUME ReallocFails \/ MallocFails
        PROVE  Elements' = Elements
    <3>1. UNCHANGED <<chunks, total_elements>>
      BY <2>5 DEF ReallocFails, MallocFails
    <3> QED BY <3>1, SameElements
  <2> QED BY <2>1, <2>2, <2>3, <2>4, <2>5
<1>2. VInv /\ VInv' => [Exact]_vars
  BY <1>1
<1> HIDE DEF Exact
<1>3. Spec => [][Exact]_vars
  BY <1>2, VectorInvariant, PTL
<1> QED BY <1>3 DEF Exact, OperationsExact

=============================================================================
