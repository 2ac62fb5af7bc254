--------------------------- MODULE MetaWordProofs ---------------------------
(***************************************************************************)
(* The parts of the meta word do not disturb each other, for every width   *)
(* of the count and every number of threads.                               *)
(***************************************************************************)
EXTENDS MetaWord, BasicLemmas, FiniteSetTheorems

-----------------------------------------------------------------------------
(***************************************************************************)
(* Words                                                                   *)
(***************************************************************************)

Word == 0 .. Words - 1

\* The bits in use, counted from the end of the count.
Unit == {1, 4, 8, 16, 128}
UnitSet(h, k) == (h \div k) % 2 = 1

LEMMA RangeIsPositive == REFCOUNT_RANGE \in Nat \ {0} /\ Words \in Nat
<1>1. Cardinality(Thread) \in Nat
  BY ThreadAssumption, FS_CardinalityType
<1>2. MaxRefs * Cardinality(Thread) \in Nat
  BY <1>1, WidthAssumption
<1> QED BY <1>2, WidthAssumption DEF Words

\* A word is its upper eight bits and its count.
LEMMA WordParts ==
    ASSUME NEW w \in Word
    PROVE  /\ w \in Nat
           /\ w = (w \div REFCOUNT_RANGE) * REFCOUNT_RANGE + (w % REFCOUNT_RANGE)
           /\ w % REFCOUNT_RANGE \in 0 .. REFCOUNT_RANGE - 1
           /\ w \div REFCOUNT_RANGE \in 0 .. 255
<1> DEFINE R == REFCOUNT_RANGE
           h == w \div R
           n == w % R
<1>1. R \in Nat \ {0} /\ w \in Nat /\ w < 256 * R
  BY RangeIsPositive DEF Word, Words
<1>2. w = h * R + n /\ n \in 0 .. R - 1 /\ h \in Nat
  BY <1>1, DivMod
<1> HIDE DEF R, h, n
<1>3. h <= 255
  <2> SUFFICES ASSUME 255 < h PROVE FALSE
    BY <1>2
  <2>1. 255 * R + R <= h * R /\ h * R \in Nat
    BY <1>1, <1>2, Monotone, Distribute
  <2> QED BY <1>1, <1>2, <2>1
<1> QED BY <1>1, <1>2, <1>3 DEF R, h, n

LEMMA WordOf ==
    ASSUME NEW h \in 0 .. 255, NEW n \in 0 .. REFCOUNT_RANGE - 1
    PROVE  /\ h * REFCOUNT_RANGE + n \in Word
           /\ (h * REFCOUNT_RANGE + n) \div REFCOUNT_RANGE = h
           /\ (h * REFCOUNT_RANGE + n) % REFCOUNT_RANGE = n
<1> DEFINE R == REFCOUNT_RANGE
           w == h * R + n
<1>1. R \in Nat \ {0} /\ n \in 0 .. R - 1 /\ h \in Nat /\ h < 256
  BY RangeIsPositive
<1>2. Words = 256 * R
  BY DEF Words
<1> HIDE DEF R
<1>3. h * R + R <= 256 * R /\ h * R \in Nat
  BY <1>1, Monotone, Distribute
<1>4. w \in Nat /\ w < 256 * R
  BY <1>1, <1>3
<1> HIDE DEF w
<1>5. w \div R = h /\ w % R = n
  BY <1>1, <1>4, DivModUnique DEF w
<1> QED BY <1>1, <1>2, <1>4, <1>5 DEF R, w, Word

\* A bit of the word is a bit of its upper part.
LEMMA HasBitIs ==
    ASSUME NEW w \in Word, NEW k \in Unit
    PROVE  HasBit(w, k * REFCOUNT_RANGE) <=> UnitSet(w \div REFCOUNT_RANGE, k)
<1> DEFINE R == REFCOUNT_RANGE
           h == w \div R
           n == w % R
           a == h \div k
           r == h % k
<1>1. /\ R \in Nat \ {0} /\ w \in Nat /\ w = h * R + n /\ n \in 0 .. R - 1 /\ h \in Nat
      /\ k \in Nat \ {0}
  <2>1. k \in Nat \ {0}
    BY DEF Unit
  <2>2. R \in Nat \ {0} /\ w \in Nat /\ w = h * R + n /\ n \in 0 .. R - 1 /\ h \in Nat
    BY RangeIsPositive, WordParts
  <2> QED BY <2>1, <2>2
<1>2. h = a * k + r /\ r \in 0 .. k - 1 /\ a \in Nat
  BY <1>1, DivMod
<1> HIDE DEF R, h, n, a, r
<1>3. /\ h * R = a * (k * R) + r * R
      /\ r * R + R <= k * R
      /\ r * R \in Nat /\ k * R \in Nat \ {0} /\ a * (k * R) \in Nat
  <2>1. h * R = a * (k * R) + r * R
    BY <1>1, <1>2
  <2>2. r * R + R <= k * R
    BY <1>1, <1>2, Monotone
  <2>3. r * R \in Nat /\ k * R \in Nat \ {0}
    BY <1>1, <1>2, Distribute
  <2>4. a * (k * R) \in Nat
    BY <1>2, <2>3, Distribute
  <2> QED BY <2>1, <2>2, <2>3, <2>4
<1>4. r * R + n \in 0 .. k * R - 1 /\ w = a * (k * R) + (r * R + n)
  BY <1>1, <1>3
<1>5. w \div (k * R) = a
  <2> DEFINE S == k * R
             q == r * R + n
  <2>1. S \in Nat \ {0} /\ q \in 0 .. S - 1 /\ w = a * S + q
    BY <1>3, <1>4
  <2> HIDE DEF S, q
  <2>2. w \div S = a
    BY <1>1, <1>2, <2>1, DivModUnique
  <2> QED BY <2>2 DEF S
<1> QED BY <1>5 DEF R, h, a, HasBit, UnitSet

\* Setting a unit of the upper part that is clear sets it and no other.
LEMMA SetUnit ==
    ASSUME NEW h \in 0 .. 255, NEW k \in Unit, ~UnitSet(h, k)
    PROVE  /\ h + k \in 0 .. 255
           /\ UnitSet(h + k, k)
           /\ \A j \in Unit \ {k} : UnitSet(h + k, j) <=> UnitSet(h, j)
<1>1. CASE k = 1
  BY <1>1 DEF Unit, UnitSet
<1>2. CASE k = 4
  BY <1>2 DEF Unit, UnitSet
<1>3. CASE k = 8
  BY <1>3 DEF Unit, UnitSet
<1>4. CASE k = 16
  BY <1>4 DEF Unit, UnitSet
<1>5. CASE k = 128
  BY <1>5 DEF Unit, UnitSet
<1> QED BY <1>1, <1>2, <1>3, <1>4, <1>5 DEF Unit

\* Clearing one that is set clears it and no other.
LEMMA ClearUnit ==
    ASSUME NEW h \in 0 .. 255, NEW k \in Unit, UnitSet(h, k)
    PROVE  /\ h - k \in 0 .. 255
           /\ ~UnitSet(h - k, k)
           /\ \A j \in Unit \ {k} : UnitSet(h - k, j) <=> UnitSet(h, j)
<1>1. CASE k = 1
  BY <1>1 DEF Unit, UnitSet
<1>2. CASE k = 4
  BY <1>2 DEF Unit, UnitSet
<1>3. CASE k = 8
  BY <1>3 DEF Unit, UnitSet
<1>4. CASE k = 16
  BY <1>4 DEF Unit, UnitSet
<1>5. CASE k = 128
  BY <1>5 DEF Unit, UnitSet
<1> QED BY <1>1, <1>2, <1>3, <1>4, <1>5 DEF Unit

\* v is w but for the bit of unit k, which is b.
Differs(v, w, k, b) ==
    /\ v \in Word
    /\ v % REFCOUNT_RANGE = w % REFCOUNT_RANGE
    /\ HasBit(v, k * REFCOUNT_RANGE) <=> b
    /\ \A j \in Unit \ {k} : HasBit(v, j * REFCOUNT_RANGE) <=> HasBit(w, j * REFCOUNT_RANGE)

\* syli_object_set_flags on the word.
LEMMA WithBitParts ==
    ASSUME NEW w \in Word, NEW k \in Unit
    PROVE  Differs(WithBit(w, k * REFCOUNT_RANGE), w, k, TRUE)
<1> DEFINE R == REFCOUNT_RANGE
           h == w \div R
           n == w % R
<1>1. R \in Nat \ {0} /\ w \in Nat /\ w = h * R + n /\ n \in 0 .. R - 1 /\ h \in 0 .. 255
  BY RangeIsPositive, WordParts
<1>2. HasBit(w, k * R) <=> UnitSet(h, k)
  BY HasBitIs
<1>3. CASE UnitSet(h, k)
  BY <1>2, <1>3 DEF Differs, WithBit
<1>4. CASE ~UnitSet(h, k)
  <2>1. h + k \in 0 .. 255 /\ UnitSet(h + k, k)
    BY <1>1, <1>4, SetUnit
  <2>2. w + k * R = (h + k) * R + n
    <3> HIDE DEF R, h, n
    <3> QED BY <1>1 DEF Unit
  <2> DEFINE v == (h + k) * R + n
  <2>3. v \in Word /\ v \div R = h + k /\ v % R = n
    BY <1>1, <2>1, WordOf
  <2>4. WithBit(w, k * R) = v
    BY <1>2, <1>4, <2>2 DEF WithBit
  <2> HIDE DEF v
  <2>5. ASSUME NEW j \in Unit
        PROVE  HasBit(v, j * R) <=> UnitSet(h + k, j)
    BY <2>3, HasBitIs
  <2>6. ASSUME NEW j \in Unit \ {k}
        PROVE  HasBit(v, j * R) <=> HasBit(w, j * R)
    <3>1. UnitSet(h + k, j) <=> UnitSet(h, j)
      BY <1>1, <1>4, SetUnit
    <3>2. HasBit(w, j * R) <=> UnitSet(h, j)
      BY HasBitIs
    <3> QED BY <2>5, <3>1, <3>2
  <2> QED BY <2>1, <2>3, <2>4, <2>5, <2>6 DEF Differs
<1> QED BY <1>3, <1>4

\* syli_object_clear_flags on the word.
LEMMA WithoutBitParts ==
    ASSUME NEW w \in Word, NEW k \in Unit
    PROVE  Differs(WithoutBit(w, k * REFCOUNT_RANGE), w, k, FALSE)
<1> DEFINE R == REFCOUNT_RANGE
           h == w \div R
           n == w % R
<1>1. R \in Nat \ {0} /\ w \in Nat /\ w = h * R + n /\ n \in 0 .. R - 1 /\ h \in 0 .. 255
  BY RangeIsPositive, WordParts
<1>2. HasBit(w, k * R) <=> UnitSet(h, k)
  BY HasBitIs
<1>3. CASE ~UnitSet(h, k)
  BY <1>2, <1>3 DEF Differs, WithoutBit
<1>4. CASE UnitSet(h, k)
  <2>1. h - k \in 0 .. 255 /\ ~UnitSet(h - k, k)
    BY <1>1, <1>4, ClearUnit
  <2>2. w - k * R = (h - k) * R + n
    <3> HIDE DEF R, h, n
    <3> QED BY <1>1 DEF Unit
  <2> DEFINE v == (h - k) * R + n
  <2>3. v \in Word /\ v \div R = h - k /\ v % R = n
    BY <1>1, <2>1, WordOf
  <2>4. WithoutBit(w, k * R) = v
    BY <1>2, <1>4, <2>2 DEF WithoutBit
  <2> HIDE DEF v
  <2>5. ASSUME NEW j \in Unit
        PROVE  HasBit(v, j * R) <=> UnitSet(h - k, j)
    BY <2>3, HasBitIs
  <2>6. ASSUME NEW j \in Unit \ {k}
        PROVE  HasBit(v, j * R) <=> HasBit(w, j * R)
    <3>1. UnitSet(h - k, j) <=> UnitSet(h, j)
      BY <1>1, <1>4, ClearUnit
    <3>2. HasBit(w, j * R) <=> UnitSet(h, j)
      BY HasBitIs
    <3> QED BY <2>5, <3>1, <3>2
  <2> QED BY <2>1, <2>3, <2>4, <2>5, <2>6 DEF Differs
<1> QED BY <1>3, <1>4

\* Counting up or down within the range of the count leaves the other bits alone.
LEMMA AddedParts ==
    ASSUME NEW w \in Word, NEW d \in Int,
           (w % REFCOUNT_RANGE) + d \in 0 .. REFCOUNT_RANGE - 1
    PROVE  LET v == (w + d) % Words
           IN  /\ v \in Word
               /\ v % REFCOUNT_RANGE = (w % REFCOUNT_RANGE) + d
               /\ \A j \in Unit : HasBit(v, j * REFCOUNT_RANGE) <=> HasBit(w, j * REFCOUNT_RANGE)
<1> DEFINE R == REFCOUNT_RANGE
           h == w \div R
           n == w % R
           u == h * R + (n + d)
<1>1. R \in Nat \ {0} /\ w \in Nat /\ w = h * R + n /\ n \in 0 .. R - 1 /\ h \in 0 .. 255
  BY RangeIsPositive, WordParts
<1>2. n + d \in 0 .. R - 1
  OBVIOUS
<1>3. u \in Word /\ u \div R = h /\ u % R = n + d
  BY <1>1, <1>2, WordOf
<1>4. w + d = u
  <2> HIDE DEF R, h, n
  <2>1. h * R \in Int
    BY <1>1
  <2> QED BY <1>1, <2>1
<1> HIDE DEF u
<1>5. u % Words = u
  <2>1. Words \in Nat /\ u \in 0 .. Words - 1
    BY <1>3, RangeIsPositive DEF Word
  <2> QED BY <2>1
<1>6. ASSUME NEW j \in Unit
      PROVE  HasBit(u, j * R) <=> HasBit(w, j * R)
  BY <1>3, HasBitIs
<1> QED BY <1>3, <1>4, <1>5, <1>6

-----------------------------------------------------------------------------
(***************************************************************************)
(* References                                                              *)
(***************************************************************************)

Held == [Thread -> 0 .. MaxRefs]

\* There are finitely many references, and the count has room for them.
LEMMA ReferencesFit ==
    ASSUME NEW held \in Held
    PROVE  LET S == {r \in Thread \X (1 .. MaxRefs) : r[2] <= held[r[1]]}
           IN  IsFiniteSet(S) /\ Cardinality(S) \in 0 .. REFCOUNT_RANGE - 1
<1> DEFINE S == {r \in Thread \X (1 .. MaxRefs) : r[2] <= held[r[1]]}
<1>1. IsFiniteSet(1 .. MaxRefs) /\ Cardinality(1 .. MaxRefs) = MaxRefs
  <2>1. 1 \in Int /\ MaxRefs \in Int /\ MaxRefs >= 1
    BY WidthAssumption
  <2>2. /\ IsFiniteSet(1 .. MaxRefs)
        /\ Cardinality(1 .. MaxRefs) = IF 1 > MaxRefs THEN 0 ELSE MaxRefs - 1 + 1
    BY <2>1, FS_Interval
  <2> QED BY <2>1, <2>2
<1>2. /\ IsFiniteSet(Thread \X (1 .. MaxRefs))
      /\ Cardinality(Thread \X (1 .. MaxRefs)) = Cardinality(Thread) * MaxRefs
  BY <1>1, ThreadAssumption, FS_Product
<1>3. S \subseteq Thread \X (1 .. MaxRefs)
  OBVIOUS
<1> HIDE DEF S
<1>4. /\ IsFiniteSet(S)
      /\ Cardinality(S) <= Cardinality(Thread) * MaxRefs
  BY <1>2, <1>3, FS_Subset
<1>5. Cardinality(S) \in Nat /\ Cardinality(Thread) \in Nat
  BY <1>4, ThreadAssumption, FS_CardinalityType
<1>6. Cardinality(Thread) * MaxRefs = MaxRefs * Cardinality(Thread)
      /\ MaxRefs * Cardinality(Thread) \in Nat
  BY <1>5, WidthAssumption
<1> QED BY <1>4, <1>5, <1>6, WidthAssumption DEF S

LEMMA OneMore ==
    ASSUME refs \in Held, NEW u \in Thread, refs[u] < MaxRefs,
           refs' = [refs EXCEPT ![u] = @ + 1]
    PROVE  /\ refs' \in Held
           /\ Cardinality(References') = Cardinality(References) + 1
<1>1. MaxRefs \in Nat /\ refs[u] \in Nat
  BY WidthAssumption DEF Held
<1>2. refs' \in Held
  BY <1>1 DEF Held
<1> DEFINE new == <<u, refs[u] + 1>>
<1>3. new \notin References
  BY <1>1 DEF References
<1>4. References' = References \cup {new}
  <2>1. ASSUME NEW r \in Thread \X (1 .. MaxRefs)
        PROVE  r[2] <= refs'[r[1]] <=> r[2] <= refs[r[1]] \/ r = new
    <3>1. PICK t \in Thread, i \in 1 .. MaxRefs : r = <<t, i>>
      OBVIOUS
    <3>2. i \in Int /\ refs[t] \in Int
      BY <1>1 DEF Held
    <3>3. CASE t = u
      BY <1>1, <3>1, <3>2, <3>3 DEF Held
    <3>4. CASE t # u
      BY <3>1, <3>4 DEF Held
    <3> QED BY <3>3, <3>4
  <2>2. new \in Thread \X (1 .. MaxRefs)
    BY <1>1
  <2> QED BY <2>1, <2>2 DEF References
<1>5. IsFiniteSet(References)
  BY ReferencesFit DEF References
<1> QED BY <1>2, <1>3, <1>4, <1>5, FS_AddElement

LEMMA SomeLess ==
    ASSUME refs \in Held, NEW t \in Thread, NEW n \in 1 .. MaxRefs, n <= refs[t],
           refs' = [refs EXCEPT ![t] = @ - n]
    PROVE  /\ refs' \in Held
           /\ Cardinality(References') = Cardinality(References) - n
<1>1. MaxRefs \in Nat /\ refs[t] \in 0 .. MaxRefs /\ n \in Nat /\ n >= 1
  BY WidthAssumption DEF Held
<1>2. refs' \in Held
  BY <1>1 DEF Held
<1> DEFINE J == (refs[t] - n + 1) .. refs[t]
           gone == {t} \X J
<1>3. References = References' \cup gone
  <2>1. gone \subseteq Thread \X (1 .. MaxRefs)
    BY <1>1
  <2>2. ASSUME NEW r \in Thread \X (1 .. MaxRefs)
        PROVE  r[2] <= refs[r[1]] <=> r[2] <= refs'[r[1]] \/ r \in gone
    <3>1. PICK u \in Thread, i \in 1 .. MaxRefs : r = <<u, i>>
      OBVIOUS
    <3>2. i \in Int /\ refs[u] \in Int
      BY <1>1 DEF Held
    <3>3. CASE u = t
      BY <1>1, <3>1, <3>2, <3>3 DEF Held
    <3>4. CASE u # t
      BY <3>1, <3>4 DEF Held
    <3> QED BY <3>3, <3>4
  <2> QED BY <2>1, <2>2 DEF References
<1>4. References' \cap gone = {}
  <2> SUFFICES ASSUME NEW r \in References', r \in gone PROVE FALSE
    OBVIOUS
  <2>1. PICK i \in J : r = <<t, i>>
    OBVIOUS
  <2>2. i <= refs[t] - n
    BY <2>1 DEF References, Held
  <2> QED BY <1>1, <2>1, <2>2
<1>5. IsFiniteSet(gone) /\ Cardinality(gone) = n
  <2>1. IsFiniteSet(J) /\ Cardinality(J) = n
    <3>1. refs[t] - n + 1 \in Int /\ refs[t] \in Int /\ ~(refs[t] - n + 1 > refs[t])
      BY <1>1
    <3>2. /\ IsFiniteSet(J)
          /\ Cardinality(J) = IF refs[t] - n + 1 > refs[t] THEN 0
                              ELSE refs[t] - (refs[t] - n + 1) + 1
      BY <3>1, FS_Interval
    <3> QED BY <1>1, <3>1, <3>2
  <2>2. IsFiniteSet({t}) /\ Cardinality({t}) = 1
    BY FS_Singleton
  <2> HIDE DEF J
  <2>3. IsFiniteSet({t} \X J) /\ Cardinality({t} \X J) = 1 * n
    BY <2>1, <2>2, FS_Product
  <2> QED BY <1>1, <2>3
<1> HIDE DEF gone
<1>6. IsFiniteSet(References')
  BY <1>2, ReferencesFit DEF References
<1>7. Cardinality(References) = Cardinality(References') + Cardinality(gone) - Cardinality({})
  BY <1>3, <1>4, <1>5, <1>6, FS_Union
<1>8. Cardinality({}) = 0 /\ Cardinality(References') \in Nat
  BY <1>6, FS_EmptySet, FS_CardinalityType
<1> QED BY <1>1, <1>2, <1>5, <1>7, <1>8

-----------------------------------------------------------------------------
(***************************************************************************)
(* The inductive invariant                                                 *)
(***************************************************************************)

TypeOK ==
    /\ zone \in {"GcLocal", "GcShared", "Static"}
    /\ tracing_current_bit_mark \in {0, MARKING_BIT}
    /\ DOMAIN pending = Thread
    /\ refs \in Held
    /\ flags \subseteq Flag
    /\ mark \in {0, MARKING_BIT}
    /\ overwritten \in BOOLEAN

\* An operation in the middle belongs to whoever may be there: in a local object
\* only the owner is, and while it marks the word does not change.
PendingOK(t) ==
    \/ pending[t] = None
    \/ /\ zone = "GcShared"
       /\ pending[t].op \in {"set", "clear"}
       /\ pending[t].flag \in Flag
    \/ /\ zone # "Static" /\ t = Owner
       /\ pending[t].op = "mark"
       /\ zone = "GcLocal" => pending[t].old = meta

OwnerAlone == zone = "GcLocal" => \A t \in Thread \ {Owner} : refs[t] = 0

WordExact ==
    /\ meta \in Word
    /\ meta % REFCOUNT_RANGE = Cardinality(References)
    /\ \A f \in Flag : HasBit(meta, FlagValue(f)) <=> f \in flags
    /\ HasBit(meta, MARKING_BIT) <=> mark = MARKING_BIT

MetaInv ==
    /\ TypeOK
    /\ \A t \in Thread : PendingOK(t)
    /\ OwnerAlone
    /\ overwritten => zone = "GcShared"
    /\ ~overwritten /\ zone # "Static" => WordExact

\* The flags are among the units below the mark, each with its own.
LEMMA FlagUnits ==
    ASSUME NEW f \in Flag
    PROVE  /\ FlagUnit[f] \in Unit \ {128}
           /\ \A g \in Flag : FlagUnit[g] = FlagUnit[f] => g = f
<1>1. \A g \in Flag : g \in {"Cyclic_Candidate", "Tracing", "Waiting_Remove", "Children_Released"}
  BY FlagAssumption DEF FlagUnit
<1> QED BY <1>1 DEF FlagUnit, Unit

\* A word that is exact says what the readers are asked for.
LEMMA ExactIs == MetaInv => MetaExact
<1> SUFFICES ASSUME MetaInv, ~overwritten, zone # "Static"
             PROVE  /\ syli_object_refcount = Cardinality(References)
                    /\ flags = {f \in Flag : syli_object_has_flags(f)}
                    /\ syli_object_mark_tag_shift = mark
  BY DEF MetaInv, MetaExact
<1>1. WordExact /\ TypeOK
  BY DEF MetaInv
<1>2. syli_object_refcount = Cardinality(References)
  BY <1>1 DEF WordExact, syli_object_refcount
<1>3. flags = {f \in Flag : syli_object_has_flags(f)}
  BY <1>1 DEF WordExact, TypeOK, syli_object_has_flags
<1>4. syli_object_mark_tag_shift = mark
  <2>1. MARKING_BIT # 0
    BY RangeIsPositive DEF MARKING_BIT
  <2> QED BY <1>1, <2>1 DEF WordExact, TypeOK, syli_object_mark_tag_shift
<1> QED BY <1>2, <1>3, <1>4

-----------------------------------------------------------------------------
\* The operations on the word and what they say was done.

LEMMA CountingKeepsWord ==
    ASSUME TypeOK, WordExact, zone # "Static", NEW d \in Int, refs' \in Held,
           Cardinality(References') = Cardinality(References) + d,
           meta' = Added(d), UNCHANGED <<flags, mark>>
    PROVE  WordExact'
<1>1. meta' = (meta + d) % Words
  BY DEF Added
<1>2. Cardinality(References) + d \in 0 .. REFCOUNT_RANGE - 1
  BY ReferencesFit DEF References
<1>3. /\ meta' \in Word
      /\ meta' % REFCOUNT_RANGE = Cardinality(References')
      /\ \A j \in Unit : HasBit(meta', j * REFCOUNT_RANGE) <=> HasBit(meta, j * REFCOUNT_RANGE)
  BY <1>1, <1>2, AddedParts DEF WordExact
<1>4. HasBit(meta', MARKING_BIT) <=> HasBit(meta, MARKING_BIT)
  BY <1>3 DEF MARKING_BIT, Unit
<1>5. \A f \in Flag : HasBit(meta', FlagValue(f)) <=> HasBit(meta, FlagValue(f))
  BY <1>3, FlagUnits DEF FlagValue
<1> QED BY <1>3, <1>4, <1>5 DEF WordExact

LEMMA FlagKeepsWord ==
    ASSUME WordExact, NEW op \in {"set", "clear"}, NEW f \in Flag,
           meta' = Update(op, meta, f), flags' = FlagsAfter(op, f), UNCHANGED <<refs, mark>>
    PROVE  WordExact'
<1>1. FlagUnit[f] \in Unit \ {128}
  BY FlagUnits
<1>2. Differs(meta', meta, FlagUnit[f], op = "set")
  <2>1. CASE op = "set"
    BY <1>1, <2>1, WithBitParts DEF WordExact, Update, FlagValue, Differs
  <2>2. CASE op = "clear"
    BY <1>1, <2>2, WithoutBitParts DEF WordExact, Update, FlagValue, Differs
  <2> QED BY <2>1, <2>2
<1>3. ASSUME NEW g \in Flag
      PROVE  HasBit(meta', FlagValue(g)) <=> g \in flags'
  <2>1. CASE g = f
    BY <1>2, <2>1 DEF Differs, FlagValue, FlagsAfter
  <2>2. CASE g # f
    <3>1. FlagUnit[g] \in Unit \ {FlagUnit[f]}
      BY <2>2, FlagUnits
    <3>2. HasBit(meta', FlagValue(g)) <=> HasBit(meta, FlagValue(g))
      BY <1>2, <3>1 DEF Differs, FlagValue
    <3>3. g \in flags' <=> g \in flags
      BY <2>2 DEF FlagsAfter
    <3> QED BY <3>2, <3>3 DEF WordExact
  <2> QED BY <2>1, <2>2
<1>4. HasBit(meta', MARKING_BIT) <=> HasBit(meta, MARKING_BIT)
  <2>1. 128 \in Unit \ {FlagUnit[f]}
    BY <1>1 DEF Unit
  <2> QED BY <1>2, <2>1 DEF Differs, MARKING_BIT
<1>5. References' = References
  BY DEF References
<1> QED BY <1>2, <1>3, <1>4, <1>5 DEF WordExact, Differs

LEMMA MarkKeepsWord ==
    ASSUME TypeOK, WordExact,
           meta' = WithoutBit(meta, MARKING_BIT) + tracing_current_bit_mark,
           mark' = tracing_current_bit_mark, UNCHANGED <<refs, flags>>
    PROVE  WordExact'
<1> DEFINE v == WithoutBit(meta, MARKING_BIT)
<1>1. Differs(v, meta, 128, FALSE)
  BY WithoutBitParts DEF WordExact, MARKING_BIT, Unit
<1>2. v \in Word /\ ~HasBit(v, MARKING_BIT)
  BY <1>1 DEF Differs, MARKING_BIT
<1>3. MARKING_BIT \in Nat \ {0} /\ v \in Nat
  BY <1>2, RangeIsPositive DEF MARKING_BIT, Word
<1> HIDE DEF v
<1>4. Differs(meta', meta, 128, mark' = MARKING_BIT)
  <2>1. CASE tracing_current_bit_mark = 0
    <3>1. meta' = v /\ ~(mark' = MARKING_BIT)
      BY <1>3, <2>1 DEF v
    <3> QED BY <1>1, <3>1 DEF Differs
  <2>2. CASE tracing_current_bit_mark = MARKING_BIT
    <3>1. meta' = WithBit(v, MARKING_BIT) /\ mark' = MARKING_BIT
      BY <1>2, <2>2 DEF WithBit, v
    <3>2. Differs(meta', v, 128, TRUE)
      BY <1>2, <3>1, WithBitParts DEF MARKING_BIT, Unit
    <3> QED BY <1>1, <3>1, <3>2 DEF Differs
  <2> QED BY <2>1, <2>2 DEF TypeOK
<1>5. HasBit(meta', MARKING_BIT) <=> mark' = MARKING_BIT
  BY <1>4 DEF Differs, MARKING_BIT
<1>6. \A f \in Flag : HasBit(meta', FlagValue(f)) <=> HasBit(meta, FlagValue(f))
  BY <1>4, FlagUnits DEF Differs, FlagValue
<1>7. References' = References
  BY DEF References
<1> QED BY <1>4, <1>5, <1>6, <1>7 DEF WordExact, Differs

-----------------------------------------------------------------------------
LEMMA InitMeta == Init => MetaInv
<1> SUFFICES ASSUME Init PROVE MetaInv
  OBVIOUS
<1> DEFINE R == REFCOUNT_RANGE
<1>1. R \in Nat /\ 1 \in 0 .. R - 1 /\ MaxRefs \in Nat \ {0}
  <2>1. MaxRefs * Cardinality(Thread) >= 1
    <3>1. Cardinality(Thread) \in Nat /\ Cardinality(Thread) # 0
      BY ThreadAssumption, FS_CardinalityType, FS_EmptySet
    <3> QED BY <3>1, WidthAssumption
  <2>2. MaxRefs * Cardinality(Thread) \in Int
    BY ThreadAssumption, FS_CardinalityType, WidthAssumption
  <2> QED BY <2>1, <2>2, WidthAssumption
<1>2. TypeOK /\ OwnerAlone /\ ~overwritten
  <2>1. refs \in Held
    BY <1>1 DEF Init, Held
  <2>2. OwnerAlone
    BY DEF Init, OwnerAlone
  <2> QED BY <2>1, <2>2 DEF Init, TypeOK
<1>3. \A t \in Thread : PendingOK(t)
  BY DEF Init, PendingOK
<1>4. Cardinality(References) = 1
  <2>1. References = {<<Owner, 1>>}
    <3>1. ASSUME NEW t \in Thread, NEW i \in 1 .. MaxRefs
          PROVE  i <= refs[t] <=> <<t, i>> = <<Owner, 1>>
      BY DEF Init
    <3>2. <<Owner, 1>> \in Thread \X (1 .. MaxRefs)
      BY <1>1, ThreadAssumption
    <3> QED BY <3>1, <3>2 DEF References
  <2> QED BY <2>1, FS_Singleton
<1>5. PICK h \in {0, 128} : tracing_current_bit_mark = h * R /\ (h = 128 <=> mark = MARKING_BIT)
  <2>1. MARKING_BIT = 128 * R /\ 0 = 0 * R /\ MARKING_BIT # 0
    BY <1>1 DEF MARKING_BIT
  <2> QED BY <2>1 DEF Init
<1>6. meta = h * R + 1
  BY <1>1, <1>5 DEF Init
<1>7. meta \in Word /\ meta \div R = h /\ meta % R = 1
  <2>1. h \in 0 .. 255 /\ 1 \in 0 .. REFCOUNT_RANGE - 1
    BY <1>1
  <2> QED BY <1>6, <2>1, WordOf
<1>8. HasBit(meta, MARKING_BIT) <=> mark = MARKING_BIT
  <2>1. HasBit(meta, 128 * R) <=> UnitSet(h, 128)
    BY <1>7, HasBitIs DEF Unit
  <2> QED BY <1>5, <2>1 DEF MARKING_BIT, UnitSet
<1>9. ASSUME NEW f \in Flag
      PROVE  HasBit(meta, FlagValue(f)) <=> f \in flags
  <2>1. FlagUnit[f] \in Unit \ {128}
    BY FlagUnits
  <2>2. HasBit(meta, FlagUnit[f] * R) <=> UnitSet(h, FlagUnit[f])
    BY <1>7, <2>1, HasBitIs
  <2>3. ~UnitSet(h, FlagUnit[f])
    BY <2>1 DEF Unit, UnitSet
  <2> QED BY <2>2, <2>3 DEF FlagValue, Init
<1> QED BY <1>2, <1>3, <1>4, <1>7, <1>8, <1>9 DEF MetaInv, WordExact

\* Who counts on a local object is the owner, and is not marking it.
LEMMA CountingStep ==
    ASSUME MetaInv, NEW t \in Thread, NEW d \in Int, Idle(t), refs[t] > 0,
           refs' \in Held, zone = "GcLocal" => \A u \in Thread \ {t} : refs'[u] = refs[u],
           Cardinality(References') = Cardinality(References) + d, meta' = Added(d),
           UNCHANGED <<zone, tracing_current_bit_mark, pending, flags, mark, overwritten>>
    PROVE  MetaInv'
<1>1. TypeOK'
  BY DEF MetaInv, TypeOK
<1>2. zone = "GcLocal" => t = Owner
  BY DEF MetaInv, OwnerAlone
<1>3. OwnerAlone'
  BY <1>2 DEF MetaInv, OwnerAlone
<1>4. ASSUME NEW u \in Thread PROVE PendingOK(u)'
  BY <1>2 DEF MetaInv, PendingOK, Idle, None
<1>5. ~overwritten /\ zone # "Static" => WordExact'
  BY CountingKeepsWord DEF MetaInv
<1> QED BY <1>1, <1>3, <1>4, <1>5 DEF MetaInv

\* A step that leaves the word and the references alone leaves the word exact.
LEMMA WordUnchanged ==
    ASSUME WordExact, UNCHANGED <<meta, refs, flags, mark>>
    PROVE  WordExact'
  BY DEF WordExact, References

LEMMA IncrStep ==
    ASSUME MetaInv, NEW t \in Thread, NEW u \in Thread, syli_object_incr(t, u)
    PROVE  MetaInv'
<1>1. refs \in Held
  BY DEF MetaInv, TypeOK
<1>2. refs' \in Held /\ Cardinality(References') = Cardinality(References) + 1
  BY <1>1, OneMore DEF syli_object_incr
<1>3. zone = "GcLocal" => \A x \in Thread \ {t} : refs'[x] = refs[x]
  BY <1>1 DEF syli_object_incr, Held
<1>4. 1 \in Int
  OBVIOUS
<1> QED BY <1>2, <1>3, <1>4, CountingStep DEF syli_object_incr

LEMMA DecrStep ==
    ASSUME MetaInv, NEW t \in Thread, NEW n \in 1 .. MaxRefs, syli_object_decr_n(t, n)
    PROVE  MetaInv'
<1>1. refs \in Held
  BY DEF MetaInv, TypeOK
<1>2. refs' \in Held /\ Cardinality(References') = Cardinality(References) - n
  BY <1>1, SomeLess DEF syli_object_decr_n
<1>3. zone = "GcLocal" => \A x \in Thread \ {t} : refs'[x] = refs[x]
  BY <1>1 DEF syli_object_decr_n, Held
<1>4. refs[t] > 0 /\ -n \in Int
  BY <1>1, WidthAssumption DEF syli_object_decr_n, Held
<1>5. Cardinality(References') = Cardinality(References) + (-n)
  <2>1. Cardinality(References) \in Nat
    BY <1>1, ReferencesFit DEF References
  <2> QED BY <1>2, <2>1
<1> QED BY <1>2, <1>3, <1>4, <1>5, CountingStep DEF syli_object_decr_n

LEMMA UpdateLocalStep ==
    ASSUME MetaInv, NEW t \in Thread, NEW op \in {"set", "clear"}, NEW f \in Flag,
           UpdateLocal(t, op, f)
    PROVE  MetaInv'
<1>1. t = Owner /\ pending[t] = None /\ zone = "GcLocal" /\ ~overwritten
  BY DEF UpdateLocal, MayUse, Idle, MetaInv
<1>2. TypeOK' /\ OwnerAlone'
  BY DEF MetaInv, TypeOK, OwnerAlone, UpdateLocal, FlagsAfter
<1>3. ASSUME NEW u \in Thread PROVE PendingOK(u)'
  BY <1>1 DEF MetaInv, PendingOK, UpdateLocal, None
<1>4. WordExact'
  BY <1>1, FlagKeepsWord DEF MetaInv, UpdateLocal
<1> QED BY <1>1, <1>2, <1>3, <1>4 DEF MetaInv, UpdateLocal

LEMMA LoadSharedStep ==
    ASSUME MetaInv, NEW t \in Thread, NEW op \in {"set", "clear"}, NEW f \in Flag,
           LoadShared(t, op, f)
    PROVE  MetaInv'
<1>1. TypeOK' /\ OwnerAlone'
  BY DEF MetaInv, TypeOK, OwnerAlone, LoadShared
<1>2. ASSUME NEW u \in Thread PROVE PendingOK(u)'
  BY DEF MetaInv, TypeOK, PendingOK, LoadShared
<1>3. ~overwritten /\ zone # "Static" => WordExact'
  BY WordUnchanged DEF MetaInv, LoadShared
<1> QED BY <1>1, <1>2, <1>3 DEF MetaInv, LoadShared

\* The exchange stores what the word was when it was loaded only if it still is.
LEMMA ExchangeStep ==
    ASSUME MetaInv, NEW t \in Thread, Exchange(t)
    PROVE  MetaInv'
<1>1. /\ zone = "GcShared" /\ pending[t].op \in {"set", "clear"} /\ pending[t].flag \in Flag
      /\ pending[t].old = meta
  BY DEF MetaInv, PendingOK, Exchange, InExchange, ExchangeAllowed, None
<1>2. TypeOK' /\ OwnerAlone'
  BY <1>1 DEF MetaInv, TypeOK, OwnerAlone, Exchange, FlagsAfter
<1>3. ASSUME NEW u \in Thread PROVE PendingOK(u)'
  BY <1>1 DEF MetaInv, TypeOK, PendingOK, Exchange
<1>4. ~overwritten => WordExact'
  BY <1>1, FlagKeepsWord DEF MetaInv, Exchange
<1> QED BY <1>1, <1>2, <1>3, <1>4 DEF MetaInv, Exchange

LEMMA ExchangeFailsStep ==
    ASSUME MetaInv, NEW t \in Thread, ExchangeFails(t)
    PROVE  MetaInv'
<1>1. zone = "GcShared" /\ pending[t].op \in {"set", "clear"} /\ pending[t].flag \in Flag
  BY DEF MetaInv, PendingOK, ExchangeFails, InExchange, None
<1>2. TypeOK' /\ OwnerAlone'
  BY DEF MetaInv, TypeOK, OwnerAlone, ExchangeFails
<1>3. ASSUME NEW u \in Thread PROVE PendingOK(u)'
  BY <1>1 DEF MetaInv, TypeOK, PendingOK, ExchangeFails
<1>4. ~overwritten => WordExact'
  BY <1>1, WordUnchanged DEF MetaInv, ExchangeFails
<1> QED BY <1>1, <1>2, <1>3, <1>4 DEF MetaInv, ExchangeFails

LEMMA MarkLoadStep ==
    ASSUME MetaInv, NEW t \in Thread, MarkLoad(t)
    PROVE  MetaInv'
<1>1. TypeOK' /\ OwnerAlone'
  BY DEF MetaInv, TypeOK, OwnerAlone, MarkLoad
<1>2. ASSUME NEW u \in Thread PROVE PendingOK(u)'
  BY DEF MetaInv, TypeOK, PendingOK, MarkLoad
<1>3. ~overwritten /\ zone # "Static" => WordExact'
  BY WordUnchanged DEF MetaInv, MarkLoad
<1> QED BY <1>1, <1>2, <1>3 DEF MetaInv, MarkLoad

\* The store of the mark finds the word it loaded, or the object is shared and
\* somebody changed it.
LEMMA MarkStoreStep ==
    ASSUME MetaInv, NEW t \in Thread, MarkStore(t)
    PROVE  MetaInv'
<1>1. /\ zone # "Static" /\ t = Owner
      /\ zone = "GcLocal" => pending[t].old = meta
  BY DEF MetaInv, PendingOK, MarkStore, None
<1>2. TypeOK' /\ OwnerAlone' /\ (overwritten' => zone' = "GcShared")
  BY <1>1 DEF MetaInv, TypeOK, OwnerAlone, MarkStore
<1>3. ASSUME NEW u \in Thread PROVE PendingOK(u)'
  BY <1>1 DEF MetaInv, TypeOK, PendingOK, MarkStore
<1>4. ~overwritten' => WordExact'
  BY <1>1, MarkKeepsWord DEF MetaInv, MarkStore
<1> QED BY <1>2, <1>3, <1>4 DEF MetaInv

LEMMA GenerationStep ==
    ASSUME MetaInv, gc_next_marking_generation
    PROVE  MetaInv'
<1>1. TypeOK' /\ OwnerAlone'
  <2>1. MARKING_BIT \in Nat
    BY RangeIsPositive DEF MARKING_BIT
  <2> QED BY <2>1 DEF MetaInv, TypeOK, OwnerAlone, gc_next_marking_generation
<1>2. ASSUME NEW u \in Thread PROVE PendingOK(u)'
  BY DEF MetaInv, PendingOK, gc_next_marking_generation
<1>3. ~overwritten /\ zone # "Static" => WordExact'
  BY WordUnchanged DEF MetaInv, gc_next_marking_generation
<1> QED BY <1>1, <1>2, <1>3 DEF MetaInv, gc_next_marking_generation

\* Counting, flags and mark keep out of each other's way through every
\* interleaving, for every width of the count that has room for the references
\* and every number of threads; the plain store of gc_mark_tag_object into the
\* word of a shared object is the only exception.
THEOREM MetaCorrect == Spec => []MetaExact
<1>1. MetaInv /\ [Next]_vars => MetaInv'
  <2> SUFFICES ASSUME MetaInv, [Next]_vars PROVE MetaInv'
    OBVIOUS
  <2>1. CASE UNCHANGED vars
    <3>1. \A t \in Thread : PendingOK(t)'
      BY <2>1 DEF vars, MetaInv, PendingOK
    <3> QED BY <2>1, <3>1 DEF vars, MetaInv, TypeOK, OwnerAlone, WordExact, References
  <2>2. CASE Next
    BY <2>2, IncrStep, DecrStep, UpdateLocalStep, LoadSharedStep, ExchangeStep,
       ExchangeFailsStep, MarkLoadStep, MarkStoreStep, GenerationStep DEF Next
  <2> QED BY <2>1, <2>2
<1> QED BY <1>1, InitMeta, ExactIs, PTL DEF Spec

=============================================================================
