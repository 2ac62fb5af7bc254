---------------------------- MODULE BasicLemmas ----------------------------
(***************************************************************************)
(* What the operations of the runtime's vectors (include/syli/             *)
(* chunk_vector.h, as gc_helpers.h uses them) do to the entries: append,   *)
(* pop the last, and replace an entry by the last and pop; and the         *)
(* arithmetic of their indices, which is that of the object words too.     *)
(***************************************************************************)
EXTENDS Integers, SequencesExt, SequenceTheorems, TLAPS

\* gc_vector_pop_back returns an entry and leaves the others in place.
LEMMA PopProperties ==
    ASSUME NEW S, NEW s \in Seq(S), s # <<>>
    PROVE  /\ Front(s) \in Seq(S)
           /\ Len(Front(s)) = Len(s) - 1
           /\ \A i \in 1 .. Len(s) - 1 : Front(s)[i] = s[i]
           /\ Len(s) \in Nat \ {0}
           /\ Last(s) = s[Len(s)]
           /\ Last(s) \in S
<1>1. Len(s) \in Nat \ {0}
  BY EmptySeq
<1>2. Front(s) = SubSeq(s, 1, Len(s) - 1) /\ Last(s) = s[Len(s)]
  BY DEF Front, Last
<1>3. \A i \in 1 .. Len(s) : s[i] \in S
  BY ElementOfSeq
<1>4. 1 \in Int /\ Len(s) - 1 \in Int /\ \A i \in 1 .. Len(s) - 1 : s[i] \in S
  BY <1>1, <1>3
<1> DEFINE f == SubSeq(s, 1, Len(s) - 1)
<1>5. /\ f \in Seq(S)
      /\ Len(f) = IF 1 <= Len(s) - 1 THEN (Len(s) - 1) - 1 + 1 ELSE 0
      /\ \A i \in 1 .. (Len(s) - 1) - 1 + 1 : f[i] = s[1 + i - 1]
  BY <1>4, SubSeqProperties
<1> HIDE DEF f
<1>6. Len(f) = Len(s) - 1
  <2>1. CASE Len(s) = 1
    BY <1>5, <2>1
  <2>2. CASE Len(s) # 1
    <3>0. \A n \in Nat \ {0} : n # 1 => 1 <= n - 1 /\ (n - 1) - 1 + 1 = n - 1
      OBVIOUS
    <3>1. 1 <= Len(s) - 1 /\ (Len(s) - 1) - 1 + 1 = Len(s) - 1
      BY <1>1, <2>2, <3>0, Zenon
    <3> QED BY <1>5, <3>1
  <2> QED BY <2>1, <2>2
<1>7. \A i \in 1 .. Len(s) - 1 : f[i] = s[i]
  BY <1>1, <1>5
<1>8. Front(s) = f
  BY <1>2 DEF f
<1> QED BY <1>1, <1>2, <1>3, <1>5, <1>6, <1>7, <1>8

\* The entries before and after a pop.
LEMMA PopSet ==
    ASSUME NEW S, NEW s \in Seq(S), s # <<>>
    PROVE  ToSet(s) = ToSet(Front(s)) \cup {Last(s)}
<1>1. DOMAIN s = 1 .. Len(s) /\ DOMAIN Front(s) = 1 .. Len(s) - 1
  BY PopProperties, LenProperties
<1> QED BY <1>1, PopProperties DEF ToSet

\* When no entry occurs twice, a pop removes its object from the vector.
LEMMA PopOnce ==
    ASSUME NEW S, NEW s \in Seq(S), s # <<>>, IsInjective(s)
    PROVE  /\ ToSet(Front(s)) = ToSet(s) \ {Last(s)}
           /\ IsInjective(Front(s))
<1>1. DOMAIN s = 1 .. Len(s) /\ DOMAIN Front(s) = 1 .. Len(s) - 1
  BY PopProperties, LenProperties
<1>2. \A i, j \in 1 .. Len(s) : s[i] = s[j] => i = j
  BY <1>1 DEF IsInjective
<1>3. IsInjective(Front(s))
  BY <1>1, <1>2, PopProperties DEF IsInjective
<1>4. Last(s) \notin ToSet(Front(s))
  BY <1>1, <1>2, PopProperties DEF ToSet
<1> QED BY <1>3, <1>4, PopSet

\* The entries before and after an append.
LEMMA AppendSet ==
    ASSUME NEW S, NEW s \in Seq(S), NEW e \in S
    PROVE  /\ Append(s, e) \in Seq(S)
           /\ Append(s, e) # <<>>
           /\ ToSet(Append(s, e)) = ToSet(s) \cup {e}
           /\ IsInjective(s) /\ e \notin ToSet(s) => IsInjective(Append(s, e))
<1>1. /\ Append(s, e) \in Seq(S)
      /\ Len(Append(s, e)) = Len(s) + 1
      /\ \A i \in 1 .. Len(s) : Append(s, e)[i] = s[i]
      /\ Append(s, e)[Len(s) + 1] = e
  BY AppendProperties
<1>2. /\ Len(s) \in Nat
      /\ DOMAIN s = 1 .. Len(s)
      /\ DOMAIN Append(s, e) = 1 .. Len(s) + 1
  BY <1>1, LenProperties
<1>3. Append(s, e) # <<>>
  BY <1>1, <1>2, EmptySeq
<1>4. ToSet(Append(s, e)) = ToSet(s) \cup {e}
  BY <1>1, <1>2 DEF ToSet
<1>5. IsInjective(s) /\ e \notin ToSet(s) => IsInjective(Append(s, e))
  BY <1>1, <1>2 DEF ToSet, IsInjective
<1> QED BY <1>1, <1>3, <1>4, <1>5

\* The pop after a push.
LEMMA AppendPop ==
    ASSUME NEW S, NEW s \in Seq(S), NEW e \in S
    PROVE  Front(Append(s, e)) = s /\ Last(Append(s, e)) = e
<1> DEFINE t == Append(s, e)
<1>1. /\ t \in Seq(S) /\ Len(t) = Len(s) + 1 /\ Len(s) \in Nat
      /\ \A i \in 1 .. Len(s) : t[i] = s[i]
      /\ t[Len(s) + 1] = e
      /\ t # <<>>
  BY AppendProperties, LenProperties, AppendSet
<1> HIDE DEF t
<1>2. /\ Front(t) \in Seq(S) /\ Len(Front(t)) = Len(t) - 1
      /\ \A i \in 1 .. Len(t) - 1 : Front(t)[i] = t[i]
      /\ Last(t) = t[Len(t)]
  BY <1>1, PopProperties
<1>3. Len(Front(t)) = Len(s) /\ (\A i \in 1 .. Len(Front(t)) : Front(t)[i] = s[i]) /\ Last(t) = e
  BY <1>1, <1>2
<1>4. Front(t) = s
  BY <1>2, <1>3, SeqEqual
<1> QED BY <1>3, <1>4 DEF t

\* gc_remove_candidate_at: the last entry takes the place of entry i.
SwapRemove(s, i) ==
    Front(IF i # Len(s) THEN [s EXCEPT ![i] = Last(s)] ELSE s)

\* What is left is a vector of the same type, also for an index out of range.
LEMMA SwapRemoveType ==
    ASSUME NEW S, NEW s \in Seq(S), NEW i \in Nat
    PROVE  SwapRemove(s, i) \in Seq(S)
<1>1. CASE s = <<>>
  <2>1. Len(s) = 0 /\ DOMAIN s = {}
    BY <1>1, EmptySeq
  <2>2. [s EXCEPT ![i] = Last(s)] = s
    BY <2>1, <1>1
  <2>3. SubSeq(s, 1, 0 - 1) = <<>>
    <3>1. 1 \in Int /\ 0 - 1 \in Int /\ 0 - 1 < 1
      OBVIOUS
    <3> QED BY <3>1, SubSeqEmpty
  <2>4. Front(s) = <<>>
    BY <2>1, <2>3 DEF Front
  <2> QED BY <2>2, <2>4, EmptySeq DEF SwapRemove
<1>2. CASE s # <<>>
  <2>1. Len(s) \in Nat \ {0} /\ Last(s) \in S
    BY <1>2, PopProperties
  <2>2. [s EXCEPT ![i] = Last(s)] \in Seq(S) /\ [s EXCEPT ![i] = Last(s)] # <<>>
    <3>1. CASE i \in 1 .. Len(s)
      BY <2>1, <3>1, ExceptSeq, EmptySeq
    <3>2. CASE i \notin 1 .. Len(s)
      <4>1. [s EXCEPT ![i] = Last(s)] = s
        BY <3>2, LenProperties
      <4> QED BY <4>1, <1>2
    <3> QED BY <3>1, <3>2
  <2>3. Front([s EXCEPT ![i] = Last(s)]) \in Seq(S)
    BY <2>2, PopProperties
  <2>4. Front(s) \in Seq(S)
    BY <1>2, PopProperties
  <2> QED BY <2>3, <2>4 DEF SwapRemove
<1> QED BY <1>1, <1>2

\* What the entries are once the entry at i is removed.
LEMMA SwapRemoveEntries ==
    ASSUME NEW S, NEW s \in Seq(S), NEW i \in 1 .. Len(s)
    PROVE  /\ Len(SwapRemove(s, i)) = Len(s) - 1
           /\ \A j \in 1 .. Len(s) - 1 :
                 SwapRemove(s, i)[j] = IF j = i THEN s[Len(s)] ELSE s[j]
<1>1. s # <<>> /\ Len(s) \in Nat \ {0} /\ i \in Nat
  BY EmptySeq, LenProperties
<1>2. Last(s) = s[Len(s)] /\ Last(s) \in S
  BY <1>1, PopProperties
<1>3. CASE i = Len(s)
  <2>1. SwapRemove(s, i) = Front(s)
    BY <1>3 DEF SwapRemove
  <2>2. /\ Len(Front(s)) = Len(s) - 1
        /\ \A j \in 1 .. Len(s) - 1 : Front(s)[j] = s[j]
    BY <1>1, PopProperties
  <2>3. \A j \in 1 .. Len(s) - 1 : j # i
    BY <1>1, <1>3
  <2> QED BY <2>1, <2>2, <2>3
<1>4. CASE i # Len(s)
  <2> DEFINE t == [s EXCEPT ![i] = Last(s)]
  <2>1. SwapRemove(s, i) = Front(t)
    BY <1>4 DEF SwapRemove
  <2>2. /\ t \in Seq(S)
        /\ Len(t) = Len(s)
        /\ \A j \in 1 .. Len(s) : t[j] = IF j = i THEN Last(s) ELSE s[j]
    BY <1>2, ExceptSeq
  <2> HIDE DEF t
  <2>3. t # <<>>
    BY <1>1, <2>2, EmptySeq
  <2>4. /\ Len(Front(t)) = Len(s) - 1
        /\ \A j \in 1 .. Len(s) - 1 : Front(t)[j] = t[j]
    BY <2>2, <2>3, PopProperties
  <2>5. \A j \in 1 .. Len(s) - 1 : j \in 1 .. Len(s)
    BY <1>1
  <2>6. \A j \in 1 .. Len(s) - 1 : Front(t)[j] = IF j = i THEN s[Len(s)] ELSE s[j]
    BY <1>2, <2>2, <2>4, <2>5
  <2> QED BY <2>1, <2>4, <2>6
<1> QED BY <1>3, <1>4

\* Two vectors without a common entry, one after the other.
LEMMA ConcatSet ==
    ASSUME NEW S, NEW s \in Seq(S), NEW t \in Seq(S)
    PROVE  /\ ToSet(s \o t) = ToSet(s) \cup ToSet(t)
           /\ IsInjective(s) /\ IsInjective(t) /\ ToSet(s) \cap ToSet(t) = {}
                => IsInjective(s \o t)
<1> DEFINE u == s \o t
           m == Len(s)
           n == Len(t)
<1>1. /\ m \in Nat /\ DOMAIN s = 1 .. m /\ n \in Nat /\ DOMAIN t = 1 .. n
      /\ u \in Seq(S) /\ Len(u) = m + n
      /\ \A i \in 1 .. m + n : u[i] = IF i <= m THEN s[i] ELSE t[i - m]
  BY LenProperties, ConcatProperties
<1>2. DOMAIN u = 1 .. m + n
  BY <1>1, LenProperties
<1> HIDE DEF u, m, n
<1>3. \A i \in 1 .. m : i \in 1 .. m + n /\ u[i] = s[i]
  BY <1>1
<1>4. \A i \in 1 .. n : m + i \in 1 .. m + n /\ u[m + i] = t[i]
  BY <1>1
<1>5. ASSUME NEW i \in 1 .. m + n
      PROVE  \/ i \in 1 .. m /\ u[i] = s[i]
             \/ i - m \in 1 .. n /\ ~(i <= m) /\ u[i] = t[i - m]
  BY <1>1
<1>6. ToSet(u) = ToSet(s) \cup ToSet(t)
  <2>1. \A i \in 1 .. m + n : u[i] \in ToSet(s) \cup ToSet(t)
    BY <1>1, <1>5 DEF ToSet
  <2>2. ToSet(s) \subseteq ToSet(u)
    BY <1>1, <1>2, <1>3 DEF ToSet
  <2>3. ToSet(t) \subseteq ToSet(u)
    <3>1. ASSUME NEW i \in 1 .. n
          PROVE  t[i] \in {u[j] : j \in 1 .. m + n}
      BY <1>4
    <3> QED BY <1>1, <1>2, <3>1 DEF ToSet
  <2> QED BY <1>2, <2>1, <2>2, <2>3 DEF ToSet
<1>7. ASSUME IsInjective(s), IsInjective(t), ToSet(s) \cap ToSet(t) = {}
      PROVE  IsInjective(u)
  <2>1. ASSUME NEW i \in 1 .. m + n, NEW j \in 1 .. m + n, u[i] = u[j]
        PROVE  i = j
    <3>1. CASE i \in 1 .. m /\ u[i] = s[i] /\ j \in 1 .. m /\ u[j] = s[j]
      BY <1>1, <1>7, <2>1, <3>1 DEF IsInjective
    <3>2. CASE i - m \in 1 .. n /\ u[i] = t[i - m] /\ j - m \in 1 .. n /\ u[j] = t[j - m]
      <4>1. i - m = j - m
        BY <1>1, <1>7, <2>1, <3>2 DEF IsInjective
      <4> QED BY <1>1, <4>1
    <3>3. ASSUME NEW a \in 1 .. m, NEW b \in 1 .. n
          PROVE  s[a] # t[b]
      BY <1>1, <1>7 DEF ToSet
    <3> QED BY <1>5, <2>1, <3>1, <3>2, <3>3
  <2> QED BY <1>2, <2>1 DEF IsInjective
<1> QED BY <1>6, <1>7 DEF u

-----------------------------------------------------------------------------
(***************************************************************************)
(* Quotients: the chunk and the offset of an index (vector_index_to_chunk) *)
(* and the parts of a word.                                                *)
(***************************************************************************)

\* Multiples of S.
LEMMA Distribute ==
    ASSUME NEW a \in Nat, NEW S \in Nat \ {0}
    PROVE  /\ a * S \in Nat
           /\ (a + 1) * S = a * S + S
           /\ a # 0 => (a - 1) * S = a * S - S /\ a - 1 \in Nat
           /\ a = 0 <=> a * S = 0
  OBVIOUS

\* A later multiple is at least S further on.
LEMMA Monotone ==
    ASSUME NEW a \in Nat, NEW b \in Nat, NEW S \in Nat \ {0}, a < b
    PROVE  a * S + S <= b * S
  OBVIOUS

\* Quotient and remainder.
LEMMA DivMod ==
    ASSUME NEW n \in Nat, NEW S \in Nat \ {0}
    PROVE  /\ n = (n \div S) * S + (n % S)
           /\ n % S \in 0 .. S - 1
           /\ n \div S \in Nat
  OBVIOUS

\* They are unique.
LEMMA DivModUnique ==
    ASSUME NEW S \in Nat \ {0}, NEW a \in Nat, NEW r \in 0 .. S - 1, NEW n \in Nat,
           n = a * S + r
    PROVE  n \div S = a /\ n % S = r
<1> DEFINE b == n \div S
           q == n % S
<1>1. n = b * S + q /\ q \in 0 .. S - 1 /\ b \in Nat
  BY DivMod
<1> HIDE DEF b, q
<1>2. ~(a < b)
  <2> SUFFICES ASSUME a < b PROVE FALSE
    OBVIOUS
  <2>1. a * S + S <= b * S
    BY <1>1, Monotone
  <2>2. a * S \in Nat /\ b * S \in Nat
    BY <1>1, Distribute
  <2> QED BY <1>1, <2>1, <2>2
<1>3. ~(b < a)
  <2> SUFFICES ASSUME b < a PROVE FALSE
    OBVIOUS
  <2>1. b * S + S <= a * S
    BY <1>1, Monotone
  <2>2. a * S \in Nat /\ b * S \in Nat
    BY <1>1, Distribute
  <2> QED BY <1>1, <2>1, <2>2
<1>4. a = b
  BY <1>1, <1>2, <1>3
<1>5. r = q
  <2>1. a * S \in Nat
    BY Distribute
  <2> QED BY <1>1, <1>4, <2>1
<1> QED BY <1>4, <1>5 DEF b, q

=============================================================================
