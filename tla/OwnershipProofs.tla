--------------------------- MODULE OwnershipProofs ---------------------------
(***************************************************************************)
(* Theorems about Ownership for every function that the lowering can emit. *)
(***************************************************************************)
EXTENDS Ownership, FiniteSetTheorems, WellFoundedInduction, TLAPS

-----------------------------------------------------------------------------
(***************************************************************************)
(* Induction                                                               *)
(***************************************************************************)
\* A set with 0, and with a number its successor, has all of them: otherwise the
\* intervals 0 .. k that end outside of it would have no smallest one.
LEMMA NatSetInduction ==
    ASSUME NEW P, 0 \in P, \A n \in Nat : n \in P => n + 1 \in P
    PROVE  \A n \in Nat : n \in P
<1>1. SUFFICES ASSUME NEW m \in Nat, m \notin P PROVE FALSE
  OBVIOUS
<1> DEFINE R == StrictSubsetOrdering(Nat)
           S == FiniteSubsetsOf(Nat)
           T == {x \in S : \E k \in Nat : x = 0 .. k /\ k \notin P}
<1>2. IsWellFoundedOn(R, S)
  BY FS_StrictSubsetOrderingWellFounded
<1>3. ASSUME NEW k \in Nat PROVE 0 .. k \in S
  BY FS_Interval DEF FiniteSubsetsOf
<1>4. 0 .. m \in T
  BY <1>1, <1>3
<1>5. T \subseteq S
  OBVIOUS
<1>6. \E x \in T : \A y \in T : ~ (<<y, x>> \in R)
  <2> HIDE DEF T, S, R
  <2> QED BY <1>2, <1>4, <1>5, WFMin
<1>7. PICK x \in T : \A y \in T : ~ (<<y, x>> \in R)
  BY <1>6
<1>8. PICK k \in Nat : x = 0 .. k /\ k \notin P
  OBVIOUS
<1>9. k - 1 \in Nat /\ k - 1 \notin P
  <2>1. k # 0
    BY <1>8
  <2>2. k - 1 \in Nat /\ (k - 1) + 1 = k
    BY <2>1
  <2> QED BY <2>2, <1>8
<1>10. 0 .. (k - 1) \in T
  BY <1>9, <1>3
<1>11. <<0 .. (k - 1), 0 .. k>> \in R
  <2>1. 0 .. (k - 1) \in SUBSET Nat /\ 0 .. k \in SUBSET Nat
    BY <1>9
  <2>2. k \in 0 .. k /\ k \notin 0 .. (k - 1)
    OBVIOUS
  <2>3. 0 .. (k - 1) \subseteq 0 .. k
    OBVIOUS
  <2> QED BY <2>1, <2>2, <2>3 DEF StrictSubsetOrdering
<1> QED BY <1>7, <1>8, <1>10, <1>11

-----------------------------------------------------------------------------
(***************************************************************************)
(* What the backward pass over a block computes                            *)
(***************************************************************************)
\* The operators of the analysis with the function as a parameter.
Uses(f, b) == {f.term[b].var} \ {NoVar}
EndOf(f, ent, b) == Uses(f, b) \cup UNION {ent[s] : s \in f.term[b].targets}
LiveAt(f, ent, b) ==
    LET ss == f.stmts[b]
        live[i \in 1 .. Len(ss) + 1] ==
            IF i = Len(ss) + 1 THEN EndOf(f, ent, b)
            ELSE LiveBeforeStmt(live[i + 1], ss[i])
    IN  live

\* The sets without recursion: v is live before statement i if one from i on, or
\* the end, uses it and none between defines it.
Spared(ss, v, i, j) == \A k \in i .. j - 1 : v \notin RefDef(ss[k])
ClosedForm(ss, end) ==
    [i \in 1 .. Len(ss) + 1 |->
        {v \in Var : (\E j \in i .. Len(ss) : v \in RefUse(ss[j]) /\ Spared(ss, v, i, j))
                     \/ (v \in end /\ Spared(ss, v, i, Len(ss) + 1))}]

\* A statement uses and defines variables.
LEMMA StatementVars ==
    ASSUME NEW s \in Statement
    PROVE  RefUse(s) \subseteq Var /\ RefDef(s) \subseteq Var
  BY DEF Statement, RefUse, RefDef, ToSet

\* The closed form satisfies the equations of the pass.
LEMMA ClosedFormEquations ==
    ASSUME NEW ss \in Seq(Statement), NEW end \in SUBSET Var
    PROVE  ClosedForm(ss, end) =
              [i \in 1 .. Len(ss) + 1 |->
                  IF i = Len(ss) + 1 THEN end
                  ELSE LiveBeforeStmt(ClosedForm(ss, end)[i + 1], ss[i])]
<1> DEFINE n == Len(ss)
           C == ClosedForm(ss, end)
<1>1. n \in Nat
  OBVIOUS
<1>2. ASSUME NEW i \in 1 .. n + 1
      PROVE  C[i] = IF i = n + 1 THEN end ELSE LiveBeforeStmt(C[i + 1], ss[i])
  <2>1. CASE i = n + 1
    BY <1>1, <2>1 DEF ClosedForm, Spared
  <2>2. CASE i \in 1 .. n
    <3>1. ss[i] \in Statement /\ i # n + 1 /\ i + 1 \in 1 .. n + 1
      BY <2>2, <1>1
    <3>2. C[i] \subseteq Var /\ LiveBeforeStmt(C[i + 1], ss[i]) \subseteq Var
      BY <3>1, StatementVars DEF ClosedForm, LiveBeforeStmt
    <3>3. ASSUME NEW v \in Var
          PROVE  v \in C[i] <=> v \in LiveBeforeStmt(C[i + 1], ss[i])
      <4> DEFINE U(j) == v \in RefUse(ss[j])
                 D(k) == v \in RefDef(ss[k])
      <4>1. v \in C[i] <=> \/ \E j \in i .. n : U(j) /\ \A k \in i .. j - 1 : ~D(k)
                           \/ v \in end /\ \A k \in i .. n : ~D(k)
        BY <3>1, <1>1 DEF ClosedForm, Spared
      <4>2. v \in C[i + 1] <=> \/ \E j \in i + 1 .. n : U(j) /\ \A k \in i + 1 .. j - 1 : ~D(k)
                               \/ v \in end /\ \A k \in i + 1 .. n : ~D(k)
        BY <3>1, <1>1 DEF ClosedForm, Spared
      <4>3. v \in LiveBeforeStmt(C[i + 1], ss[i]) <=> U(i) \/ (v \in C[i + 1] /\ ~D(i))
        BY DEF LiveBeforeStmt
      <4> HIDE DEF U, D, C, n
      <4>4. v \in C[i] => U(i) \/ (v \in C[i + 1] /\ ~D(i))
        BY <4>1, <4>2, <1>1, <2>2
      <4>5. U(i) => v \in C[i]
        BY <4>1, <1>1, <2>2
      <4>6. v \in C[i + 1] /\ ~D(i) => v \in C[i]
        BY <4>1, <4>2, <1>1, <2>2
      <4> QED BY <4>3, <4>4, <4>5, <4>6
    <3> QED BY <3>1, <3>2, <3>3
  <2> QED BY <2>1, <2>2, <1>1
<1> QED BY <1>2 DEF ClosedForm

\* What the assumption says of the parts of a block.
LEMMA BlockParts ==
    ASSUME NEW f \in Functions, NEW b \in Block
    PROVE  /\ f.stmts[b] \in Seq(Statement)
           /\ f.term[b].targets \subseteq Block
           /\ Uses(f, b) \subseteq Var
<1>1. f.stmts[b] \in Seq(Statement) /\ f.term[b] \in Terminator
  BY OwnershipAssumption
<1>2. f.term[b].targets \subseteq Block /\ f.term[b].var \in Var \cup {NoVar}
  BY <1>1 DEF Terminator
<1> QED BY <1>1, <1>2 DEF Uses

\* What lives at the end of a block.
LEMMA EndOfMember ==
    ASSUME NEW f, NEW ent, NEW b, NEW v
    PROVE  v \in EndOf(f, ent, b) <=> v \in Uses(f, b) \/ \E s \in f.term[b].targets : v \in ent[s]
  BY DEF EndOf

LEMMA EndOfType ==
    ASSUME NEW f \in Functions, NEW ent \in [Block -> SUBSET Var], NEW b \in Block
    PROVE  EndOf(f, ent, b) \in SUBSET Var
<1>1. \A s \in f.term[b].targets : ent[s] \subseteq Var
  BY BlockParts
<1> QED BY <1>1, BlockParts, EndOfMember

\* The chosen solution of the equations is one.
LEMMA LiveAtEquations ==
    ASSUME NEW f \in Functions, NEW ent \in [Block -> SUBSET Var], NEW b \in Block
    PROVE  LiveAt(f, ent, b) =
              [i \in 1 .. Len(f.stmts[b]) + 1 |->
                  IF i = Len(f.stmts[b]) + 1 THEN EndOf(f, ent, b)
                  ELSE LiveBeforeStmt(LiveAt(f, ent, b)[i + 1], f.stmts[b][i])]
<1>1. f.stmts[b] \in Seq(Statement)
  BY BlockParts
<1>2. EndOf(f, ent, b) \in SUBSET Var
  BY EndOfType
<1>3. PICK c : c = [i \in 1 .. Len(f.stmts[b]) + 1 |->
                       IF i = Len(f.stmts[b]) + 1 THEN EndOf(f, ent, b)
                       ELSE LiveBeforeStmt(c[i + 1], f.stmts[b][i])]
  <2>1. \E c : c = ClosedForm(f.stmts[b], EndOf(f, ent, b))
    OBVIOUS
  <2> QED BY <2>1, <1>1, <1>2, ClosedFormEquations, Zenon
<1> QED BY <1>3, Zenon DEF LiveAt

\* The equations have one solution, so the pass computes the closed form.
LEMMA LiveAtClosed ==
    ASSUME NEW f \in Functions, NEW ent \in [Block -> SUBSET Var], NEW b \in Block
    PROVE  LiveAt(f, ent, b) = ClosedForm(f.stmts[b], EndOf(f, ent, b))
<1> DEFINE ss == f.stmts[b]
           n == Len(ss)
           end == EndOf(f, ent, b)
           L == LiveAt(f, ent, b)
           C == ClosedForm(ss, end)
           P == {m \in Nat : m <= n => L[n + 1 - m] = C[n + 1 - m]}
<1>1. ss \in Seq(Statement) /\ n \in Nat /\ end \in SUBSET Var
  BY BlockParts, EndOfType
<1>2. L = [i \in 1 .. n + 1 |-> IF i = n + 1 THEN end ELSE LiveBeforeStmt(L[i + 1], ss[i])]
  BY LiveAtEquations
<1>3. C = [i \in 1 .. n + 1 |-> IF i = n + 1 THEN end ELSE LiveBeforeStmt(C[i + 1], ss[i])]
  BY <1>1, ClosedFormEquations
<1>4. \A m \in Nat : m \in P
  <2> HIDE DEF L, C, n, end
  <2>1. 0 \in P
    BY <1>1, <1>2, <1>3
  <2>2. ASSUME NEW m \in Nat, m \in P PROVE m + 1 \in P
    <3>1. SUFFICES ASSUME m + 1 <= n PROVE L[n + 1 - (m + 1)] = C[n + 1 - (m + 1)]
      OBVIOUS
    <3>2. L[n + 1 - m] = C[n + 1 - m]
      BY <3>1, <2>2, <1>1
    <3>3. PICK i \in 1 .. n : i = n + 1 - (m + 1) /\ i + 1 = n + 1 - m
      BY <3>1, <1>1
    <3>4. L[i] = LiveBeforeStmt(L[i + 1], ss[i]) /\ C[i] = LiveBeforeStmt(C[i + 1], ss[i])
      BY <1>1, <1>2, <1>3
    <3> QED BY <3>2, <3>3, <3>4
  <2> HIDE DEF P
  <2> QED BY <2>1, <2>2, NatSetInduction
<1>5. ASSUME NEW i \in 1 .. n + 1 PROVE L[i] = C[i]
  <2> HIDE DEF L, C, n
  <2>1. PICK m \in Nat : m <= n /\ i = n + 1 - m
    <3>1. n + 1 - i \in Nat /\ n + 1 - i <= n /\ i = n + 1 - (n + 1 - i)
      BY <1>1
    <3> QED BY <3>1
  <2> QED BY <2>1, <1>4
<1> HIDE DEF L, C, n
<1> QED BY <1>2, <1>3, <1>5 DEF L, C

\* What the pass computes for a block, as it is used below: sets of variables,
\* what lives at the end, one step back over a statement, and at the beginning
\* the variables the block uses first or leaves alone and a successor needs.
LEMMA LiveAtFacts ==
    ASSUME NEW f \in Functions, NEW ent \in [Block -> SUBSET Var], NEW b \in Block
    PROVE  LET ss == f.stmts[b]
               L == LiveAt(f, ent, b)
           IN  /\ \A i \in 1 .. Len(ss) + 1 : L[i] \subseteq Var
               /\ L[Len(ss) + 1] = EndOf(f, ent, b)
               /\ \A i \in 1 .. Len(ss) : L[i] = LiveBeforeStmt(L[i + 1], ss[i])
               /\ \A v \in Var : v \in L[1] <=>
                     \/ v \in ExposedIn(f, b)
                     \/ v \notin DefinedIn(f, b) /\ \E s \in f.term[b].targets : v \in ent[s]
<1> DEFINE ss == f.stmts[b]
           n == Len(ss)
           end == EndOf(f, ent, b)
           L == LiveAt(f, ent, b)
<1>1. ss \in Seq(Statement) /\ n \in Nat /\ end \in SUBSET Var
  BY BlockParts, EndOfType
<1>2. L = [i \in 1 .. n + 1 |-> IF i = n + 1 THEN end ELSE LiveBeforeStmt(L[i + 1], ss[i])]
  BY LiveAtEquations
<1>3. L = ClosedForm(ss, end)
  BY LiveAtClosed
<1>4. \A i \in 1 .. n + 1 : L[i] \subseteq Var
  BY <1>3 DEF ClosedForm
<1>5. L[n + 1] = end /\ \A i \in 1 .. n : L[i] = LiveBeforeStmt(L[i + 1], ss[i])
  <2> HIDE DEF L, n, end
  <2> QED BY <1>1, <1>2
<1>6. ASSUME NEW v \in Var
      PROVE  v \in L[1] <=> \/ v \in ExposedIn(f, b)
                            \/ v \notin DefinedIn(f, b) /\ \E s \in f.term[b].targets : v \in ent[s]
  <2> DEFINE U(j) == v \in RefUse(ss[j])
             D(k) == v \in RefDef(ss[k])
  <2>1. v \in L[1] <=> \/ \E j \in 1 .. n : U(j) /\ \A k \in 1 .. j - 1 : ~D(k)
                       \/ v \in end /\ \A k \in 1 .. n : ~D(k)
    <3>1. 1 \in 1 .. n + 1 /\ (n + 1) - 1 = n
      BY <1>1
    <3> QED BY <1>3, <3>1 DEF ClosedForm, Spared
  <2>2. v \in ExposedIn(f, b) <=> \/ \E j \in 1 .. n : U(j) /\ \A k \in 1 .. j - 1 : ~D(k)
                                  \/ v \in Uses(f, b) /\ \A k \in 1 .. n : ~D(k)
    <3>1. (n + 1) - 1 = n /\ DOMAIN ss = 1 .. n
      BY <1>1
    <3> QED BY <3>1 DEF ExposedIn, Uses
  <2>3. v \in DefinedIn(f, b) <=> \E k \in 1 .. n : D(k)
    <3>1. DOMAIN ss = 1 .. n
      BY <1>1
    <3> QED BY <3>1 DEF DefinedIn
  <2>4. v \in end <=> v \in Uses(f, b) \/ \E s \in f.term[b].targets : v \in ent[s]
    BY EndOfMember
  <2> HIDE DEF U, D, L, n, end, ss
  <2> QED BY <2>1, <2>2, <2>3, <2>4
<1> QED BY <1>4, <1>5, <1>6

-----------------------------------------------------------------------------
(***************************************************************************)
(* The fixpoint is liveness                                                *)
(***************************************************************************)
ClosedIn(f, X, v) ==
    \A b \in Block :
        v \in ExposedIn(f, b)
           \/ (v \notin DefinedIn(f, b) /\ \E s \in f.term[b].targets : s \in X) => b \in X
UsedIn(f, v) == {b \in Block : \A X \in SUBSET Block : ClosedIn(f, X, v) => b \in X}

\* The operators of Ownership are these for the function at hand.
LEMMA LiveInIs ==
    \A ent, b : LiveIn(ent, b) = LiveAt(fn, ent, b) /\ LiveAtEnd(ent, b) = EndOf(fn, ent, b)
<1>1. \A ent, b : LiveAtEnd(ent, b) = EndOf(fn, ent, b)
  BY DEF LiveAtEnd, EndOf, TerminatorUses, Uses, Succ
<1>2. \A ent, b : LiveIn(ent, b) = LiveAt(fn, ent, b)
  BY <1>1, Zenon DEF LiveIn, LiveAt
<1> QED BY <1>1, <1>2

\* The releases at the beginning of a block.
DeadAt(f, ent, b) ==
    IF b = Entry THEN ent[b] \ LiveAt(f, ent, b)[1]
    ELSE LET pred == {p \in Block : b \in f.term[p].targets}
         IN  {v \in Var : pred # {} /\ \A p \in pred : v \in EndOf(f, ent, p) \ ent[b]}

LEMMA DeadEntryIs == \A b : DeadEntry(b) = DeadAt(fn, entries, b)
<1>1. \A b : Pred(b) = {p \in Block : b \in fn.term[p].targets}
  BY DEF Pred, Succ
<1> QED BY <1>1, LiveInIs DEF DeadEntry, DeadAt

LEMMA DeadEntryIsNext == (DeadEntry(block) = DeadAt(fn, entries, block))'
<1>1. DeadEntry(block) = DeadAt(fn, entries, block)
  BY DeadEntryIs
<1> QED BY <1>1, PTL

LEMMA UsedFromIs == \A v : UsedFrom(v) = UsedIn(fn, v)
<1>1. \A X, v : ClosedBackwards(X, v) <=> ClosedIn(fn, X, v)
  <2>1. \A X, b : Succ(b) \cap X # {} <=> \E s \in fn.term[b].targets : s \in X
    BY DEF Succ
  <2> QED BY <2>1 DEF ClosedBackwards, ClosedIn
<1> QED BY <1>1 DEF UsedFrom, UsedIn

\* Only variables some path uses are added to an entry, and the parameters.
SoundIn(f, ent) ==
    \A v \in Var, b \in Block : v \in ent[b] => b \in UsedIn(f, v) \/ (b = Entry /\ v \in f.params)

\* One round over the blocks.
RoundOf(f, ent, b) == LiveAt(f, ent, b)[1] \cup (IF b = Entry THEN f.params ELSE {})

LEMMA RoundType ==
    ASSUME NEW f \in Functions, NEW ent \in [Block -> SUBSET Var]
    PROVE  [b \in Block |-> RoundOf(f, ent, b)] \in [Block -> SUBSET Var]
<1>1. ASSUME NEW b \in Block PROVE RoundOf(f, ent, b) \subseteq Var
  <2>1. 1 \in 1 .. Len(f.stmts[b]) + 1
    <3>1. Len(f.stmts[b]) \in Nat
      BY BlockParts
    <3> QED BY <3>1
  <2>2. LiveAt(f, ent, b)[1] \subseteq Var
    BY <2>1, LiveAtFacts
  <2>3. f.params \subseteq Var
    BY OwnershipAssumption
  <2> QED BY <2>2, <2>3 DEF RoundOf
<1> QED BY <1>1

\* A round keeps the entries sound.
LEMMA RoundSound ==
    ASSUME NEW f \in Functions, NEW ent \in [Block -> SUBSET Var], SoundIn(f, ent)
    PROVE  SoundIn(f, [b \in Block |-> RoundOf(f, ent, b)])
<1>1. SUFFICES ASSUME NEW v \in Var, NEW b \in Block, v \in LiveAt(f, ent, b)[1]
               PROVE  b \in UsedIn(f, v)
  BY DEF SoundIn, RoundOf
<1>2. SUFFICES ASSUME NEW X \in SUBSET Block, ClosedIn(f, X, v) PROVE b \in X
  BY DEF UsedIn
<1>3. CASE v \in ExposedIn(f, b)
  BY <1>2, <1>3 DEF ClosedIn
<1>4. CASE v \notin DefinedIn(f, b) /\ \E s \in f.term[b].targets : v \in ent[s]
  <2>1. PICK s \in f.term[b].targets : v \in ent[s]
    BY <1>4
  <2>2. s \in Block /\ s # Entry
    BY <2>1, BlockParts, LoweringAssumption DEF WellBranched
  <2>3. s \in X
    BY <2>1, <2>2, <1>2 DEF SoundIn, UsedIn
  <2> QED BY <2>1, <2>3, <1>2, <1>4 DEF ClosedIn
<1> QED BY <1>1, <1>3, <1>4, LiveAtFacts

\* A fixpoint has every variable that some path uses.
LEMMA FixpointComplete ==
    ASSUME NEW f \in Functions, NEW ent \in [Block -> SUBSET Var],
           \A b \in Block : ent[b] = RoundOf(f, ent, b),
           NEW v \in Var, NEW b \in UsedIn(f, v)
    PROVE  v \in ent[b]
<1> DEFINE X == {x \in Block : v \in ent[x]}
<1>1. ASSUME NEW x \in Block, v \in LiveAt(f, ent, x)[1] PROVE x \in X
  BY <1>1 DEF RoundOf
<1>2. ClosedIn(f, X, v)
  <2>1. SUFFICES ASSUME NEW x \in Block,
                        v \in ExposedIn(f, x)
                           \/ (v \notin DefinedIn(f, x) /\ \E s \in f.term[x].targets : s \in X)
                 PROVE  x \in X
    BY DEF ClosedIn
  <2>2. v \in ExposedIn(f, x)
           \/ (v \notin DefinedIn(f, x) /\ \E s \in f.term[x].targets : v \in ent[s])
    BY <2>1
  <2>3. v \in LiveAt(f, ent, x)[1]
    BY <2>2, LiveAtFacts
  <2> QED BY <2>3, <1>1
<1>3. X \in SUBSET Block /\ b \in Block
  BY DEF UsedIn
<1> HIDE DEF X
<1>4. b \in X
  BY <1>2, <1>3 DEF UsedIn
<1> QED BY <1>4 DEF X

\* What a path from the first block uses before it defines it is a parameter.
LEMMA UsedAtEntry ==
    ASSUME NEW f \in Functions, NEW v \in Var, Entry \in UsedIn(f, v)
    PROVE  v \in f.params
<1>1. PICK scope \in [Block -> SUBSET Var] :
        /\ scope[Entry] = f.params
        /\ \A b \in Block :
              /\ ExposedIn(f, b) \subseteq scope[b]
              /\ \A s \in f.term[b].targets : scope[s] \subseteq scope[b] \cup DefinedIn(f, b)
  BY LoweringAssumption DEF DefinedBeforeUse
<1> DEFINE X == {x \in Block : v \in scope[x]}
<1>2. ClosedIn(f, X, v)
  BY <1>1 DEF ClosedIn
<1>3. X \in SUBSET Block
  OBVIOUS
<1> HIDE DEF X
<1>4. Entry \in X
  BY <1>2, <1>3 DEF UsedIn
<1> QED BY <1>1, <1>4 DEF X

-----------------------------------------------------------------------------
(***************************************************************************)
(* Owners and live variables                                               *)
(***************************************************************************)
TypeOK ==
    /\ fn \in Functions
    /\ phase \in {"liveness", "enter", "run", "returned", "aborted"}
    /\ entries \in [Block -> SUBSET Var]
    /\ block \in Block /\ index \in 1 .. Len(fn.stmts[block]) + 1
    /\ env \in [Var -> Pointer]
    /\ rc \in [Object -> Int] /\ field \in [Object -> Object \cup {Nil}]
    /\ outside \in [Object -> Nat]
    /\ unused \subseteq Var /\ leaked \in [Object -> Nat]
    /\ aliased \in BOOLEAN

\* A borrow lasts if somebody outside of the function keeps the object.
Usable(v) == env[v] # NoPtr /\ (env[v].tag = "borrow" => outside[env[v].obj] >= 1)

\* Before the function runs: it stands at its beginning, with its parameters.
Start ==
    phase = "liveness" =>
        /\ block = Entry /\ index = 1
        /\ \A v \in Var : /\ v \in fn.params => Usable(v)
                          /\ env[v].tag = "own" => v \in fn.params

\* The entries are sound, and a fixpoint when the rounds have ended.
Analysed ==
    /\ SoundIn(fn, entries)
    /\ phase # "liveness" => \A b \in Block : entries[b] = RoundOf(fn, entries, b)

\* What may still be used can be: the property that makes TypeOK inductive, since
\* a statement reads its arguments.
LiveUsable == phase \in {"enter", "run"} => \A v \in LiveNow : Usable(v)

\* When a block is entered, what dies on the way is released there.
OwnerEnters ==
    phase = "enter" =>
        \A v \in Var : env[v].tag = "own" =>
                          v \in LiveAt(fn, entries, block)[1] \cup DeadEntry(block) \cup unused

EnterIndex == phase = "enter" => index = 1

OwnInv ==
    TypeOK /\ Start /\ Analysed /\ EnterIndex /\ LiveUsable /\ OwnerEnters /\ OwnerIsLive

\* A pointer that is not NoPtr has an object.
LEMMA PointerObject ==
    ASSUME NEW p \in Pointer, p # NoPtr
    PROVE  p.obj \in Object /\ p.tag \in {"own", "borrow"} /\ (p.tag = "own" <=> p = Own(p.obj))
  BY DEF Pointer, Own, NoPtr

LEMMA PointerMakers ==
    /\ \A o \in Object : /\ Own(o) \in Pointer /\ Own(o) # NoPtr /\ Own(o).tag = "own" /\ Own(o).obj = o
                         /\ Borrow(o) \in Pointer /\ Borrow(o) # NoPtr /\ Borrow(o).tag = "borrow"
                         /\ Borrow(o).obj = o
    /\ NoPtr \in Pointer /\ NoPtr.tag = "none"
  BY DEF Pointer, Own, Borrow, NoPtr

\* The statement about to run and the variables live around it.
LEMMA StmtFacts ==
    ASSUME TypeOK, index <= Len(fn.stmts[block])
    PROVE  /\ index \in 1 .. Len(fn.stmts[block]) /\ index + 1 \in 1 .. Len(fn.stmts[block]) + 1
           /\ Stmt \in Statement /\ Stmt.dst \notin RefUse(Stmt) /\ Stmt.dst \in Var \cup {NoVar}
           /\ Stmt.op \in {"set", "narrow", "store_global"} => Stmt.dst = NoVar
           /\ Stmt.op \in {"create", "get", "move"} => Stmt.dst # NoVar
           /\ Stmt.op = "set" => Len(Stmt.args) = 2
           /\ Stmt.op \in {"get", "move", "narrow", "store_global"} => Len(Stmt.args) = 1
           /\ LiveBefore = RefUse(Stmt) \cup (LiveAfter \ RefDef(Stmt))
           /\ LiveBefore \subseteq Var /\ LiveAfter \subseteq Var
<1> DEFINE ss == fn.stmts[block]
           L == LiveAt(fn, entries, block)
<1>1. ss \in Seq(Statement) /\ Len(ss) \in Nat
  BY BlockParts DEF TypeOK
<1>2. index \in 1 .. Len(ss) /\ index + 1 \in 1 .. Len(ss) + 1
  BY <1>1 DEF TypeOK
<1>3. Stmt \in Statement /\ index \in DOMAIN ss
  BY <1>1, <1>2 DEF Stmt
<1>4. /\ Stmt.dst \notin ToSet(Stmt.args)
      /\ Stmt.op \in {"set", "narrow", "store_global"} => Stmt.dst = NoVar
      /\ Stmt.op \in {"create", "get", "move"} => Stmt.dst # NoVar
      /\ Stmt.op = "set" => Len(Stmt.args) = 2
      /\ Stmt.op \in {"get", "move", "narrow", "store_global"} => Len(Stmt.args) = 1
  BY <1>3, OwnershipAssumption DEF TypeOK, Stmt
<1>5. LiveBefore = L[index] /\ LiveAfter = L[index + 1]
  BY LiveInIs DEF LiveBefore, LiveAfter
<1>6. L[index] \subseteq Var /\ L[index + 1] \subseteq Var
      /\ L[index] = LiveBeforeStmt(L[index + 1], ss[index])
  <2>1. /\ \A i \in 1 .. Len(ss) + 1 : L[i] \subseteq Var
        /\ \A i \in 1 .. Len(ss) : L[i] = LiveBeforeStmt(L[i + 1], ss[i])
    <3>1. fn \in Functions /\ entries \in [Block -> SUBSET Var] /\ block \in Block
      BY DEF TypeOK
    <3> QED BY <3>1, LiveAtFacts
  <2>2. index \in 1 .. Len(ss) + 1
    BY DEF TypeOK
  <2> HIDE DEF L, ss
  <2> QED BY <2>1, <2>2, <1>2
<1>7. Stmt.dst \in Var \cup {NoVar}
  BY <1>3 DEF Statement
<1> QED BY <1>2, <1>3, <1>4, <1>5, <1>6, <1>7 DEF LiveBeforeStmt, Stmt, RefUse

\* The arguments of a statement are live, so they can be used.
LEMMA ArgsUsable ==
    ASSUME OwnInv, phase = "run", index <= Len(fn.stmts[block]), NEW v \in RefUse(Stmt)
    PROVE  v \in Var /\ v \in LiveBefore /\ Usable(v) /\ env[v] \in Pointer
           /\ env[v].obj \in Object
<1>1. v \in LiveBefore /\ v \in Var
  BY StmtFacts DEF OwnInv
<1>2. Usable(v)
  BY <1>1 DEF OwnInv, LiveUsable, LiveNow
<1>3. env[v] \in Pointer
  BY <1>1 DEF OwnInv, TypeOK
<1> QED BY <1>1, <1>2, <1>3, PointerObject DEF Usable

\* The result variable is dead before the statement: what it owns nobody uses.
LEMMA ResultDead ==
    ASSUME OwnInv, phase = "run", index <= Len(fn.stmts[block])
    PROVE  /\ Stmt.dst \notin LiveBefore
           /\ Stmt.dst \in Var /\ env[Stmt.dst].tag = "own" => Stmt.dst \in unused
<1>1. Stmt.dst \notin LiveBefore
  BY StmtFacts, OwnershipAssumption DEF OwnInv, RefDef
<1> QED BY <1>1 DEF OwnInv, OwnerIsLive, LiveNow

LEMMA ReleasedType ==
    ASSUME NEW count \in [Object -> Int], NEW P, IsFiniteSet(P), NEW ptr
    PROVE  Released(count, ptr, P) \in [Object -> Int]
<1>1. ASSUME NEW o \in Object PROVE Cardinality({i \in P : ptr[i] = Own(o)}) \in Nat
  <2>1. IsFiniteSet({i \in P : ptr[i] = Own(o)})
    BY FS_Subset
  <2> QED BY <2>1, FS_CardinalityType
<1> QED BY <1>1 DEF Released

LEMMA SharedType ==
    ASSUME NEW count, NEW o \in Object
    PROVE  /\ count \in [Object -> Int] => Shared(count, o) \in [Object -> Int]
           /\ count \in [Object -> Nat] =>
                 Shared(count, o) \in [Object -> Nat] /\ \A q \in Object : Shared(count, o)[q] >= count[q]
  BY DEF Shared

LEMMA LiveBeforeIs ==
    /\ LiveBefore = LiveAt(fn, entries, block)[index]
    /\ LiveAfter = LiveAt(fn, entries, block)[index + 1]
  BY LiveInIs DEF LiveBefore, LiveAfter

LEMMA LiveBeforeIsNext == (LiveBefore = LiveAt(fn, entries, block)[index])'
  BY LiveBeforeIs, PTL

\* After a statement the variables live before the next one are those live
\* after it.
LEMMA NextLive ==
    ASSUME phase = "run", index' = index + 1, UNCHANGED <<fn, phase, entries, block>>
    PROVE  LiveNow' = LiveAfter /\ LiveNow = LiveBefore
<1>1. LiveBefore' = LiveAfter
  BY LiveBeforeIs, LiveBeforeIsNext
<1> QED BY <1>1 DEF LiveNow

\* The end of a statement keeps the invariant if its result can be used and no
\* reference outside is dropped.
LEMMA FinishKeeps ==
    ASSUME OwnInv, phase = "run", index <= Len(fn.stmts[block]),
           NEW p \in Pointer, NEW count \in [Object -> Int], NEW taken, NEW held \in [Object -> Nat],
           Finish(p, count, taken, held),
           \A o \in Object : held[o] >= outside[o],
           p.tag = "own" => Stmt.dst \in Var,
           Stmt.dst \in LiveAfter => p # NoPtr /\ (p.tag = "borrow" => held[p.obj] >= 1),
           field' \in [Object -> Object \cup {Nil}], aliased' \in BOOLEAN
    PROVE  OwnInv'
<1> DEFINE d == Stmt.dst
           B == LiveBefore
           A == LiveAfter
<1>0. /\ \A v \in Var :
            env'[v] = IF v = d THEN p
                      ELSE IF v \in ((B \ A) \ taken) \cup (taken \ A) THEN NoPtr
                      ELSE env[v]
      /\ env' = [v \in Var |-> env'[v]]
      /\ rc' = Released(count, env, (B \ A) \ taken)
      /\ outside' = held
      /\ unused' = (unused \ {d}) \cup {v \in {d} \ A : p.tag = "own"}
      /\ leaked' = IF d # NoVar /\ env[d].tag = "own" THEN Shared(leaked, env[d].obj) ELSE leaked
      /\ index' = index + 1
      /\ UNCHANGED <<fn, phase, entries, block>>
  BY DEF Finish
<1>1. /\ B = RefUse(Stmt) \cup (A \ RefDef(Stmt)) /\ B \subseteq Var /\ A \subseteq Var
      /\ d \in Var \cup {NoVar} /\ d \notin B
  BY StmtFacts, ResultDead DEF OwnInv
<1>2. p.tag = "own" => p.obj \in Object
  BY PointerObject, PointerMakers
<1>3. outside' \in [Object -> Nat] /\ (\A o \in Object : outside'[o] >= held[o])
      /\ unused' \subseteq Var /\ leaked' \in [Object -> Nat]
  <2>1. outside' \in [Object -> Nat] /\ \A o \in Object : outside'[o] >= held[o]
    BY <1>0
  <2>2. unused' \subseteq Var
    BY <1>0, <1>1 DEF OwnInv, TypeOK
  <2>3. leaked \in [Object -> Nat] /\ env \in [Var -> Pointer]
    BY DEF OwnInv, TypeOK
  <2>4. leaked' \in [Object -> Nat]
    <3>1. CASE d # NoVar /\ env[d].tag = "own"
      <4>1. env[d] \in Pointer /\ env[d].obj \in Object
        BY <1>1, <2>3, <3>1, PointerObject, PointerMakers
      <4> QED BY <1>0, <2>3, <3>1, <4>1, SharedType
    <3>2. CASE ~(d # NoVar /\ env[d].tag = "own")
      BY <1>0, <2>3, <3>2
    <3> QED BY <3>1, <3>2
  <2> QED BY <2>1, <2>2, <2>4
<1>4. \A v \in Var : env'[v] \in Pointer
  BY <1>0, PointerMakers DEF OwnInv, TypeOK
<1>5. TypeOK'
  <2>1. rc' \in [Object -> Int]
    <3>1. IsFiniteSet((B \ A) \ taken)
      BY <1>1, FS_Subset, OwnershipAssumption
    <3> QED BY <3>1, <1>0, ReleasedType
  <2>2. env' \in [Var -> Pointer]
    BY <1>4, <1>0 DEF Finish
  <2>3. index' \in 1 .. Len(fn'.stmts[block']) + 1
    BY StmtFacts, <1>0 DEF OwnInv
  <2> QED BY <1>3, <2>1, <2>2, <2>3, <1>0 DEF OwnInv, TypeOK
<1>6. LiveNow' = A /\ LiveNow = B /\ phase' = "run"
  BY <1>0, NextLive
<1>7. ASSUME NEW v \in A PROVE Usable(v)'
  <2>1. v \in Var /\ v \notin (B \ A) \ taken /\ v \notin taken \ A
    BY <1>1
  <2>2. CASE v = d
    <3>1. env'[v] = p
      BY <2>1, <2>2, <1>0
    <3>2. p # NoPtr /\ (p.tag = "borrow" => held[p.obj] >= 1 /\ p.obj \in Object)
      BY <2>2, PointerObject
    <3> QED BY <3>1, <3>2, <1>3 DEF Usable
  <2>3. CASE v # d
    <3>1. env'[v] = env[v]
      BY <2>1, <2>3, <1>0
    <3>2. v \in B
      BY <1>1, <2>3 DEF RefDef
    <3>3. Usable(v)
      BY <3>2, <1>6 DEF OwnInv, LiveUsable
    <3>4. env[v] \in Pointer
      BY <2>1 DEF OwnInv, TypeOK
    <3>5. env[v].tag = "borrow" => env[v].obj \in Object
      BY <3>3, <3>4, PointerObject DEF Usable
    <3> QED BY <3>1, <3>3, <3>5, <1>3 DEF Usable, OwnInv, TypeOK
  <2> QED BY <2>2, <2>3
<1>8. ASSUME NEW v \in Var, env'[v].tag = "own" PROVE v \in A \cup unused'
  <2>1. NoPtr.tag # "own"
    BY PointerMakers
  <2>2. CASE v = d
    BY <1>8, <2>2, <1>0
  <2>3. CASE v # d
    <3>1. SUFFICES ASSUME v \notin A, v \notin unused PROVE FALSE
      BY <1>0, <2>3
    <3>2. v \notin taken /\ v \notin B /\ env'[v] = env[v]
      BY <1>8, <2>1, <2>3, <3>1, <1>0
    <3> QED BY <3>1, <3>2, <1>6, <1>8 DEF OwnInv, OwnerIsLive
  <2> QED BY <2>2, <2>3
<1>9. Analysed'
  BY <1>0 DEF OwnInv, Analysed
<1>10. LiveUsable'
  BY <1>6, <1>7 DEF LiveUsable
<1>11. OwnerIsLive'
  BY <1>6, <1>8 DEF OwnerIsLive
<1>12. Start' /\ OwnerEnters' /\ EnterIndex'
  BY <1>6 DEF Start, OwnerEnters, EnterIndex
<1> QED BY <1>5, <1>9, <1>10, <1>11, <1>12 DEF OwnInv

LEMMA ArgIsUsed ==
    ASSUME NEW s \in Statement, NEW i \in 1 .. Len(s.args)
    PROVE  s.args[i] \in RefUse(s) /\ i \in DOMAIN s.args
  BY DEF Statement, RefUse, ToSet

LEMMA CreateKeeps ==
    ASSUME OwnInv, NEW o \in Object, Create(o)
    PROVE  OwnInv'
<1>1. phase = "run" /\ index <= Len(fn.stmts[block])
  BY DEF Create, AtStmt
<1>2. /\ Own(o) \in Pointer /\ Own(o) # NoPtr /\ Own(o).tag # "borrow"
      /\ Shared(rc, o) \in [Object -> Int] /\ outside \in [Object -> Nat]
      /\ \A q \in Object : outside[q] >= outside[q]
      /\ field' \in [Object -> Object \cup {Nil}] /\ aliased' \in BOOLEAN
  BY PointerMakers, SharedType DEF OwnInv, TypeOK, Create
<1>3. Finish(Own(o), Shared(rc, o), {}, outside) /\ Stmt.dst \in Var
  BY <1>1, StmtFacts DEF Create, AtStmt, OwnInv
<1> QED BY <1>1, <1>2, <1>3, FinishKeeps

\* The pointer that get returns, and the counts.
LEMMA GetResult ==
    ASSUME TypeOK, NEW c \in Object
    PROVE  /\ GetOwnership(c)[1] \in Pointer /\ GetOwnership(c)[1] # NoPtr
           /\ GetOwnership(c)[2] \in [Object -> Int]
           /\ GetOwnership(c)[1] = IF Stmt.dst \in LiveAfter THEN Own(c) ELSE Borrow(c)
           /\ GetOwnership(c)[2] = IF Stmt.dst \in LiveAfter THEN Shared(rc, c) ELSE rc
  BY PointerMakers, SharedType DEF GetOwnership, TypeOK

LEMMA GetKeeps ==
    ASSUME OwnInv, Get
    PROVE  OwnInv'
<1>1. phase = "run" /\ index <= Len(fn.stmts[block]) /\ Stmt.op = "get"
  BY DEF Get, AtStmt
<1>2. Stmt.args[1] \in RefUse(Stmt)
  BY <1>1, StmtFacts, ArgIsUsed DEF OwnInv
<1>3. PICK c : c = field[env[Stmt.args[1]].obj] /\ c # Nil
  BY DEF Get
<1>4. c \in Object
  BY <1>1, <1>2, <1>3, ArgsUsable DEF OwnInv, TypeOK
<1>5. Finish(GetOwnership(c)[1], GetOwnership(c)[2], {}, outside) /\ Stmt.dst \in Var
  BY <1>1, <1>3, StmtFacts DEF Get, OwnInv
<1>6. PICK p, count : p = GetOwnership(c)[1] /\ count = GetOwnership(c)[2]
  OBVIOUS
<1>7. /\ p \in Pointer /\ p # NoPtr /\ count \in [Object -> Int]
      /\ Stmt.dst \in LiveAfter => p.tag # "borrow"
  BY <1>4, <1>6, GetResult, PointerMakers DEF OwnInv
<1>8. /\ outside \in [Object -> Nat] /\ \A q \in Object : outside[q] >= outside[q]
      /\ field' \in [Object -> Object \cup {Nil}] /\ aliased' \in BOOLEAN
  BY DEF OwnInv, TypeOK, Get
<1> QED BY <1>1, <1>5, <1>6, <1>7, <1>8, FinishKeeps

\* The counts that set passes on.
OldReleased(x) == IF field[x] = Nil THEN rc ELSE [rc EXCEPT ![field[x]] = @ - 1]
SetCounts(x, v) ==
    IF v \in LiveAfter THEN Shared(OldReleased(x), env[v].obj) ELSE Owned(OldReleased(x), env[v])

LEMMA SetParts ==
    ASSUME OwnInv, Set
    PROVE  /\ phase = "run" /\ index <= Len(fn.stmts[block]) /\ Stmt.dst = NoVar
           /\ \E x \in Object, v \in RefUse(Stmt) :
                 /\ x = env[Stmt.args[1]].obj /\ v = Stmt.args[2]
                 /\ Finish(NoPtr, SetCounts(x, v), {v} \ LiveAfter, outside)
                 /\ SetCounts(x, v) \in [Object -> Int]
                 /\ field' = [field EXCEPT ![x] = env[v].obj]
                 /\ field' \in [Object -> Object \cup {Nil}]
           /\ UNCHANGED aliased
<1>1. phase = "run" /\ index <= Len(fn.stmts[block]) /\ Stmt.op = "set"
  BY DEF Set, AtStmt
<1>2. Stmt.dst = NoVar /\ Stmt.args[1] \in RefUse(Stmt) /\ Stmt.args[2] \in RefUse(Stmt)
  BY <1>1, StmtFacts, ArgIsUsed DEF OwnInv
<1>3. PICK x, v : x = env[Stmt.args[1]].obj /\ v = Stmt.args[2]
  OBVIOUS
<1>4. x \in Object /\ v \in RefUse(Stmt) /\ env[v].obj \in Object
  BY <1>1, <1>2, <1>3, ArgsUsable
<1>5. Finish(NoPtr, SetCounts(x, v), {v} \ LiveAfter, outside)
      /\ field' = [field EXCEPT ![x] = env[v].obj] /\ UNCHANGED aliased
  BY <1>3, Zenon DEF Set, SetCounts, OldReleased
<1>6. SetCounts(x, v) \in [Object -> Int]
  <2>1. OldReleased(x) \in [Object -> Int]
    BY <1>4 DEF OwnInv, TypeOK, OldReleased
  <2> QED BY <2>1, <1>4, SharedType DEF SetCounts, Owned
<1>7. field' \in [Object -> Object \cup {Nil}]
  BY <1>4, <1>5 DEF OwnInv, TypeOK
<1> QED BY <1>1, <1>2, <1>3, <1>4, <1>5, <1>6, <1>7

LEMMA SetKeeps ==
    ASSUME OwnInv, Set
    PROVE  OwnInv'
<1>1. PICK x \in Object, v \in RefUse(Stmt) :
         /\ Finish(NoPtr, SetCounts(x, v), {v} \ LiveAfter, outside)
         /\ SetCounts(x, v) \in [Object -> Int]
         /\ field' \in [Object -> Object \cup {Nil}]
  BY SetParts
<1>2. PICK count, taken : count = SetCounts(x, v) /\ taken = {v} \ LiveAfter
  OBVIOUS
<1>3. /\ NoPtr \in Pointer /\ outside \in [Object -> Nat] /\ aliased' \in BOOLEAN
      /\ \A q \in Object : outside[q] >= outside[q]
  BY SetParts, PointerMakers DEF OwnInv, TypeOK
<1>4. Stmt.dst \notin LiveAfter
  BY SetParts, StmtFacts, OwnershipAssumption DEF OwnInv
<1> QED BY SetParts, <1>1, <1>2, <1>3, <1>4, PointerMakers, FinishKeeps

\* The counts after the arguments are handed over.
LEMMA HandedType ==
    ASSUME TypeOK, index <= Len(fn.stmts[block])
    PROVE  Released(rc, Args, Transferred) \in [Object -> Int] /\ IsFiniteSet(Transferred)
<1>1. Stmt.args \in Seq(Var)
  BY StmtFacts DEF Statement
<1>2. IsFiniteSet(DOMAIN Stmt.args)
  <2>1. PICK n \in Nat : DOMAIN Stmt.args = 1 .. n
    BY <1>1
  <2> QED BY <2>1, FS_Interval
<1>3. IsFiniteSet(Transferred)
  BY <1>2, FS_Subset DEF Transferred
<1> QED BY <1>3, ReleasedType DEF TypeOK

LEMMA CallKeeps ==
    ASSUME OwnInv, NEW o \in Object, Call(o)
    PROVE  OwnInv'
<1>1. phase = "run" /\ index <= Len(fn.stmts[block])
  BY DEF Call, AtStmt
<1>2. PICK count, taken : /\ count = Shared(Released(rc, Args, Transferred), o)
                          /\ taken = {Stmt.args[i] : i \in Transferred}
  OBVIOUS
<1>3. count \in [Object -> Int]
  BY <1>1, <1>2, HandedType, SharedType DEF OwnInv
<1>4. Finish(Own(o), count, taken, outside) /\ Stmt.dst \in Var
  BY <1>1, <1>2, StmtFacts DEF Call, OwnInv
<1>5. /\ Own(o) \in Pointer /\ Own(o) # NoPtr /\ Own(o).tag # "borrow"
      /\ outside \in [Object -> Nat] /\ \A q \in Object : outside[q] >= outside[q]
      /\ field' \in [Object -> Object \cup {Nil}] /\ aliased' \in BOOLEAN
  BY PointerMakers DEF OwnInv, TypeOK, Call
<1> QED BY <1>1, <1>3, <1>4, <1>5, FinishKeeps

LEMMA HandOverKeeps ==
    ASSUME OwnInv, HandOver
    PROVE  OwnInv'
<1>1. phase = "run" /\ index <= Len(fn.stmts[block])
  BY DEF HandOver, AtStmt
<1>2. PICK count, taken : /\ count = Released(rc, Args, Transferred)
                          /\ taken = {Stmt.args[i] : i \in Transferred}
  OBVIOUS
<1>3. count \in [Object -> Int]
  BY <1>1, <1>2, HandedType DEF OwnInv
<1>4. Finish(NoPtr, count, taken, outside)
  BY <1>2 DEF HandOver
<1>5. /\ NoPtr \in Pointer /\ outside \in [Object -> Nat]
      /\ \A q \in Object : outside[q] >= outside[q]
      /\ field' \in [Object -> Object \cup {Nil}] /\ aliased' \in BOOLEAN
  BY PointerMakers DEF OwnInv, TypeOK, HandOver
<1>6. Stmt.dst \notin LiveAfter
  <2>1. Stmt.dst = NoVar
    BY <1>1, StmtFacts DEF OwnInv, HandOver, AtStmt
  <2> QED BY <1>1, <2>1, StmtFacts, OwnershipAssumption DEF OwnInv
<1> QED BY <1>1, <1>3, <1>4, <1>5, <1>6, PointerMakers, FinishKeeps

LEMMA MoveParts ==
    ASSUME OwnInv, Move
    PROVE  /\ phase = "run" /\ index <= Len(fn.stmts[block])
           /\ Stmt.dst \in Var
           /\ \E s \in RefUse(Stmt) :
                 /\ Finish(env[s], rc, {s}, outside)
                 /\ aliased' = (aliased \/ (s \in LiveAfter /\ env[s].tag = "own"))
           /\ UNCHANGED field
<1>1. phase = "run" /\ index <= Len(fn.stmts[block]) /\ Stmt.op = "move"
  BY DEF Move, AtStmt
<1>2. Stmt.args[1] \in RefUse(Stmt)
  BY <1>1, StmtFacts, ArgIsUsed DEF OwnInv
<1>3. Stmt.dst \in Var
  BY <1>1, StmtFacts DEF OwnInv
<1> QED BY <1>1, <1>2, <1>3 DEF Move

LEMMA MoveKeeps ==
    ASSUME OwnInv, Move
    PROVE  OwnInv'
<1>1. PICK s \in RefUse(Stmt) :
         /\ Finish(env[s], rc, {s}, outside)
         /\ aliased' = (aliased \/ (s \in LiveAfter /\ env[s].tag = "own"))
  BY MoveParts
<1>2. PICK p : p = env[s]
  OBVIOUS
<1>3. p \in Pointer /\ p # NoPtr /\ (p.tag = "borrow" => outside[p.obj] >= 1)
  BY <1>2, MoveParts, ArgsUsable DEF Usable
<1>4. /\ rc \in [Object -> Int] /\ outside \in [Object -> Nat]
      /\ \A q \in Object : outside[q] >= outside[q]
      /\ field' \in [Object -> Object \cup {Nil}] /\ aliased' \in BOOLEAN
  BY <1>1, MoveParts DEF OwnInv, TypeOK
<1>5. Finish(p, rc, {s}, outside)
  BY <1>1, <1>2
<1> QED BY MoveParts, <1>3, <1>4, <1>5, FinishKeeps

\* store_global: what is counted and who is outside.
LEMMA StoreGlobalParts ==
    ASSUME OwnInv, StoreGlobal
    PROVE  /\ phase = "run" /\ index <= Len(fn.stmts[block]) /\ Stmt.dst = NoVar
           /\ \E v \in RefUse(Stmt) :
                 \/ /\ v \in LiveAfter
                    /\ Finish(NoPtr, Shared(rc, env[v].obj), {}, Shared(outside, env[v].obj))
                 \/ /\ v \notin LiveAfter
                    /\ Finish(NoPtr, rc, {v}, IF env[v].tag = "own" THEN Shared(outside, env[v].obj)
                                              ELSE outside)
           /\ UNCHANGED <<field, aliased>>
<1>1. phase = "run" /\ index <= Len(fn.stmts[block]) /\ Stmt.op = "store_global"
  BY DEF StoreGlobal, AtStmt
<1>2. Stmt.args[1] \in RefUse(Stmt) /\ Stmt.dst = NoVar
  BY <1>1, StmtFacts, ArgIsUsed DEF OwnInv
<1>3. PICK v : v = Stmt.args[1]
  OBVIOUS
<1>4. \/ /\ v \in LiveAfter
         /\ Finish(NoPtr, Shared(rc, env[v].obj), {}, Shared(outside, env[v].obj))
      \/ /\ v \notin LiveAfter
         /\ Finish(NoPtr, rc, {v}, IF env[v].tag = "own" THEN Shared(outside, env[v].obj) ELSE outside)
  BY <1>3, Zenon DEF StoreGlobal
<1> QED BY <1>1, <1>2, <1>3, <1>4 DEF StoreGlobal

LEMMA StoreGlobalKeeps ==
    ASSUME OwnInv, StoreGlobal
    PROVE  OwnInv'
<1>1. PICK v \in RefUse(Stmt) :
         \/ /\ v \in LiveAfter
            /\ Finish(NoPtr, Shared(rc, env[v].obj), {}, Shared(outside, env[v].obj))
         \/ /\ v \notin LiveAfter
            /\ Finish(NoPtr, rc, {v}, IF env[v].tag = "own" THEN Shared(outside, env[v].obj) ELSE outside)
  BY StoreGlobalParts
<1>2. PICK o : o = env[v].obj
  OBVIOUS
<1>3. o \in Object
  BY <1>2, StoreGlobalParts, ArgsUsable
<1>4. /\ NoPtr \in Pointer /\ Shared(rc, o) \in [Object -> Int] /\ rc \in [Object -> Int]
      /\ Shared(outside, o) \in [Object -> Nat] /\ outside \in [Object -> Nat]
      /\ \A q \in Object : outside[q] >= outside[q] /\ Shared(outside, o)[q] >= outside[q]
      /\ field' \in [Object -> Object \cup {Nil}] /\ aliased' \in BOOLEAN
  <2>1. rc \in [Object -> Int] /\ outside \in [Object -> Nat]
    BY DEF OwnInv, TypeOK
  <2>2. field' \in [Object -> Object \cup {Nil}] /\ aliased' \in BOOLEAN
    BY StoreGlobalParts DEF OwnInv, TypeOK
  <2> QED BY <2>1, <2>2, <1>3, SharedType, PointerMakers
<1>5. Stmt.dst \notin LiveAfter
  BY StoreGlobalParts, StmtFacts, OwnershipAssumption DEF OwnInv
<1>6. CASE Finish(NoPtr, Shared(rc, o), {}, Shared(outside, o))
  BY StoreGlobalParts, <1>4, <1>5, <1>6, PointerMakers, FinishKeeps
<1>7. ASSUME NEW held \in {outside, Shared(outside, o)}, Finish(NoPtr, rc, {v}, held)
      PROVE  OwnInv'
  <2>1. held \in [Object -> Nat] /\ \A q \in Object : held[q] >= outside[q]
    BY <1>4
  <2>2. NoPtr.tag # "own"
    BY PointerMakers
  <2> QED BY StoreGlobalParts, <1>4, <1>5, <1>7, <2>1, <2>2, FinishKeeps
<1>8. CASE Finish(NoPtr, rc, {v}, IF env[v].tag = "own" THEN Shared(outside, o) ELSE outside)
  <2>1. PICK held : held = IF env[v].tag = "own" THEN Shared(outside, o) ELSE outside
    OBVIOUS
  <2> QED BY <2>1, <1>7, <1>8
<1> QED BY <1>1, <1>2, <1>6, <1>8

-----------------------------------------------------------------------------
\* The initial values.
LEMMA InitOwn == Init => OwnInv
<1>1. SUFFICES ASSUME Init PROVE OwnInv
  OBVIOUS
<1>2. PICK lent \in SUBSET fn.params :
        /\ env = [v \in Var |-> IF v \notin fn.params THEN NoPtr
                                ELSE IF v \in lent THEN Borrow(ParamObject[v])
                                ELSE Own(ParamObject[v])]
        /\ outside = [o \in Object |-> IF \E v \in lent : ParamObject[v] = o THEN 1 ELSE 0]
  BY <1>1 DEF Init
<1> DEFINE given == {ParamObject[v] : v \in fn.params}
<1>3. /\ field = [o \in Object |-> IF o \in given THEN FieldObject ELSE Nil]
      /\ rc = [o \in Object |-> IF o \in given THEN 1
                                ELSE IF o = FieldObject THEN Cardinality(given) ELSE 0]
  BY <1>1 DEF Init
<1>4. fn \in Functions /\ fn.params \subseteq Var /\ \A v \in Var : ParamObject[v] \in Object
  BY <1>1, OwnershipAssumption DEF Init
<1>5. Cardinality(given) \in Nat
  <2>1. given \subseteq Object
    BY <1>4
  <2>2. IsFiniteSet(given)
    BY <2>1, OwnershipAssumption, FS_Subset
  <2> QED BY <2>2, FS_CardinalityType
<1>6. TypeOK
  <2>1. env \in [Var -> Pointer]
    BY <1>2, <1>4, PointerMakers
  <2>2. outside \in [Object -> Nat] /\ unused \subseteq Var /\ leaked \in [Object -> Nat]
    BY <1>1, <1>2 DEF Init
  <2>3. rc \in [Object -> Int] /\ field \in [Object -> Object \cup {Nil}]
    <3> HIDE DEF given
    <3> QED BY <1>3, <1>5, OwnershipAssumption
  <2>4. Entry \in Block /\ Len(fn.stmts[Entry]) \in Nat
    BY <1>4, OwnershipAssumption, BlockParts
  <2>5. index \in 1 .. Len(fn.stmts[block]) + 1 /\ block \in Block
    BY <1>1, <2>4 DEF Init
  <2> QED BY <1>1, <2>1, <2>2, <2>3, <2>5 DEF TypeOK, Init
<1>7. Start
  <2>1. ASSUME NEW v \in fn.params PROVE Usable(v)
    <3>1. CASE v \in lent
      <4>1. env[v] = Borrow(ParamObject[v]) /\ ParamObject[v] \in Object
        BY <3>1, <1>2, <1>4
      <4>2. outside[ParamObject[v]] = 1
        BY <3>1, <4>1, <1>2
      <4> QED BY <4>1, <4>2, PointerMakers DEF Usable
    <3>2. CASE v \notin lent
      <4>1. env[v] = Own(ParamObject[v]) /\ ParamObject[v] \in Object
        BY <3>2, <1>2, <1>4
      <4> QED BY <4>1, PointerMakers DEF Usable
    <3> QED BY <3>1, <3>2
  <2>2. ASSUME NEW v \in Var, env[v].tag = "own" PROVE v \in fn.params
    <3>1. v \notin fn.params => env[v] = NoPtr
      BY <1>2
    <3> QED BY <3>1, <2>2, PointerMakers
  <2> QED BY <1>1, <2>1, <2>2 DEF Start, Init
<1>8. Analysed
  BY <1>1 DEF Analysed, SoundIn, Init
<1>9. LiveUsable /\ OwnerEnters /\ OwnerIsLive /\ EnterIndex
  BY <1>1 DEF LiveUsable, OwnerEnters, OwnerIsLive, EnterIndex, Init
<1> QED BY <1>6, <1>7, <1>8, <1>9 DEF OwnInv

\* A round of the analysis, and the last one, after which the function begins.
LEMMA RoundKeeps ==
    ASSUME OwnInv, Round
    PROVE  OwnInv'
<1>1. entries' = [b \in Block |-> RoundOf(fn, entries, b)]
  BY LiveInIs DEF Round, NewEntry, RoundOf
<1>2. /\ phase = "liveness" /\ phase' = IF entries' = entries THEN "enter" ELSE "liveness"
      /\ UNCHANGED <<fn, block, index, env, rc, field, outside, unused, leaked, aliased>>
  BY DEF Round, position, heap, waste
<1>3. entries' \in [Block -> SUBSET Var] /\ SoundIn(fn, entries')
  BY <1>1, RoundType, RoundSound DEF OwnInv, TypeOK, Analysed
<1>4. TypeOK'
  BY <1>2, <1>3 DEF OwnInv, TypeOK
<1>5. /\ block = Entry /\ index = 1
      /\ \A v \in Var : /\ v \in fn.params => Usable(v)
                        /\ env[v].tag = "own" => v \in fn.params
  BY <1>2 DEF OwnInv, Start
<1>6. \A v \in Var : Usable(v)' <=> Usable(v)
  BY <1>2 DEF Usable
<1>7. CASE phase' = "liveness"
  <2>1. Start'
    BY <1>2, <1>5, <1>6 DEF Start
  <2>2. LiveUsable' /\ OwnerEnters' /\ OwnerIsLive' /\ EnterIndex'
    BY <1>7 DEF LiveUsable, OwnerEnters, OwnerIsLive, EnterIndex
  <2>3. Analysed'
    BY <1>2, <1>3, <1>7 DEF Analysed
  <2> QED BY <1>4, <2>1, <2>2, <2>3 DEF OwnInv
<1>8. CASE phase' = "enter" /\ entries' = entries
  <2>1. \A b \in Block : entries[b] = RoundOf(fn, entries, b)
    BY <1>1, <1>8
  <2>2. Analysed'
    BY <1>2, <1>3, <1>8, <2>1 DEF Analysed
  <2>3. entries[Entry] = LiveAt(fn, entries, Entry)[1] \cup fn.params /\ Entry \in Block
    BY <2>1, OwnershipAssumption DEF RoundOf
  <2>4. LiveNow' = entries[Entry]
    BY <1>2, <1>5, <1>8 DEF LiveNow
  <2>5. entries[Entry] \subseteq fn.params
    <3>1. SUFFICES ASSUME NEW v \in entries[Entry] PROVE v \in fn.params
      OBVIOUS
    <3>2. v \in Var
      BY <2>3 DEF OwnInv, TypeOK
    <3>3. Entry \in UsedIn(fn, v) \/ v \in fn.params
      BY <2>3, <3>2 DEF OwnInv, Analysed, SoundIn
    <3> QED BY <3>2, <3>3, UsedAtEntry DEF OwnInv, TypeOK
  <2>6. fn.params \subseteq Var
    BY OwnershipAssumption DEF OwnInv, TypeOK
  <2>7. LiveUsable'
    BY <2>4, <2>5, <2>6, <1>5, <1>6 DEF LiveUsable
  <2>8. OwnerEnters'
    <3>1. SUFFICES ASSUME NEW v \in Var, env[v].tag = "own"
                   PROVE  v \in LiveAt(fn', entries', block')[1] \cup DeadEntry(block)' \cup unused'
      BY <1>2 DEF OwnerEnters
    <3>2. DeadEntry(block)' = entries[Entry] \ LiveAt(fn, entries, Entry)[1]
      BY <1>2, <1>5, <1>8, DeadEntryIsNext DEF DeadAt
    <3>3. v \in entries[Entry]
      BY <3>1, <1>5, <2>3
    <3> QED BY <3>2, <3>3, <1>2, <1>5, <1>8
  <2> QED BY <1>2, <1>4, <1>5, <1>8, <2>2, <2>7, <2>8 DEF OwnInv, Start, OwnerIsLive, EnterIndex
<1> QED BY <1>2, <1>7, <1>8

\* The entries are the sets live at the beginning, and the parameters.
LEMMA EntryOf ==
    ASSUME TypeOK, Analysed, phase # "liveness", NEW b \in Block
    PROVE  entries[b] = LiveAt(fn, entries, b)[1] \cup (IF b = Entry THEN fn.params ELSE {})
           /\ LiveAt(fn, entries, b)[1] \cap DeadEntry(b) = {}
<1>1. entries[b] = LiveAt(fn, entries, b)[1] \cup (IF b = Entry THEN fn.params ELSE {})
  BY DEF Analysed, RoundOf
<1>2. CASE b = Entry
  BY <1>2, <1>1, LiveInIs DEF DeadEntry
<1>3. CASE b # Entry
  <2>1. DeadEntry(b) \cap entries[b] = {}
    <3>1. DeadEntry(b) = {v \in Var : Pred(b) # {} /\ \A p \in Pred(b) :
                                         v \in LiveAtEnd(entries, p) \ entries[b]}
      BY <1>3 DEF DeadEntry
    <3> HIDE DEF DeadEntry
    <3> QED BY <3>1
  <2> QED BY <2>1, <1>1, <1>3
<1> QED BY <1>1, <1>2, <1>3

LEMMA DeadEntryType ==
    ASSUME TypeOK, NEW b \in Block
    PROVE  DeadEntry(b) \subseteq Var
  BY DEF DeadEntry, TypeOK

LEMMA EnterBlockKeeps ==
    ASSUME OwnInv, EnterBlock
    PROVE  OwnInv'
<1>1. PICK D : D = DeadEntry(block)
  OBVIOUS
<1>2. /\ phase = "enter" /\ phase' = "run"
      /\ env' = [v \in Var |-> IF v \in D THEN NoPtr ELSE env[v]]
      /\ rc' = Released(rc, env, D)
      /\ UNCHANGED <<fn, entries, block, index, field, outside, unused, leaked, aliased>>
  BY <1>1 DEF EnterBlock, position, waste
<1>3. index = 1
  BY <1>2 DEF OwnInv, EnterIndex
<1>4. D \subseteq Var /\ IsFiniteSet(D)
  BY <1>1, DeadEntryType, OwnershipAssumption, FS_Subset DEF OwnInv, TypeOK
<1>5. TypeOK'
  <2>1. rc' \in [Object -> Int]
    BY <1>2, <1>4, ReleasedType DEF OwnInv, TypeOK
  <2>2. env' \in [Var -> Pointer]
    BY <1>2, PointerMakers DEF OwnInv, TypeOK
  <2> QED BY <1>2, <2>1, <2>2 DEF OwnInv, TypeOK
<1>6. PICK L : L = LiveAt(fn, entries, block)[1]
  OBVIOUS
<1>7. LiveNow' = L /\ LiveNow = entries[block]
  BY <1>2, <1>3, <1>6, LiveBeforeIsNext DEF LiveNow
<1>8. L \subseteq entries[block] /\ L \cap D = {} /\ entries[block] \subseteq Var
  BY <1>1, <1>2, <1>6, EntryOf DEF OwnInv, TypeOK
<1>9. LiveUsable'
  <2>1. SUFFICES ASSUME NEW v \in L PROVE Usable(v)'
    BY <1>7 DEF LiveUsable
  <2>2. env'[v] = env[v]
    BY <1>2, <1>8
  <2>3. Usable(v)
    BY <1>2, <1>7, <1>8 DEF OwnInv, LiveUsable
  <2> QED BY <1>2, <2>2, <2>3 DEF Usable
<1>10. OwnerIsLive'
  <2>1. SUFFICES ASSUME NEW v \in Var, env'[v].tag = "own" PROVE v \in L \cup unused
    BY <1>2, <1>7 DEF OwnerIsLive
  <2>2. v \notin D /\ env'[v] = env[v]
    BY <1>2, <2>1, PointerMakers
  <2> QED BY <1>1, <1>2, <1>6, <2>1, <2>2 DEF OwnInv, OwnerEnters
<1> QED BY <1>2, <1>5, <1>9, <1>10 DEF OwnInv, Start, Analysed, OwnerEnters, EnterIndex

\* At the end of a block: what its successors need and its terminator uses.
LEMMA AtEndFacts ==
    ASSUME TypeOK, NEW kind, AtEnd(kind)
    PROVE  /\ phase = "run" /\ fn.term[block].kind = kind
           /\ LiveNow = EndOf(fn, entries, block) /\ LiveNow = LiveBefore
<1>1. phase = "run" /\ fn.term[block].kind = kind /\ index > Len(fn.stmts[block])
  BY DEF AtEnd
<1>2. Len(fn.stmts[block]) \in Nat
  BY BlockParts DEF TypeOK
<1>3. index = Len(fn.stmts[block]) + 1
  <2>1. PICK n \in Nat : n = Len(fn.stmts[block])
    BY <1>2
  <2>2. index \in 1 .. n + 1
    BY <2>1 DEF TypeOK
  <2> QED BY <1>1, <2>1, <2>2
<1>4. LiveAt(fn, entries, block)[Len(fn.stmts[block]) + 1] = EndOf(fn, entries, block)
  BY LiveAtFacts DEF TypeOK
<1> QED BY <1>1, <1>3, <1>4, LiveBeforeIs DEF LiveNow

\* On the edge from p to b an owner lives on, or dies at the beginning of b: a
\* block with other predecessors is only reached by gotos.
LEMMA EdgeCovers ==
    ASSUME TypeOK, Analysed, phase # "liveness", NEW p \in Block, NEW b \in fn.term[p].targets,
           NEW v \in EndOf(fn, entries, p)
    PROVE  /\ b \in Block /\ b # Entry /\ entries[b] \subseteq EndOf(fn, entries, p)
           /\ v \in LiveAt(fn, entries, b)[1] \cup DeadEntry(b)
<1>1. b \in Block /\ v \in Var
  BY BlockParts, EndOfType DEF TypeOK
<1>2. /\ b # Entry
      /\ \/ fn.term[p].targets = {b} /\ fn.term[p].var = NoVar
         \/ \A q \in Block : b \in fn.term[q].targets => q = p
  BY LoweringAssumption DEF TypeOK, WellBranched
<1>3. entries[b] = LiveAt(fn, entries, b)[1]
  BY <1>1, <1>2, EntryOf
<1>4. entries[b] \subseteq EndOf(fn, entries, p)
  BY EndOfMember
<1>5. CASE v \in entries[b]
  BY <1>1, <1>2, <1>3, <1>4, <1>5
<1>6. CASE v \notin entries[b]
  <2>1. \A q \in Block : b \in fn.term[q].targets => q = p
    <3>1. ASSUME fn.term[p].targets = {b}, fn.term[p].var = NoVar PROVE FALSE
      <4>1. Uses(fn, p) = {}
        BY <3>1 DEF Uses
      <4> QED BY <3>1, <4>1, <1>6, EndOfMember
    <3> QED BY <3>1, <1>2
  <2>2. Pred(b) = {p}
    BY <2>1 DEF Pred, Succ
  <2>3. v \in LiveAtEnd(entries, p) \ entries[b]
    BY <1>6, LiveInIs
  <2>4. v \in DeadEntry(b)
    BY <1>1, <1>2, <2>2, <2>3 DEF DeadEntry
  <2> QED BY <1>1, <1>2, <1>4, <2>4
<1> QED BY <1>5, <1>6

LEMMA BranchKeeps ==
    ASSUME OwnInv, NEW b \in Block, Branch(b)
    PROVE  OwnInv'
<1>1. /\ AtEnd("branch") /\ b \in fn.term[block].targets
      /\ block' = b /\ index' = 1 /\ phase' = "enter"
      /\ UNCHANGED <<fn, entries, env, rc, field, outside, unused, leaked, aliased>>
  BY DEF Branch, Succ, heap, waste
<1>2. phase = "run" /\ LiveNow = EndOf(fn, entries, block)
  BY <1>1, AtEndFacts DEF OwnInv
<1>3. TypeOK'
  <2>1. Len(fn.stmts[b]) \in Nat
    BY BlockParts DEF OwnInv, TypeOK
  <2> QED BY <1>1, <2>1 DEF OwnInv, TypeOK
<1>4. LiveNow' = entries[b]
  BY <1>1 DEF LiveNow
<1>5. LiveUsable'
  <2>1. SUFFICES ASSUME NEW v \in entries[b] PROVE Usable(v)'
    BY <1>4 DEF LiveUsable
  <2>2. v \in LiveNow
    BY <1>1, <1>2, EndOfMember
  <2>3. Usable(v)
    BY <1>2, <2>2 DEF OwnInv, LiveUsable
  <2> QED BY <1>1, <2>3 DEF Usable
<1>6. OwnerEnters'
  <2>1. SUFFICES ASSUME NEW v \in Var, env[v].tag = "own"
                 PROVE  v \in LiveAt(fn, entries, b)[1] \cup DeadEntry(block)' \cup unused
    BY <1>1 DEF OwnerEnters
  <2>2. DeadEntry(block)' = DeadEntry(b)
    BY <1>1, DeadEntryIs, DeadEntryIsNext
  <2>3. v \in EndOf(fn, entries, block) \cup unused
    BY <1>2, <2>1 DEF OwnInv, OwnerIsLive
  <2>4. v \in LiveAt(fn, entries, b)[1] \cup DeadEntry(b) \cup unused
    BY <1>1, <1>2, <2>3, EdgeCovers DEF OwnInv, TypeOK
  <2> QED BY <2>2, <2>4
<1> QED BY <1>1, <1>2, <1>3, <1>5, <1>6 DEF OwnInv, Start, Analysed, OwnerIsLive, EnterIndex

LEMMA ReturnKeeps ==
    ASSUME OwnInv, Return
    PROVE  OwnInv'
<1>1. PICK v : v = fn.term[block].var
  OBVIOUS
<1>2. /\ AtEnd("return") /\ phase' = "returned"
      /\ UNCHANGED <<fn, entries, block, index, field, unused, leaked, aliased>>
  BY DEF Return, position, waste
<1>3. \/ v = NoVar /\ UNCHANGED <<env, rc, outside>>
      \/ /\ v # NoVar /\ rc' = Owned(rc, env[v])
         /\ outside' = Shared(outside, env[v].obj)
         /\ env' = [env EXCEPT ![v] = NoPtr]
  BY <1>1 DEF Return
<1>4. phase = "run" /\ LiveNow = EndOf(fn, entries, block) /\ fn.term[block].kind = "return"
  BY <1>2, AtEndFacts DEF OwnInv
<1>5. LiveNow = {v} \ {NoVar}
  <2>1. fn.term[block].targets = {}
    BY <1>4, LoweringAssumption DEF OwnInv, TypeOK, WellBranched
  <2> QED BY <1>1, <1>4, <2>1 DEF EndOf, Uses
<1>6. v # NoVar => v \in Var /\ env[v] \in Pointer /\ env[v].obj \in Object
  <2>1. SUFFICES ASSUME v # NoVar PROVE v \in Var /\ env[v] \in Pointer /\ env[v].obj \in Object
    OBVIOUS
  <2>2. v \in Var
    BY <1>1, <2>1, BlockParts DEF Uses, OwnInv, TypeOK
  <2>3. Usable(v)
    BY <1>4, <1>5, <2>1 DEF OwnInv, LiveUsable
  <2> QED BY <2>2, <2>3, PointerObject DEF Usable, OwnInv, TypeOK
<1>7. TypeOK'
  <2>1. CASE v = NoVar
    BY <1>2, <1>3, <2>1 DEF OwnInv, TypeOK
  <2>2. CASE v # NoVar
    <3>1. rc' \in [Object -> Int] /\ outside' \in [Object -> Nat]
      <4>1. rc \in [Object -> Int] /\ outside \in [Object -> Nat]
        BY DEF OwnInv, TypeOK
      <4>2. PICK p : p = env[v]
        OBVIOUS
      <4>3. p.obj \in Object /\ rc' = Owned(rc, p) /\ outside' = Shared(outside, p.obj)
        BY <1>3, <1>6, <2>2, <4>2
      <4> QED BY <4>1, <4>3, SharedType DEF Owned
    <3>2. env' \in [Var -> Pointer]
      BY <1>3, <1>6, <2>2, PointerMakers DEF OwnInv, TypeOK
    <3> QED BY <1>2, <3>1, <3>2 DEF OwnInv, TypeOK
  <2> QED BY <2>1, <2>2
<1>8. OwnerIsLive'
  <2>1. SUFFICES ASSUME NEW w \in Var, env'[w].tag = "own", w \notin unused PROVE FALSE
    BY <1>2 DEF OwnerIsLive
  <2>2. w = v => env'[w] = NoPtr
    BY <1>3, <1>6, OwnershipAssumption DEF OwnInv, TypeOK
  <2>3. w # v /\ env'[w] = env[w]
    <3>1. w # v
      BY <2>1, <2>2, PointerMakers
    <3> QED BY <1>3, <1>6, <3>1 DEF OwnInv, TypeOK
  <2>4. w \in LiveNow
    BY <1>4, <2>1, <2>3 DEF OwnInv, OwnerIsLive
  <2> QED BY <1>5, <2>3, <2>4
<1> QED BY <1>2, <1>4, <1>7, <1>8 DEF OwnInv, Start, Analysed, LiveUsable, OwnerEnters, EnterIndex

LEMMA MatchFailureKeeps ==
    ASSUME OwnInv, MatchFailure
    PROVE  OwnInv'
<1>1. /\ phase = "run" /\ phase' = "aborted"
      /\ UNCHANGED <<fn, entries, block, index, env, rc, field, outside, unused, leaked, aliased>>
  BY DEF MatchFailure, AtEnd, position, heap, waste
<1> QED BY <1>1 DEF OwnInv, TypeOK, Start, Analysed, EnterIndex, LiveUsable, OwnerEnters, OwnerIsLive

\* Steps that leave the position and the variables alone keep what is live.
LEMMA SamePlace ==
    ASSUME OwnInv, UNCHANGED <<fn, phase, entries, block, index, env, outside, unused, leaked, aliased>>,
           TypeOK'
    PROVE  OwnInv'
<1>1. LiveNow' = LiveNow
  BY LiveBeforeIs, LiveBeforeIsNext DEF LiveNow
<1>2. DeadEntry(block)' = DeadEntry(block)
  BY DeadEntryIs, DeadEntryIsNext
<1>3. \A v : Usable(v)' <=> Usable(v)
  BY DEF Usable
<1>4. LiveUsable'
  BY <1>1, <1>3 DEF OwnInv, LiveUsable
<1>5. OwnerEnters'
  BY <1>2 DEF OwnInv, OwnerEnters
<1>6. OwnerIsLive'
  BY <1>1 DEF OwnInv, OwnerIsLive
<1>7. Start'
  BY <1>3 DEF OwnInv, Start
<1> QED BY <1>4, <1>5, <1>6, <1>7 DEF OwnInv, Analysed, EnterIndex

LEMMA ReleaseChildKeeps ==
    ASSUME OwnInv, NEW o \in Object, ReleaseChild(o)
    PROVE  OwnInv'
<1>1. /\ UNCHANGED <<fn, phase, entries, block, index, env, outside, unused, leaked, aliased>>
      /\ field[o] # Nil
      /\ rc' = [rc EXCEPT ![field[o]] = @ - 1] /\ field' = [field EXCEPT ![o] = Nil]
  BY DEF ReleaseChild, position, waste
<1>2. TypeOK'
  BY <1>1 DEF OwnInv, TypeOK
<1> QED BY <1>1, <1>2, SamePlace

\* The steps of the specification keep the invariant.
LEMMA OwnStep == OwnInv /\ [Next]_vars => OwnInv'
<1>1. SUFFICES ASSUME OwnInv, [Next]_vars PROVE OwnInv'
  OBVIOUS
<1>2. ASSUME NEW o \in Object, Create(o) \/ Call(o) \/ ReleaseChild(o) PROVE OwnInv'
  BY <1>1, <1>2, CreateKeeps, CallKeeps, ReleaseChildKeeps
<1>3. CASE Get \/ Set \/ HandOver \/ Move \/ StoreGlobal
  BY <1>1, <1>3, GetKeeps, SetKeeps, HandOverKeeps, MoveKeeps, StoreGlobalKeeps
<1>4. ASSUME NEW b \in Block, Branch(b) PROVE OwnInv'
  BY <1>1, <1>4, BranchKeeps
<1>5. CASE Round \/ EnterBlock \/ Return \/ MatchFailure
  BY <1>1, <1>5, RoundKeeps, EnterBlockKeeps, ReturnKeeps, MatchFailureKeeps
<1>6. CASE UNCHANGED vars
  <2>1. UNCHANGED <<fn, phase, entries, block, index, env, rc, field, outside, unused, leaked, aliased>>
    BY <1>6 DEF vars, position, heap, waste
  <2>2. TypeOK'
    BY <1>1, <2>1 DEF OwnInv, TypeOK
  <2> QED BY <1>1, <2>1, <2>2, SamePlace
<1> QED BY <1>1, <1>2, <1>3, <1>4, <1>5, <1>6 DEF Next

\* OwnInv holds in every reachable state of every function.
THEOREM OwnershipInvariant == Spec => []OwnInv
<1> QED BY InitOwn, OwnStep, PTL DEF Spec

\* What leaks: when a statement of a block is about to run, every variable that
\* owns a reference is used later on some path from there, or holds a value that
\* nobody ever uses; when the function returns only such variables own one.  Where
\* a variable dies the pass puts its release, at a statement or, when it dies on an
\* edge, at the beginning of the block (mk_releases in pass_ownership.ml); where it
\* is born dead, none.
THEOREM OwnerIsLiveCorrect == Spec => []OwnerIsLive
<1>1. OwnInv => OwnerIsLive
  BY DEF OwnInv
<1> QED BY <1>1, OwnershipInvariant, PTL

\* The fixpoint of analyze in liveness.ml is liveness, for every control-flow
\* graph: the iteration adds only what some path uses, and when it stops nothing
\* is missing.
THEOREM LivenessExactCorrect == Spec => []LivenessExact
<1>1. OwnInv => LivenessExact
  <2>1. SUFFICES ASSUME OwnInv, phase = "enter", NEW v \in Var, NEW b \in Block
                 PROVE  v \in entries[b] <=> b \in UsedFrom(v) \/ (b = Entry /\ v \in fn.params)
    BY DEF LivenessExact
  <2>2. UsedFrom(v) = UsedIn(fn, v)
    BY UsedFromIs
  <2>3. v \in entries[b] => b \in UsedIn(fn, v) \/ (b = Entry /\ v \in fn.params)
    BY <2>1 DEF OwnInv, Analysed, SoundIn
  <2>4. \A x \in Block : entries[x] = RoundOf(fn, entries, x)
    BY <2>1 DEF OwnInv, Analysed
  <2>5. b \in UsedIn(fn, v) => v \in entries[b]
    BY <2>1, <2>4, FixpointComplete DEF OwnInv, TypeOK
  <2>6. b = Entry /\ v \in fn.params => v \in entries[b]
    BY <2>4 DEF RoundOf
  <2> QED BY <2>2, <2>3, <2>5, <2>6
<1> QED BY <1>1, OwnershipInvariant, PTL

-----------------------------------------------------------------------------
(***************************************************************************)
(* The counts                                                              *)
(***************************************************************************)
Owners(e, o) == {v \in Var : e[v] = Own(o)}
Fields(h, o) == {x \in Object : h[x] = o}

\* What RcExact says, with the two sets as operators of their own.
CountsExact ==
    ~aliased => \A o \in Object :
        rc[o] = Cardinality(Owners(env, o)) + Cardinality(Fields(field, o)) + outside[o] + leaked[o]

LEMMA CountsExactIs == CountsExact <=> RcExact
  BY DEF CountsExact, RcExact, Holders, Owners, Fields

LEMMA OwnersFinite ==
    ASSUME NEW e, NEW h, NEW o
    PROVE  /\ IsFiniteSet(Owners(e, o)) /\ Cardinality(Owners(e, o)) \in Nat
           /\ IsFiniteSet(Fields(h, o)) /\ Cardinality(Fields(h, o)) \in Nat
<1>1. Owners(e, o) \subseteq Var /\ Fields(h, o) \subseteq Object
  BY DEF Owners, Fields
<1>2. IsFiniteSet(Owners(e, o)) /\ IsFiniteSet(Fields(h, o))
  BY <1>1, FS_Subset, OwnershipAssumption
<1> QED BY <1>2, FS_CardinalityType

\* The elements of a finite set that are taken away.
LEMMA Removed ==
    ASSUME NEW S, IsFiniteSet(S), NEW T
    PROVE  /\ IsFiniteSet(S \ T) /\ Cardinality(S \ T) \in Nat
           /\ Cardinality(S \cap T) \in Nat
           /\ Cardinality(S \ T) = Cardinality(S) - Cardinality(S \cap T)
<1>1. IsFiniteSet(S \ T) /\ IsFiniteSet(S \cap T)
  BY FS_Subset
<1> QED BY <1>1, FS_Difference, FS_CardinalityType

LEMMA OneRemoved ==
    ASSUME NEW S, IsFiniteSet(S), NEW x
    PROVE  Cardinality(S) \in Nat /\
           Cardinality(S \ {x}) = IF x \in S THEN Cardinality(S) - 1 ELSE Cardinality(S)
  BY FS_RemoveElement, FS_CardinalityType

LEMMA OneAdded ==
    ASSUME NEW S, IsFiniteSet(S), NEW x, x \notin S
    PROVE  Cardinality(S \cup {x}) = Cardinality(S) + 1
  BY FS_AddElement

LEMMA SharedAt ==
    ASSUME NEW count \in [Object -> Int], NEW o \in Object, NEW q \in Object
    PROVE  Shared(count, o)[q] = IF q = o THEN count[q] + 1 ELSE count[q]
  BY DEF Shared

LEMMA SharedNatAt ==
    ASSUME NEW count \in [Object -> Nat], NEW o \in Object, NEW q \in Object
    PROVE  Shared(count, o)[q] = IF q = o THEN count[q] + 1 ELSE count[q]
  BY DEF Shared

LEMMA OwnInjective ==
    /\ \A o, q : Own(o) = Own(q) <=> o = q
    /\ \A o : Own(o) # NoPtr /\ Own(o).tag = "own" /\ Own(o).obj = o
  BY DEF Own, NoPtr

\* What a statement gives Finish: the counts are the owners but for those taken
\* over, the result, the fields and the references outside.
Given(count, p, taken, held, o) ==
    count[o] = Cardinality(Owners(env, o) \ (taken \ LiveAfter))
               + (IF p = Own(o) THEN 1 ELSE 0) + held[o] + leaked[o] + Cardinality(Fields(field', o))

\* Then the counts are exact at the end of the statement.
LEMMA FinishCounts ==
    ASSUME OwnInv, phase = "run", index <= Len(fn.stmts[block]),
           NEW p \in Pointer, NEW count \in [Object -> Int], NEW taken, taken \subseteq RefUse(Stmt),
           NEW held \in [Object -> Nat], Finish(p, count, taken, held),
           p.tag = "own" => Stmt.dst \in Var,
           NEW o \in Object, Given(count, p, taken, held, o)
    PROVE  rc'[o] = Cardinality(Owners(env', o)) + Cardinality(Fields(field', o)) + outside'[o] + leaked'[o]
<1>0. PICK F \in Nat : F = Cardinality(Fields(field', o))
  BY OwnersFinite
<1> DEFINE d == Stmt.dst
           B == LiveBefore
           A == LiveAfter
           dying == (B \ A) \ taken
           kept == Owners(env, o) \ (taken \ A)
           left == kept \ dying
<1>1. /\ \A v \in Var :
            env'[v] = IF v = d THEN p
                      ELSE IF v \in ((B \ A) \ taken) \cup (taken \ A) THEN NoPtr
                      ELSE env[v]
      /\ rc' = Released(count, env, (B \ A) \ taken)
      /\ outside' = held
      /\ leaked' = IF d # NoVar /\ env[d].tag = "own" THEN Shared(leaked, env[d].obj) ELSE leaked
  BY DEF Finish
<1>2. /\ B \subseteq Var /\ A \subseteq Var /\ d \notin B /\ d \in Var \cup {NoVar}
      /\ taken \subseteq B /\ NoVar \notin Var
  BY StmtFacts, ResultDead, OwnershipAssumption DEF OwnInv
<1>3. kept \cap dying = {i \in dying : env[i] = Own(o)}
  BY <1>2 DEF Owners
<1>4. rc'[o] = count[o] - Cardinality(kept \cap dying)
  BY <1>1, <1>3 DEF Released
<1>5. /\ IsFiniteSet(left) /\ Cardinality(left) \in Nat /\ Cardinality(kept) \in Nat
      /\ Cardinality(kept \cap dying) \in Nat
      /\ Cardinality(left) = Cardinality(kept) - Cardinality(kept \cap dying)
  BY OwnersFinite, Removed
<1>6. rc'[o] = Cardinality(left) + (IF p = Own(o) THEN 1 ELSE 0) + held[o] + leaked[o] + F
  <2>1. PICK k, l, m : /\ k = Cardinality(kept) /\ l = Cardinality(left)
                       /\ m = Cardinality(kept \cap dying)
    OBVIOUS
  <2>2. count[o] = k + (IF p = Own(o) THEN 1 ELSE 0) + held[o] + leaked[o] + F
    BY <1>0, <2>1 DEF Given
  <2> HIDE DEF kept, left, dying
  <2>3. k \in Nat /\ l \in Nat /\ m \in Nat /\ l = k - m /\ rc'[o] = count[o] - m
    BY <1>4, <1>5, <2>1
  <2>4. PICK one \in {0, 1}, x \in Nat, y \in Nat :
           one = (IF p = Own(o) THEN 1 ELSE 0) /\ x = held[o] /\ y = leaked[o]
    BY DEF OwnInv, TypeOK
  <2>5. count[o] = k + one + x + y + F
    BY <2>2, <2>4
  <2>6. rc'[o] = l + one + x + y + F
    <3>1. \A i, j, a, b, c \in Nat, w \in {0, 1} : (i + w + a + b + c) - j = (i - j) + w + a + b + c
      OBVIOUS
    <3>2. rc'[o] = (k + one + x + y + F) - m
      BY <2>3, <2>5
    <3> QED BY <3>1, <3>2, <1>0, <2>3, <2>4
  <2> QED BY <2>1, <2>4, <2>6
\* The reference that the result variable owned, if it was one to o.
<1>7. d \in left <=> d \in Var /\ env[d] = Own(o)
  BY <1>2 DEF Owners
<1>8. leaked'[o] = leaked[o] + (IF d \in left THEN 1 ELSE 0)
  <2>1. leaked \in [Object -> Nat] /\ env \in [Var -> Pointer]
    BY DEF OwnInv, TypeOK
  <2>2. CASE d \in Var /\ env[d].tag = "own"
    <3>1. PICK q \in Object : q = env[d].obj /\ env[d] = Own(q)
      <4>1. env[d] \in Pointer /\ env[d] # NoPtr
        BY <2>1, <2>2, PointerMakers
      <4>2. env[d].obj \in Object /\ env[d] = Own(env[d].obj)
        BY <4>1, <2>2, PointerObject
      <4> QED BY <4>2
    <3>2. d \in left <=> q = o
      BY <1>7, <2>2, <3>1, OwnInjective
    <3>3. leaked' = Shared(leaked, q)
      BY <1>1, <1>2, <2>2, <3>1
    <3> HIDE DEF left, d
    <3> QED BY <2>1, <3>2, <3>3, SharedNatAt, SMTT(20)
  <2>3. CASE ~(d \in Var /\ env[d].tag = "own")
    <3>1. d \notin left
      BY <1>7, <2>3, OwnInjective
    <3>2. leaked' = leaked
      BY <1>1, <1>2, <2>3
    <3> HIDE DEF left
    <3> QED BY <2>1, <3>1, <3>2
  <2> QED BY <2>2, <2>3
<1>9. Owners(env', o) = (left \ {d}) \cup {v \in {d} : p = Own(o)}
  <2>1. ASSUME NEW v \in Var, v # d PROVE env'[v] = Own(o) <=> v \in left
    <3>1. v \notin dying \cup (taken \ A) => env'[v] = env[v]
      BY <1>1, <2>1
    <3>2. v \in dying \cup (taken \ A) => env'[v] = NoPtr
      BY <1>1, <2>1
    <3> QED BY <2>1, <3>1, <3>2, OwnInjective DEF Owners
  <2>2. left \subseteq Var /\ Owners(env', o) \subseteq Var
        /\ \A v \in Var : v \in Owners(env', o) <=> env'[v] = Own(o)
    BY DEF Owners
  <2>3. d \in Var => env'[d] = p
    BY <1>1
  <2>4. p = Own(o) => d \in Var
    BY OwnInjective
  <2> HIDE DEF left, d
  <2> QED BY <2>1, <2>2, <2>3, <2>4
<1>10. Cardinality(Owners(env', o)) =
          Cardinality(left) - (IF d \in left THEN 1 ELSE 0) + (IF p = Own(o) THEN 1 ELSE 0)
  <2>1. PICK rest : rest = left \ {d}
    OBVIOUS
  <2>2. IsFiniteSet(rest) /\ d \notin rest /\ Cardinality(rest) \in Nat
    BY <1>5, <2>1, FS_Subset, FS_CardinalityType
  <2> HIDE DEF left, d
  <2>3. Cardinality(rest) = Cardinality(left) - (IF d \in left THEN 1 ELSE 0)
    BY <1>5, <2>1, OneRemoved
  <2>4. CASE p = Own(o)
    <3>1. Owners(env', o) = rest \cup {d}
      BY <1>9, <2>1, <2>4
    <3>2. Cardinality(Owners(env', o)) = Cardinality(rest) + 1
      BY <2>2, <3>1, OneAdded
    <3> QED BY <2>3, <2>4, <3>2
  <2>5. CASE p # Own(o)
    <3>1. Owners(env', o) = rest
      BY <1>9, <2>1, <2>5
    <3> QED BY <1>5, <2>3, <2>5, <3>1
  <2> QED BY <2>4, <2>5
<1> HIDE DEF left, dying, kept, A, B, d
<1>11. PICK lost \in {0, 1}, one \in {0, 1} :
          lost = (IF d \in left THEN 1 ELSE 0) /\ one = (IF p = Own(o) THEN 1 ELSE 0)
  OBVIOUS
<1>12. PICK l, x, y, owners, after :
          /\ l \in Nat /\ x \in Nat /\ y \in Nat
          /\ l = Cardinality(left) /\ x = held[o] /\ y = leaked[o]
          /\ owners = Cardinality(Owners(env', o)) /\ after = leaked'[o]
  BY <1>5 DEF OwnInv, TypeOK
<1>13. owners = l - lost + one /\ after = y + lost /\ rc'[o] = l + one + x + y + F
  <2>1. owners = l - lost + one
    BY <1>10, <1>11, <1>12
  <2>2. after = y + lost
    BY <1>8, <1>11, <1>12
  <2>3. rc'[o] = l + one + x + y + F
    BY <1>6, <1>11, <1>12
  <2> QED BY <2>1, <2>2, <2>3
<1>14. rc'[o] = owners + F + x + after
  <2>1. F \in Int /\ l \in Int /\ x \in Int /\ y \in Int /\ lost \in Int /\ one \in Int
    BY <1>0, <1>11, <1>12
  <2>2. l + one + x + y + F = (l - lost + one) + F + x + (y + lost)
    BY <2>1
  <2> QED BY <2>2, <1>13, Zenon
<1>15. outside'[o] = x
  BY <1>1, <1>12
<1> QED BY <1>0, <1>12, <1>14, <1>15

LEMMA CreateCounts ==
    ASSUME OwnInv, CountsExact, NEW x \in Object, Create(x)
    PROVE  CountsExact'
<1>1. SUFFICES ASSUME ~aliased, NEW o \in Object
               PROVE  rc'[o] = Cardinality(Owners(env', o)) + Cardinality(Fields(field', o))
                              + outside'[o] + leaked'[o]
  BY DEF CountsExact, Create
<1>2. phase = "run" /\ index <= Len(fn.stmts[block]) /\ field' = field
  BY DEF Create, AtStmt
<1>3. PICK count : count = Shared(rc, x)
  OBVIOUS
<1>4. Finish(Own(x), count, {}, outside)
  BY <1>3 DEF Create
<1>5. /\ rc \in [Object -> Int] /\ outside \in [Object -> Nat]
      /\ leaked \in [Object -> Nat] /\ count \in [Object -> Int]
      /\ Own(x) \in Pointer
  BY <1>3, SharedType, PointerMakers DEF OwnInv, TypeOK
<1>6. Owners(env, o) \ ({} \ LiveAfter) = Owners(env, o)
  OBVIOUS
<1>7. PICK k, n : /\ k = Cardinality(Owners(env, o)) /\ n = Cardinality(Fields(field', o))
                  /\ k \in Nat /\ n \in Nat
  BY OwnersFinite
<1>8. rc[o] = k + n + outside[o] + leaked[o]
  BY <1>1, <1>2, <1>7 DEF CountsExact
<1>9. PICK one \in {0, 1} : (Own(x) = Own(o) /\ one = 1) \/ (Own(x) # Own(o) /\ one = 0)
  OBVIOUS
<1>10. count[o] = rc[o] + one
  BY <1>3, <1>5, <1>9, SharedAt, OwnInjective
<1>11. count[o] = k + one + outside[o] + leaked[o] + n
  BY <1>5, <1>7, <1>8, <1>9, <1>10
<1>12. Given(count, Own(x), {}, outside, o)
  BY <1>6, <1>7, <1>9, <1>11 DEF Given
<1>13. {} \subseteq RefUse(Stmt) /\ Stmt.dst \in Var
  BY <1>2, StmtFacts DEF OwnInv, Create, AtStmt
<1> QED BY <1>2, <1>4, <1>5, <1>12, <1>13, FinishCounts

LEMMA GetCounts ==
    ASSUME OwnInv, CountsExact, Get
    PROVE  CountsExact'
<1>1. SUFFICES ASSUME ~aliased, NEW o \in Object
               PROVE  rc'[o] = Cardinality(Owners(env', o)) + Cardinality(Fields(field', o))
                              + outside'[o] + leaked'[o]
  BY DEF CountsExact, Get
<1>2. phase = "run" /\ index <= Len(fn.stmts[block]) /\ Stmt.op = "get" /\ field' = field
  BY DEF Get, AtStmt
<1>3. Stmt.args[1] \in RefUse(Stmt)
  BY <1>2, StmtFacts, ArgIsUsed DEF OwnInv
<1>4. PICK c : c = field[env[Stmt.args[1]].obj] /\ c # Nil
  BY DEF Get
<1>5. c \in Object
  BY <1>2, <1>3, <1>4, ArgsUsable DEF OwnInv, TypeOK
<1>6. PICK p, count : p = GetOwnership(c)[1] /\ count = GetOwnership(c)[2]
  OBVIOUS
<1>7. Finish(p, count, {}, outside)
  BY <1>4, <1>6 DEF Get
<1>8. /\ rc \in [Object -> Int] /\ outside \in [Object -> Nat]
      /\ leaked \in [Object -> Nat] /\ count \in [Object -> Int]
      /\ p \in Pointer
      /\ \/ p = Own(c) /\ count = Shared(rc, c)
         \/ p = Borrow(c) /\ count = rc
  BY <1>5, <1>6, GetResult DEF OwnInv, TypeOK
<1>9. Owners(env, o) \ ({} \ LiveAfter) = Owners(env, o)
  OBVIOUS
<1>10. Borrow(c) # Own(o)
  BY DEF Borrow, Own
<1>11. PICK k, n : /\ k = Cardinality(Owners(env, o)) /\ n = Cardinality(Fields(field', o))
                   /\ k \in Nat /\ n \in Nat
  BY OwnersFinite
<1>12. rc[o] = k + n + outside[o] + leaked[o]
  BY <1>1, <1>2, <1>11 DEF CountsExact
<1>13. PICK one \in {0, 1} : (p = Own(o) /\ one = 1) \/ (p # Own(o) /\ one = 0)
  OBVIOUS
<1>14. count[o] = rc[o] + one
  BY <1>5, <1>8, <1>10, <1>13, SharedAt, OwnInjective
<1>15. count[o] = k + one + outside[o] + leaked[o] + n
  BY <1>8, <1>11, <1>12, <1>13, <1>14
<1>16. Given(count, p, {}, outside, o)
  BY <1>9, <1>11, <1>13, <1>15 DEF Given
<1>17. Stmt.dst \in Var
  BY <1>2, StmtFacts DEF OwnInv
<1> QED BY <1>2, <1>7, <1>8, <1>16, <1>17, FinishCounts

\* The field of x is overwritten with y.
Refers(p, o) == IF p = o THEN 1 ELSE 0

LEMMA FieldWritten ==
    ASSUME NEW h \in [Object -> Object \cup {Nil}], NEW x \in Object, NEW y \in Object \cup {Nil},
           NEW o \in Object, NEW g, g[x] = y, \A z \in Object : z # x => g[z] = h[z]
    PROVE  Cardinality(Fields(g, o)) =
              Cardinality(Fields(h, o)) - Refers(h[x], o) + Refers(y, o)
<1> DEFINE S == Fields(h, o) \ {x}
<1>1. IsFiniteSet(S) /\ IsFiniteSet(Fields(h, o)) /\ Cardinality(Fields(h, o)) \in Nat
  BY OwnersFinite, FS_Subset
<1>2. Cardinality(S) = Cardinality(Fields(h, o)) - Refers(h[x], o)
  <2>1. x \in Fields(h, o) <=> h[x] = o
    BY DEF Fields
  <2> QED BY <1>1, <2>1, OneRemoved DEF Refers
<1>3. CASE y = o
  <2>1. Fields(g, o) = S \cup {x} /\ x \notin S
    BY <1>3 DEF Fields
  <2>2. Cardinality(Fields(g, o)) = Cardinality(S) + 1
    BY <1>1, <2>1, OneAdded
  <2> HIDE DEF S
  <2> QED BY <1>1, <1>2, <1>3, <2>2 DEF Refers
<1>4. CASE y # o
  <2>1. Fields(g, o) = S
    BY <1>4 DEF Fields
  <2> HIDE DEF S
  <2> QED BY <1>1, <1>2, <1>4, <2>1 DEF Refers
<1> QED BY <1>3, <1>4

\* One variable gives up its reference, if it has one to o.
LEMMA OneTaken ==
    ASSUME TypeOK, NEW v \in Var, NEW o \in Object
    PROVE  Cardinality(Owners(env, o) \ {v}) =
              Cardinality(Owners(env, o)) - (IF env[v] = Own(o) THEN 1 ELSE 0)
<1>1. v \in Owners(env, o) <=> env[v] = Own(o)
  BY DEF Owners
<1> QED BY <1>1, OwnersFinite, OneRemoved

LEMMA SetCountsExact ==
    ASSUME OwnInv, CountsExact, Set
    PROVE  CountsExact'
<1>1. SUFFICES ASSUME ~aliased, NEW o \in Object
               PROVE  rc'[o] = Cardinality(Owners(env', o)) + Cardinality(Fields(field', o))
                              + outside'[o] + leaked'[o]
  BY SetParts DEF CountsExact
<1>2. PICK x \in Object, v \in RefUse(Stmt) :
         /\ Finish(NoPtr, SetCounts(x, v), {v} \ LiveAfter, outside)
         /\ SetCounts(x, v) \in [Object -> Int]
         /\ field' = [field EXCEPT ![x] = env[v].obj]
  BY SetParts
<1>3. PICK count, taken : count = SetCounts(x, v) /\ taken = {v} \ LiveAfter
  OBVIOUS
<1>4. phase = "run" /\ index <= Len(fn.stmts[block])
  BY SetParts
<1>5. v \in Var /\ env[v] \in Pointer /\ env[v] # NoPtr /\ env[v].obj \in Object
  BY <1>4, ArgsUsable DEF Usable
<1>6. PICK q \in Object : q = env[v].obj /\ env[v].tag \in {"own", "borrow"}
                          /\ (env[v].tag = "own" <=> env[v] = Own(q))
  BY <1>5, PointerObject
<1>7. /\ rc \in [Object -> Int] /\ outside \in [Object -> Nat] /\ leaked \in [Object -> Nat] /\ TypeOK
      /\ field \in [Object -> Object \cup {Nil}]
  BY DEF OwnInv, TypeOK
<1>8. PICK k, m, n : /\ k = Cardinality(Owners(env, o)) /\ m = Cardinality(Fields(field, o))
                     /\ n = Cardinality(Fields(field', o))
                     /\ k \in Nat /\ m \in Nat /\ n \in Nat
  BY OwnersFinite
<1>9. PICK was \in {0, 1}, is \in {0, 1} : /\ was = IF field[x] = o THEN 1 ELSE 0
                                          /\ is = IF q = o THEN 1 ELSE 0
  OBVIOUS
<1>10. n = m - was + is
  <2>1. PICK h : h = field
    OBVIOUS
  <2>2. h \in [Object -> Object \cup {Nil}] /\ q \in Object \cup {Nil}
    BY <1>7, <2>1
  <2>3. PICK g : g = [h EXCEPT ![x] = q]
    OBVIOUS
  <2>4. Cardinality(Fields(g, o)) =
           Cardinality(Fields(h, o)) - Refers(h[x], o) + Refers(q, o)
    <3>1. g[x] = q /\ \A z \in Object : z # x => g[z] = h[z]
      BY <2>2, <2>3
    <3> QED BY <2>2, <3>1, FieldWritten
  <2>5. n = Cardinality(Fields(g, o)) /\ m = Cardinality(Fields(h, o))
    BY <1>2, <1>6, <1>8, <2>1, <2>3
  <2> QED BY <2>1, <2>4, <2>5, <1>8, <1>9 DEF Refers
<1>11. rc[o] = k + m + outside[o] + leaked[o]
  BY <1>1, <1>8 DEF CountsExact
<1>12. OldReleased(x) \in [Object -> Int] /\ OldReleased(x)[o] = rc[o] - was
  BY <1>7, <1>9, OwnershipAssumption DEF OldReleased
<1>13. PICK l : l = Cardinality(Owners(env, o) \ (taken \ LiveAfter))
  OBVIOUS
<1>14. count[o] = l + 0 + outside[o] + leaked[o] + n
  <2>1. CASE v \in LiveAfter
    <3>1. Owners(env, o) \ (taken \ LiveAfter) = Owners(env, o)
      BY <1>3, <2>1
    <3>2. count = Shared(OldReleased(x), q)
      BY <1>3, <1>6, <2>1 DEF SetCounts
    <3>3. count[o] = OldReleased(x)[o] + is
      BY <3>2, <1>9, <1>12, SharedAt
    <3>4. l = k
      BY <3>1, <1>8, <1>13
    <3> QED BY <3>3, <3>4, <1>7, <1>8, <1>9, <1>10, <1>11, <1>12
  <2>2. CASE v \notin LiveAfter
    <3>1. Owners(env, o) \ (taken \ LiveAfter) = Owners(env, o) \ {v}
      BY <1>3, <2>2
    <3>2. PICK gone \in {0, 1} : gone = IF env[v] = Own(o) THEN 1 ELSE 0
      OBVIOUS
    <3>3. l = k - gone
      BY <1>5, <1>7, <1>8, <1>13, <3>1, <3>2, OneTaken
    <3>4. count = Owned(OldReleased(x), env[v])
      BY <1>3, <2>2 DEF SetCounts
    <3>5. CASE env[v].tag = "own"
      <4>1. count = OldReleased(x) /\ gone = is
        BY <1>6, <1>9, <3>2, <3>4, <3>5, OwnInjective DEF Owned
      <4> QED BY <3>3, <4>1, <1>7, <1>8, <1>9, <1>10, <1>11, <1>12
    <3>6. CASE env[v].tag = "borrow"
      <4>1. count = Shared(OldReleased(x), q) /\ gone = 0
        BY <1>6, <3>2, <3>4, <3>6, OwnInjective DEF Owned
      <4>2. count[o] = OldReleased(x)[o] + is
        BY <4>1, <1>9, <1>12, SharedAt
      <4> QED BY <3>3, <4>1, <4>2, <1>7, <1>8, <1>9, <1>10, <1>11, <1>12
    <3> QED BY <1>6, <3>5, <3>6
  <2> QED BY <2>1, <2>2
<1>15. /\ NoPtr \in Pointer /\ NoPtr # Own(o) /\ NoPtr.tag # "own" /\ taken \subseteq RefUse(Stmt)
       /\ count \in [Object -> Int] /\ Finish(NoPtr, count, taken, outside)
  BY <1>2, <1>3, PointerMakers, OwnInjective
<1>16. Given(count, NoPtr, taken, outside, o)
  BY <1>8, <1>13, <1>14, <1>15 DEF Given
<1> QED BY <1>4, <1>7, <1>15, <1>16, FinishCounts

LEMMA MoveCounts ==
    ASSUME OwnInv, CountsExact, Move
    PROVE  CountsExact'
<1>1. PICK s \in RefUse(Stmt) :
         /\ Finish(env[s], rc, {s}, outside)
         /\ aliased' = (aliased \/ (s \in LiveAfter /\ env[s].tag = "own"))
  BY MoveParts
<1>2. phase = "run" /\ index <= Len(fn.stmts[block]) /\ field' = field
  BY MoveParts
<1>3. SUFFICES ASSUME ~aliased, s \notin LiveAfter \/ env[s].tag # "own", NEW o \in Object
               PROVE  rc'[o] = Cardinality(Owners(env', o)) + Cardinality(Fields(field', o))
                              + outside'[o] + leaked'[o]
  BY <1>1 DEF CountsExact
<1>4. PICK p : p = env[s]
  OBVIOUS
<1>5. p \in Pointer /\ s \in Var
  BY <1>2, <1>4, ArgsUsable
<1>6. rc \in [Object -> Int] /\ outside \in [Object -> Nat] /\ leaked \in [Object -> Nat] /\ TypeOK
  BY DEF OwnInv, TypeOK
<1>7. PICK k, n : /\ k = Cardinality(Owners(env, o)) /\ n = Cardinality(Fields(field', o))
                  /\ k \in Nat /\ n \in Nat
  BY OwnersFinite
<1>8. rc[o] = k + n + outside[o] + leaked[o]
  BY <1>2, <1>3, <1>7 DEF CountsExact
<1>9. PICK one \in {0, 1} : one = IF p = Own(o) THEN 1 ELSE 0
  OBVIOUS
<1>10. PICK l : l = Cardinality(Owners(env, o) \ ({s} \ LiveAfter))
  OBVIOUS
<1>11. l = k - one
  <2>1. CASE s \in LiveAfter
    <3>1. Owners(env, o) \ ({s} \ LiveAfter) = Owners(env, o)
      BY <2>1
    <3>2. one = 0
      BY <1>3, <1>4, <1>9, <2>1, OwnInjective
    <3>3. l = k
      BY <1>7, <1>10, <3>1
    <3> QED BY <1>7, <3>2, <3>3
  <2>2. CASE s \notin LiveAfter
    <3>1. Owners(env, o) \ ({s} \ LiveAfter) = Owners(env, o) \ {s}
      BY <2>2
    <3> QED BY <1>4, <1>5, <1>6, <1>7, <1>9, <1>10, <3>1, OneTaken
  <2> QED BY <2>1, <2>2
<1>12. rc[o] = l + one + outside[o] + leaked[o] + n
  BY <1>6, <1>7, <1>8, <1>9, <1>11
<1>13. Given(rc, p, {s}, outside, o)
  BY <1>7, <1>9, <1>10, <1>12 DEF Given
<1>14. Finish(p, rc, {s}, outside) /\ {s} \subseteq RefUse(Stmt) /\ Stmt.dst \in Var
  BY <1>1, <1>4, MoveParts
<1> QED BY <1>2, <1>5, <1>6, <1>13, <1>14, FinishCounts

LEMMA StoreGlobalCounts ==
    ASSUME OwnInv, CountsExact, StoreGlobal
    PROVE  CountsExact'
<1>1. PICK v \in RefUse(Stmt) :
         \/ /\ v \in LiveAfter
            /\ Finish(NoPtr, Shared(rc, env[v].obj), {}, Shared(outside, env[v].obj))
         \/ /\ v \notin LiveAfter
            /\ Finish(NoPtr, rc, {v}, IF env[v].tag = "own" THEN Shared(outside, env[v].obj) ELSE outside)
  BY StoreGlobalParts
<1>2. phase = "run" /\ index <= Len(fn.stmts[block]) /\ field' = field /\ aliased' = aliased
  BY StoreGlobalParts
<1>3. SUFFICES ASSUME ~aliased, NEW o \in Object
               PROVE  rc'[o] = Cardinality(Owners(env', o)) + Cardinality(Fields(field', o))
                              + outside'[o] + leaked'[o]
  BY <1>2 DEF CountsExact
<1>4. v \in Var /\ env[v] \in Pointer /\ env[v] # NoPtr /\ env[v].obj \in Object
  BY <1>2, ArgsUsable DEF Usable
<1>5. PICK q \in Object : q = env[v].obj /\ (env[v].tag = "own" <=> env[v] = Own(q))
  BY <1>4, PointerObject
<1>6. rc \in [Object -> Int] /\ outside \in [Object -> Nat] /\ leaked \in [Object -> Nat] /\ TypeOK
      /\ NoPtr \in Pointer /\ NoPtr # Own(o) /\ NoPtr.tag # "own"
  BY PointerMakers, OwnInjective DEF OwnInv, TypeOK
<1>7. PICK k, n : /\ k = Cardinality(Owners(env, o)) /\ n = Cardinality(Fields(field', o))
                  /\ k \in Nat /\ n \in Nat
  BY OwnersFinite
<1>8. rc[o] = k + n + outside[o] + leaked[o]
  BY <1>2, <1>3, <1>7 DEF CountsExact
<1>9. PICK one \in {0, 1} : one = IF q = o THEN 1 ELSE 0
  OBVIOUS
<1>10. PICK shared : shared = Shared(outside, q)
  OBVIOUS
<1>11. shared \in [Object -> Nat] /\ shared[o] = outside[o] + one
  BY <1>6, <1>9, <1>10, SharedType, SharedNatAt
<1>12. CASE v \in LiveAfter
  <2>1. PICK count : count = Shared(rc, q)
    OBVIOUS
  <2>2. Finish(NoPtr, count, {}, shared)
    BY <1>1, <1>5, <1>10, <1>12, <2>1
  <2>3. count \in [Object -> Int] /\ count[o] = rc[o] + one
    BY <1>6, <1>9, <2>1, SharedType, SharedAt
  <2>4. Owners(env, o) \ ({} \ LiveAfter) = Owners(env, o)
    OBVIOUS
  <2>5. count[o] = k + 0 + shared[o] + leaked[o] + n
    BY <1>6, <1>7, <1>8, <1>9, <1>11, <2>3
  <2>6. Given(count, NoPtr, {}, shared, o) /\ {} \subseteq RefUse(Stmt)
    BY <1>6, <1>7, <2>4, <2>5 DEF Given
  <2> QED BY <1>2, <1>6, <1>11, <2>2, <2>3, <2>6, FinishCounts
<1>13. CASE v \notin LiveAfter
  <2>1. PICK held : held = IF env[v].tag = "own" THEN shared ELSE outside
    OBVIOUS
  <2>2. Finish(NoPtr, rc, {v}, held)
    BY <1>1, <1>5, <1>10, <1>13, <2>1
  <2>3. Owners(env, o) \ ({v} \ LiveAfter) = Owners(env, o) \ {v}
    BY <1>13
  <2>4. PICK gone \in {0, 1} : gone = IF env[v] = Own(o) THEN 1 ELSE 0
    OBVIOUS
  <2>5. PICK l : l = Cardinality(Owners(env, o) \ {v})
    OBVIOUS
  <2>6. l = k - gone
    BY <1>4, <1>6, <1>7, <2>4, <2>5, OneTaken
  <2>7. held \in [Object -> Nat] /\ held[o] = outside[o] + gone
    <3>1. CASE env[v].tag = "own"
      BY <1>5, <1>9, <1>11, <2>1, <2>4, <3>1, OwnInjective
    <3>2. CASE env[v].tag # "own"
      BY <1>6, <2>1, <2>4, <3>2, OwnInjective
    <3> QED BY <3>1, <3>2
  <2>8. rc[o] = l + 0 + held[o] + leaked[o] + n
    BY <1>6, <1>7, <1>8, <2>4, <2>6, <2>7
  <2>9. Given(rc, NoPtr, {v}, held, o) /\ {v} \subseteq RefUse(Stmt)
    BY <1>6, <1>7, <2>3, <2>5, <2>8 DEF Given
  <2> QED BY <1>2, <1>6, <2>2, <2>7, <2>9, FinishCounts
<1> QED BY <1>12, <1>13

\* Each owning argument is handed over once: as many references are released as
\* variables give theirs up.
LEMMA HandedOnce ==
    ASSUME TypeOK, index <= Len(fn.stmts[block]), ~GivenTwice, NEW o \in Object,
           NEW T, T = {Stmt.args[i] : i \in Transferred}
    PROVE  Cardinality({i \in Transferred : Args[i] = Own(o)}) = Cardinality(Owners(env, o) \cap T)
<1> DEFINE K == {i \in Transferred : Args[i] = Own(o)}
           R == Owners(env, o) \cap T
           f == [i \in K |-> Stmt.args[i]]
<1>1. Stmt.args \in Seq(Var)
  BY StmtFacts DEF Statement
<1>2. \A i \in Transferred : i \in DOMAIN Stmt.args /\ Stmt.args[i] \in Var /\ Args[i] = env[Stmt.args[i]]
  BY <1>1 DEF Transferred, Args
<1>3. IsFiniteSet(K)
  BY HandedType, FS_Subset
<1>4. \A i \in K : f[i] \in R
  BY <1>2 DEF Owners
<1>5. \A i, j \in K : f[i] = f[j] => i = j
  BY OwnInjective DEF GivenTwice
<1>6. \A v \in R : \E i \in K : f[i] = v
  BY <1>2 DEF Owners
<1>7. f \in Bijection(K, R)
  <2>1. f \in [K -> R]
    BY <1>4
  <2> HIDE DEF f, K, R
  <2> QED BY <2>1, <1>5, <1>6 DEF Bijection, Injection, Surjection, IsInjective
<1>8. ExistsBijection(K, R)
  BY <1>7 DEF ExistsBijection
<1> HIDE DEF K, R
<1>9. Cardinality(K) = Cardinality(R)
  BY <1>3, <1>8, FS_Bijection
<1> QED BY <1>9 DEF K, R

\* The counts once the arguments are handed over.
LEMMA HandedCounts ==
    ASSUME OwnInv, CountsExact, ~aliased, index <= Len(fn.stmts[block]), ~GivenTwice, NEW o \in Object,
           NEW taken, taken = {Stmt.args[i] : i \in Transferred},
           NEW count, count = Released(rc, Args, Transferred)
    PROVE  /\ count[o] = Cardinality(Owners(env, o) \ (taken \ LiveAfter))
                         + outside[o] + leaked[o] + Cardinality(Fields(field, o))
           /\ taken \subseteq RefUse(Stmt)
<1>1. PICK k, m, l, g : /\ k = Cardinality(Owners(env, o)) /\ m = Cardinality(Fields(field, o))
                        /\ l = Cardinality(Owners(env, o) \ taken)
                        /\ g = Cardinality(Owners(env, o) \cap taken)
  OBVIOUS
<1>2. k \in Nat /\ m \in Nat /\ l \in Nat /\ g \in Nat /\ l = k - g
  BY <1>1, OwnersFinite, Removed
<1>3. count[o] = rc[o] - g
  <2>1. Cardinality({i \in Transferred : Args[i] = Own(o)}) = g
    BY <1>1, HandedOnce DEF OwnInv
  <2> QED BY <2>1 DEF Released
<1>4. rc[o] = k + m + outside[o] + leaked[o] /\ outside[o] \in Nat /\ leaked[o] \in Nat
  BY <1>1 DEF CountsExact, OwnInv, TypeOK
<1>5. taken \ LiveAfter = taken
  BY DEF Transferred
<1>6. taken \subseteq RefUse(Stmt)
  BY DEF Transferred, RefUse, ToSet
<1>7. count[o] = l + outside[o] + leaked[o] + m
  BY <1>2, <1>3, <1>4
<1> QED BY <1>1, <1>5, <1>6, <1>7

LEMMA CallCounts ==
    ASSUME OwnInv, CountsExact, NEW x \in Object, Call(x)
    PROVE  CountsExact'
<1>1. SUFFICES ASSUME ~aliased, ~GivenTwice, NEW o \in Object
               PROVE  rc'[o] = Cardinality(Owners(env', o)) + Cardinality(Fields(field', o))
                              + outside'[o] + leaked'[o]
  BY DEF CountsExact, Call
<1>2. phase = "run" /\ index <= Len(fn.stmts[block]) /\ field' = field
  BY DEF Call, AtStmt
<1>3. PICK handed, taken : /\ handed = Released(rc, Args, Transferred)
                           /\ taken = {Stmt.args[i] : i \in Transferred}
  OBVIOUS
<1>4. PICK count, p : count = Shared(handed, x) /\ p = Own(x)
  OBVIOUS
<1>5. Finish(p, count, taken, outside)
  BY <1>3, <1>4 DEF Call
<1>6. /\ handed \in [Object -> Int] /\ count \in [Object -> Int]
      /\ outside \in [Object -> Nat] /\ leaked \in [Object -> Nat]
      /\ p \in Pointer
  BY <1>2, <1>3, <1>4, HandedType, SharedType, PointerMakers DEF OwnInv, TypeOK
<1>7. PICK l, n : /\ l = Cardinality(Owners(env, o) \ (taken \ LiveAfter))
                  /\ n = Cardinality(Fields(field', o))
  OBVIOUS
<1>8. l \in Nat /\ n \in Nat
  BY <1>7, OwnersFinite, Removed
<1>9. handed[o] = l + outside[o] + leaked[o] + n /\ taken \subseteq RefUse(Stmt)
  BY <1>1, <1>2, <1>3, <1>7, HandedCounts
<1>10. PICK one \in {0, 1} : one = IF p = Own(o) THEN 1 ELSE 0
  OBVIOUS
<1>11. count[o] = handed[o] + one
  BY <1>4, <1>6, <1>10, SharedAt, OwnInjective
<1>12. count[o] = l + one + outside[o] + leaked[o] + n
  BY <1>6, <1>8, <1>9, <1>10, <1>11
<1>13. Given(count, p, taken, outside, o)
  BY <1>7, <1>10, <1>12 DEF Given
<1>14. Stmt.dst \in Var
  BY <1>2, StmtFacts DEF OwnInv, Call
<1> QED BY <1>2, <1>5, <1>6, <1>9, <1>13, <1>14, FinishCounts

LEMMA HandOverCounts ==
    ASSUME OwnInv, CountsExact, HandOver
    PROVE  CountsExact'
<1>1. SUFFICES ASSUME ~aliased, ~GivenTwice, NEW o \in Object
               PROVE  rc'[o] = Cardinality(Owners(env', o)) + Cardinality(Fields(field', o))
                              + outside'[o] + leaked'[o]
  BY DEF CountsExact, HandOver
<1>2. phase = "run" /\ index <= Len(fn.stmts[block]) /\ field' = field
  BY DEF HandOver, AtStmt
<1>3. PICK count, taken : /\ count = Released(rc, Args, Transferred)
                          /\ taken = {Stmt.args[i] : i \in Transferred}
  OBVIOUS
<1>4. Finish(NoPtr, count, taken, outside)
  BY <1>3 DEF HandOver
<1>5. /\ count \in [Object -> Int] /\ outside \in [Object -> Nat] /\ leaked \in [Object -> Nat]
      /\ NoPtr \in Pointer /\ NoPtr # Own(o) /\ NoPtr.tag # "own"
  BY <1>2, <1>3, HandedType, PointerMakers, OwnInjective DEF OwnInv, TypeOK
<1>6. PICK l, n : /\ l = Cardinality(Owners(env, o) \ (taken \ LiveAfter))
                  /\ n = Cardinality(Fields(field', o))
  OBVIOUS
<1>7. l \in Nat /\ n \in Nat
  BY <1>6, OwnersFinite, Removed
<1>8. count[o] = l + outside[o] + leaked[o] + n /\ taken \subseteq RefUse(Stmt)
  BY <1>1, <1>2, <1>3, <1>6, HandedCounts
<1>9. count[o] = l + 0 + outside[o] + leaked[o] + n
  BY <1>7, <1>8
<1>10. Given(count, NoPtr, taken, outside, o)
  BY <1>5, <1>6, <1>9 DEF Given
<1> QED BY <1>2, <1>4, <1>5, <1>8, <1>10, FinishCounts

LEMMA EnterBlockCounts ==
    ASSUME OwnInv, CountsExact, EnterBlock
    PROVE  CountsExact'
<1>1. PICK D : D = DeadEntry(block)
  OBVIOUS
<1>2. /\ env' = [v \in Var |-> IF v \in D THEN NoPtr ELSE env[v]]
      /\ rc' = Released(rc, env, D) /\ UNCHANGED <<field, outside, leaked, aliased>>
  BY <1>1 DEF EnterBlock, waste
<1>3. SUFFICES ASSUME ~aliased, NEW o \in Object
               PROVE  rc'[o] = Cardinality(Owners(env', o)) + Cardinality(Fields(field, o))
                              + outside[o] + leaked[o]
  BY <1>2 DEF CountsExact
<1>4. D \subseteq Var
  BY <1>1, DeadEntryType DEF OwnInv, TypeOK
<1>5. Owners(env', o) = Owners(env, o) \ D
  BY <1>2, OwnInjective DEF Owners
<1>6. Owners(env, o) \cap D = {i \in D : env[i] = Own(o)}
  BY <1>4 DEF Owners
<1>7. PICK k, m, l, g : /\ k = Cardinality(Owners(env, o)) /\ m = Cardinality(Fields(field, o))
                        /\ l = Cardinality(Owners(env, o) \ D) /\ g = Cardinality(Owners(env, o) \cap D)
  OBVIOUS
<1>8. k \in Nat /\ m \in Nat /\ l \in Nat /\ g \in Nat /\ l = k - g
  BY <1>7, OwnersFinite, Removed
<1>9. rc'[o] = rc[o] - g
  BY <1>2, <1>6, <1>7 DEF Released
<1>10. rc[o] = k + m + outside[o] + leaked[o] /\ outside[o] \in Nat /\ leaked[o] \in Nat
  BY <1>3, <1>7 DEF CountsExact, OwnInv, TypeOK
<1>11. rc'[o] = l + m + outside[o] + leaked[o]
  BY <1>8, <1>9, <1>10
<1> QED BY <1>5, <1>7, <1>11

LEMMA ReturnCounts ==
    ASSUME OwnInv, CountsExact, Return
    PROVE  CountsExact'
<1>1. PICK v : v = fn.term[block].var
  OBVIOUS
<1>2. AtEnd("return") /\ UNCHANGED <<field, leaked, aliased>>
  BY DEF Return, waste
<1>3. \/ v = NoVar /\ UNCHANGED <<env, rc, outside>>
      \/ /\ v # NoVar /\ rc' = Owned(rc, env[v])
         /\ outside' = Shared(outside, env[v].obj)
         /\ env' = [env EXCEPT ![v] = NoPtr]
  BY <1>1 DEF Return
<1>4. CASE v = NoVar
  BY <1>2, <1>3, <1>4 DEF CountsExact
<1>5. CASE v # NoVar
  <2>1. v \in Var
    BY <1>1, <1>5, BlockParts DEF Uses, OwnInv, TypeOK
  <2>2. env[v] \in Pointer /\ env[v] # NoPtr
    <3>1. phase = "run" /\ LiveNow = EndOf(fn, entries, block)
      BY <1>2, AtEndFacts DEF OwnInv
    <3>2. v \in LiveNow
      BY <1>1, <1>5, <3>1 DEF EndOf, Uses
    <3>3. Usable(v)
      BY <3>1, <3>2 DEF OwnInv, LiveUsable
    <3> QED BY <2>1, <3>3 DEF OwnInv, TypeOK, Usable
  <2>3. PICK q \in Object : /\ q = env[v].obj /\ env[v].tag \in {"own", "borrow"}
                            /\ (env[v].tag = "own" <=> env[v] = Own(q))
    BY <2>2, PointerObject
  <2>4. SUFFICES ASSUME ~aliased, NEW o \in Object
                 PROVE  rc'[o] = Cardinality(Owners(env', o)) + Cardinality(Fields(field, o))
                                + outside'[o] + leaked'[o]
    BY <1>2 DEF CountsExact
  <2>5. /\ rc \in [Object -> Int] /\ outside \in [Object -> Nat]
        /\ leaked \in [Object -> Nat] /\ env \in [Var -> Pointer] /\ TypeOK
    BY DEF OwnInv, TypeOK
  <2>6. Owners(env', o) = Owners(env, o) \ {v}
    BY <1>3, <1>5, <2>1, <2>5, OwnInjective DEF Owners
  <2>7. PICK k, m, l : /\ k = Cardinality(Owners(env, o)) /\ m = Cardinality(Fields(field, o))
                       /\ l = Cardinality(Owners(env, o) \ {v})
                       /\ k \in Nat /\ m \in Nat
    BY OwnersFinite
  <2>8. rc[o] = k + m + outside[o] + leaked[o]
    BY <2>4, <2>7 DEF CountsExact
  <2>9. PICK one \in {0, 1}, gone \in {0, 1} : /\ one = IF q = o THEN 1 ELSE 0
                                               /\ gone = IF env[v] = Own(o) THEN 1 ELSE 0
    OBVIOUS
  <2>10. l = k - gone
    BY <2>1, <2>5, <2>7, <2>9, OneTaken
  <2>11. outside'[o] = outside[o] + one
    BY <1>3, <1>5, <2>3, <2>5, <2>9, SharedNatAt
  <2>12. rc'[o] = l + m + outside'[o] + leaked'[o]
    <3>1. CASE env[v].tag = "own"
      <4>1. rc' = rc /\ gone = one
        BY <1>3, <1>5, <2>3, <2>9, <3>1, OwnInjective DEF Owned
      <4> QED BY <4>1, <1>2, <2>5, <2>7, <2>8, <2>9, <2>10, <2>11
    <3>2. CASE env[v].tag = "borrow"
      <4>1. rc' = Shared(rc, q) /\ gone = 0
        BY <1>3, <1>5, <2>3, <2>9, <3>2, OwnInjective DEF Owned
      <4>2. rc'[o] = rc[o] + one
        BY <4>1, <2>5, <2>9, SharedAt
      <4> QED BY <4>1, <4>2, <1>2, <2>5, <2>7, <2>8, <2>9, <2>10, <2>11
    <3> QED BY <2>3, <3>1, <3>2
  <2> QED BY <2>6, <2>7, <2>12
<1> QED BY <1>4, <1>5

LEMMA ReleaseChildCounts ==
    ASSUME OwnInv, CountsExact, NEW x \in Object, ReleaseChild(x)
    PROVE  CountsExact'
<1>1. /\ UNCHANGED <<env, outside, leaked, aliased>> /\ field[x] # Nil
      /\ rc' = [rc EXCEPT ![field[x]] = @ - 1] /\ field' = [field EXCEPT ![x] = Nil]
  BY DEF ReleaseChild, waste
<1>2. SUFFICES ASSUME ~aliased, NEW o \in Object
               PROVE  rc'[o] = Cardinality(Owners(env, o)) + Cardinality(Fields(field', o))
                              + outside[o] + leaked[o]
  BY <1>1 DEF CountsExact
<1>3. /\ rc \in [Object -> Int] /\ outside \in [Object -> Nat] /\ leaked \in [Object -> Nat]
      /\ field \in [Object -> Object \cup {Nil}] /\ o # Nil
  BY OwnershipAssumption DEF OwnInv, TypeOK
<1>4. PICK h, g, y : h = field /\ g = field' /\ y = Nil
  OBVIOUS
<1>5. /\ h \in [Object -> Object \cup {Nil}] /\ y \in Object \cup {Nil}
      /\ g[x] = y /\ \A z \in Object : z # x => g[z] = h[z]
  BY <1>1, <1>3, <1>4
<1>6. Cardinality(Fields(g, o)) = Cardinality(Fields(h, o)) - Refers(h[x], o) + Refers(y, o)
  BY <1>5, FieldWritten
<1>7. PICK k, m, n : /\ k = Cardinality(Owners(env, o)) /\ m = Cardinality(Fields(field, o))
                     /\ n = Cardinality(Fields(field', o))
                     /\ k \in Nat /\ m \in Nat /\ n \in Nat
  BY OwnersFinite
<1>8. PICK was \in {0, 1} : was = IF field[x] = o THEN 1 ELSE 0
  OBVIOUS
<1>9. n = m - was
  BY <1>3, <1>4, <1>6, <1>7, <1>8 DEF Refers
<1>10. rc'[o] = rc[o] - was
  BY <1>1, <1>3, <1>8
<1>11. rc[o] = k + m + outside[o] + leaked[o]
  BY <1>2, <1>7 DEF CountsExact
<1>12. rc'[o] = k + n + outside[o] + leaked[o]
  BY <1>3, <1>7, <1>8, <1>9, <1>10, <1>11
<1> QED BY <1>7, <1>12

\* At the beginning a parameter's object is counted once, for the parameter or
\* for the caller who lends it, and the object in their fields once for each.
LEMMA InitCounts == Init => CountsExact
<1>1. SUFFICES ASSUME Init, NEW o \in Object
               PROVE  rc[o] = Cardinality(Owners(env, o)) + Cardinality(Fields(field, o))
                              + outside[o] + leaked[o]
  BY DEF CountsExact
<1>2. PICK lent \in SUBSET fn.params :
        /\ env = [v \in Var |-> IF v \notin fn.params THEN NoPtr
                                ELSE IF v \in lent THEN Borrow(ParamObject[v])
                                ELSE Own(ParamObject[v])]
        /\ outside = [q \in Object |-> IF \E v \in lent : ParamObject[v] = q THEN 1 ELSE 0]
  BY <1>1 DEF Init
<1>3. PICK given : given = {ParamObject[v] : v \in fn.params}
  OBVIOUS
<1>4. /\ field = [q \in Object |-> IF q \in given THEN FieldObject ELSE Nil]
      /\ rc = [q \in Object |-> IF q \in given THEN 1
                                ELSE IF q = FieldObject THEN Cardinality(given) ELSE 0]
  BY <1>1, <1>3 DEF Init
<1>5. /\ fn \in Functions /\ fn.params \subseteq Var /\ FieldObject # Nil /\ o # Nil
      /\ \A v \in Var : ParamObject[v] \in Object /\ ParamObject[v] # FieldObject
  BY <1>1, OwnershipAssumption DEF Init
<1>6. \A v, w \in Var : ParamObject[v] = ParamObject[w] => v = w
  BY OwnershipAssumption DEF IsInjective
<1>7. given \subseteq Object /\ FieldObject \notin given
  BY <1>3, <1>5
<1>8. \A v \in Var : env[v] = Own(o) <=> v \in fn.params \ lent /\ ParamObject[v] = o
  BY <1>2, <1>5 DEF Own, Borrow, NoPtr
<1>9. Cardinality(given) \in Nat
  <2>1. IsFiniteSet(given)
    BY <1>7, OwnershipAssumption, FS_Subset
  <2> QED BY <2>1, FS_CardinalityType
<1>10. Fields(field, o) = IF o = FieldObject THEN given ELSE {}
  BY <1>4, <1>5, <1>7 DEF Fields
<1>11. leaked[o] = 0
  BY <1>1 DEF Init
<1>12. CASE o \in given
  <2>1. PICK v \in fn.params : ParamObject[v] = o
    BY <1>3, <1>12
  <2>2. rc[o] = 1 /\ Fields(field, o) = {} /\ Cardinality({}) = 0
    BY <1>4, <1>7, <1>10, <1>12, FS_EmptySet
  <2>3. CASE v \in lent
    <3>1. Owners(env, o) = {}
      BY <1>5, <1>6, <1>8, <2>1, <2>3 DEF Owners
    <3>2. outside[o] = 1
      BY <1>2, <2>1, <2>3
    <3> QED BY <1>11, <2>2, <3>1, <3>2
  <2>4. CASE v \notin lent
    <3>1. Owners(env, o) = {v}
      BY <1>5, <1>6, <1>8, <2>1, <2>4 DEF Owners
    <3>2. outside[o] = 0
      BY <1>2, <1>5, <1>6, <2>1, <2>4
    <3>3. Cardinality({v}) = 1
      BY FS_Singleton
    <3> QED BY <1>11, <2>2, <3>1, <3>2, <3>3
  <2> QED BY <2>3, <2>4
<1>13. CASE o \notin given
  <2>1. Owners(env, o) = {} /\ Cardinality({}) = 0
    BY <1>3, <1>8, <1>13, FS_EmptySet DEF Owners
  <2>2. outside[o] = 0
    BY <1>2, <1>3, <1>13
  <2>3. rc[o] = IF o = FieldObject THEN Cardinality(given) ELSE 0
    BY <1>4, <1>13
  <2> QED BY <1>9, <1>10, <1>11, <2>1, <2>2, <2>3
<1> QED BY <1>12, <1>13

LEMMA CountsStep == OwnInv /\ CountsExact /\ [Next]_vars => CountsExact'
<1>1. SUFFICES ASSUME OwnInv, CountsExact, [Next]_vars PROVE CountsExact'
  OBVIOUS
<1>2. ASSUME NEW o \in Object, Create(o) \/ Call(o) \/ ReleaseChild(o) PROVE CountsExact'
  BY <1>1, <1>2, CreateCounts, CallCounts, ReleaseChildCounts
<1>3. CASE Get \/ Set \/ HandOver \/ Move \/ StoreGlobal
  BY <1>1, <1>3, GetCounts, SetCountsExact, HandOverCounts, MoveCounts, StoreGlobalCounts
<1>4. CASE EnterBlock \/ Return
  BY <1>1, <1>4, EnterBlockCounts, ReturnCounts
<1>5. CASE Round \/ MatchFailure \/ (\E b \in Block : Branch(b)) \/ UNCHANGED vars
  <2>1. UNCHANGED <<env, rc, field, outside, leaked, aliased>>
    BY <1>5 DEF Round, MatchFailure, Branch, vars, heap, waste
  <2> QED BY <1>1, <2>1 DEF CountsExact
<1> QED BY <1>1, <1>2, <1>3, <1>4, <1>5 DEF Next

\* The invariant of the counts, with the one of the live variables.
LEMMA CountsInvariant == Spec => [](OwnInv /\ CountsExact)
<1>1. Init => OwnInv /\ CountsExact
  BY InitOwn, InitCounts
<1>2. OwnInv /\ CountsExact /\ [Next]_vars => (OwnInv /\ CountsExact)'
  BY OwnStep, CountsStep
<1> QED BY <1>1, <1>2, PTL DEF Spec

\* The counts that the inserted share, own and release operations leave are the
\* owned references: one for each variable that owns one, each field and each
\* reference outside.  It holds for every function whose moves and calls hand a
\* reference to one owner, on every path.
THEOREM RcExactCorrect == Spec => []RcExact
<1> QED BY CountsInvariant, CountsExactIs, PTL

\* A live variable refers to an object that is counted, for the variable itself
\* or for whoever lent it.
LEMMA UsableCounted ==
    ASSUME OwnInv, CountsExact, ~aliased, NEW v \in Var, Usable(v),
           NEW o, o = env[v].obj
    PROVE  o \in Object /\ rc[o] >= 1 + Cardinality(Fields(field, o))
<1>1. env[v] \in Pointer /\ env[v] # NoPtr
  BY DEF OwnInv, TypeOK, Usable
<1>2. o \in Object /\ env[v].tag \in {"own", "borrow"} /\ (env[v].tag = "own" <=> env[v] = Own(o))
  BY <1>1, PointerObject
<1>3. PICK k, m : /\ k = Cardinality(Owners(env, o)) /\ m = Cardinality(Fields(field, o))
                  /\ k \in Nat /\ m \in Nat
  BY OwnersFinite
<1>4. PICK x \in Nat, y \in Nat : x = outside[o] /\ y = leaked[o] /\ rc[o] = k + m + x + y
  BY <1>2, <1>3 DEF CountsExact, OwnInv, TypeOK
<1>5. k # 0 \/ x # 0
  <2>1. CASE env[v].tag = "own"
    <3>1. v \in Owners(env, o)
      BY <1>2, <2>1 DEF Owners
    <3> QED BY <3>1, <1>3, OwnersFinite, FS_EmptySet
  <2>2. CASE env[v].tag = "borrow"
    BY <1>4, <2>2 DEF Usable
  <2> QED BY <1>2, <2>1, <2>2
<1>6. k + m + x + y >= 1 + m
  BY <1>3, <1>4, <1>5
<1> QED BY <1>2, <1>3, <1>4, <1>6

LEMMA LiveNowVars ==
    ASSUME TypeOK
    PROVE  LiveNow \subseteq Var
<1>1. entries[block] \subseteq Var
  BY DEF TypeOK
<1>2. LiveBefore \subseteq Var
  <2>1. PICK L : L = LiveAt(fn, entries, block)
    OBVIOUS
  <2>2. \A i \in 1 .. Len(fn.stmts[block]) + 1 : L[i] \subseteq Var
    BY <2>1, LiveAtFacts DEF TypeOK
  <2> QED BY <2>1, <2>2, LiveBeforeIs DEF TypeOK
<1> QED BY <1>1, <1>2 DEF LiveNow

\* No use after a release: on every path, what the rest of the function may still
\* use is a pointer to an object that was not freed.
THEOREM LiveIsValidUnaliasedCorrect == Spec => []LiveIsValidUnaliased
<1>1. OwnInv /\ CountsExact => LiveIsValidUnaliased
  <2>1. SUFFICES ASSUME OwnInv, CountsExact, ~aliased, phase # "liveness", NEW v \in LiveNow
                 PROVE  env[v] # NoPtr /\ rc[env[v].obj] > 0
    BY DEF LiveIsValidUnaliased, LiveIsValid
  <2>2. phase \in {"enter", "run"}
    BY <2>1 DEF LiveNow, OwnInv, TypeOK
  <2>3. Usable(v)
    BY <2>1, <2>2 DEF OwnInv, LiveUsable
  <2>4. v \in Var
    BY <2>1, <2>2, LiveNowVars DEF OwnInv
  <2>5. PICK o : o = env[v].obj
    OBVIOUS
  <2>6. PICK m \in Nat : m = Cardinality(Fields(field, o))
    BY OwnersFinite
  <2>7. o \in Object /\ rc[o] >= 1 + m
    BY <2>1, <2>3, <2>4, <2>5, <2>6, UsableCounted
  <2>8. rc[o] \in Int
    BY <2>1, <2>7 DEF OwnInv, TypeOK
  <2> QED BY <2>3, <2>5, <2>6, <2>7, <2>8 DEF Usable
<1> QED BY <1>1, CountsInvariant, PTL

\* A store that writes the value the field already has does not free it between
\* the release of the old value and the count of the new one: the field is one
\* reference to it and the variable, or whoever lent it, another.
THEOREM SetKeepsValueCorrect == Spec => []SetKeepsValue
<1>1. OwnInv /\ CountsExact => SetKeepsValue
  <2>1. PICK x, v : x = env[Stmt.args[1]].obj /\ v = Stmt.args[2]
    OBVIOUS
  <2>2. PICK o : o = env[v].obj
    OBVIOUS
  <2>3. SUFFICES ASSUME OwnInv, CountsExact, ~aliased, AtStmt("set"), field[x] = o
                 PROVE  rc[o] > 1
    BY <2>1, <2>2 DEF SetKeepsValue
  <2>4. phase = "run" /\ index <= Len(fn.stmts[block]) /\ Stmt.op = "set"
    BY <2>3 DEF AtStmt
  <2>5. Stmt.args[1] \in RefUse(Stmt) /\ v \in RefUse(Stmt)
    BY <2>1, <2>3, <2>4, StmtFacts, ArgIsUsed DEF OwnInv
  <2>6. x \in Object /\ v \in Var /\ Usable(v)
    BY <2>1, <2>3, <2>4, <2>5, ArgsUsable
  <2>7. PICK m \in Nat : m = Cardinality(Fields(field, o))
    BY OwnersFinite
  <2>8. o \in Object /\ rc[o] >= 1 + m
    BY <2>2, <2>3, <2>6, <2>7, UsableCounted
  <2>9. m # 0
    <3>1. x \in Fields(field, o)
      BY <2>3, <2>6 DEF Fields
    <3> QED BY <2>7, <3>1, OwnersFinite, FS_EmptySet
  <2>10. rc[o] \in Int
    BY <2>3, <2>8 DEF OwnInv, TypeOK
  <2> QED BY <2>7, <2>8, <2>9, <2>10
<1> QED BY <1>1, CountsInvariant, PTL

=============================================================================
