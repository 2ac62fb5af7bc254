----------------------------- MODULE Ownership -----------------------------
(***************************************************************************)
(* Where the compiler puts the ownership operations of one function        *)
(* (compiler/middle_end/liveness.ml and pass_ownership.ml), and what they  *)
(* do when the function runs (the primitives of runtime/src/syli.c).       *)
(*                                                                         *)
(* First the liveness analysis iterates to its fixpoint, one round a step. *)
(* Then the annotated function runs, one statement a step together with    *)
(* the releases the pass puts after it.  Only variables of reference type  *)
(* appear; an object has one field; every block can be reached.  A callee  *)
(* consumes the references it is given and returns a new object or one of  *)
(* its arguments.                                                          *)
(***************************************************************************)
EXTENDS Integers, FiniteSets, SequencesExt

CONSTANTS
    Var, NoVar,      \* the variables, and no variable
    Object, Nil,     \* the objects, and an empty field
    Block, Entry,    \* the basic blocks and the first of them
    Functions,       \* the functions to compile
    ParamObject,     \* the object each variable points to if it is a parameter
    FieldObject      \* the object in the fields of those

Op == {"create", "get", "set", "call", "move", "narrow", "store_global"}
Statement == [op : Op, dst : Var \cup {NoVar}, args : Seq(Var)]
Terminator == [kind : {"branch", "return", "match_failure"},
               targets : SUBSET Block, var : Var \cup {NoVar}]

ASSUME OwnershipAssumption ==
    /\ NoVar \notin Var /\ Nil \notin Object /\ Entry \in Block
    /\ IsFiniteSet(Var) /\ IsFiniteSet(Object)
    /\ \A f \in Functions :
          /\ f.params \subseteq Var
          /\ \A b \in Block : f.term[b] \in Terminator /\ f.stmts[b] \in Seq(Statement)
          /\ \A b \in Block : \A i \in DOMAIN f.stmts[b] :
                LET s == f.stmts[b][i]
                IN  /\ s.dst \notin ToSet(s.args)
                    /\ s.op \in {"create", "get", "move"} => s.dst # NoVar
                    /\ s.op \in {"set", "narrow", "store_global"} => s.dst = NoVar
                    /\ s.op = "set" => Len(s.args) = 2
                    /\ s.op \in {"get", "move", "narrow", "store_global"} => Len(s.args) = 1
    /\ ParamObject \in [Var -> Object \ {FieldObject}] /\ IsInjective(ParamObject)
    /\ FieldObject \in Object

-----------------------------------------------------------------------------
(***************************************************************************)
(* The functions that run                                                  *)
(***************************************************************************)
RefUse(s) == ToSet(s.args)
RefDef(s) == {s.dst} \ {NoVar}

\* The variables block b of f uses before it defines them, and those it defines.
ExposedIn(f, b) ==
    LET ss == f.stmts[b]
        Kept(v, i) == \A j \in 1 .. i - 1 : v \notin RefDef(ss[j])
    IN  {v \in Var : (\E i \in DOMAIN ss : v \in RefUse(ss[i]) /\ Kept(v, i))
                     \/ (v \in {f.term[b].var} \ {NoVar} /\ Kept(v, Len(ss) + 1))}
DefinedIn(f, b) == UNION {RefDef(f.stmts[b][i]) : i \in DOMAIN f.stmts[b]}

\* As lower_core_to_cir.ml builds them: nothing jumps back to the first block, a
\* return or a match failure leaves the function, and a block that several others
\* jump to is only the target of gotos: the targets of CondBr and Switch are fresh
\* blocks.
WellBranched(f) ==
    \A p \in Block :
        LET targets == f.term[p].targets
        IN  /\ Entry \notin targets
            /\ f.term[p].kind # "branch" => targets = {}
            /\ \A b \in targets :
                  \/ targets = {b} /\ f.term[p].var = NoVar
                  \/ \A q \in Block : b \in f.term[q].targets => q = p

\* Every path defines a variable before it is used: scope says which are defined
\* when a block begins.  The lowering does not see to it.  The variable of an
\* occurrence of a matched value is kept in occ_materialized, and the context that
\* holds it is handed from one branch to its siblings, so a branch may use what only
\* another one defined.  LLVM's verifier refuses such a function, and this module
\* speaks of those it accepts.
DefinedBeforeUse(f) ==
    \E scope \in [Block -> SUBSET Var] :
        /\ scope[Entry] = f.params
        /\ \A b \in Block :
              /\ ExposedIn(f, b) \subseteq scope[b]
              /\ \A s \in f.term[b].targets : scope[s] \subseteq scope[b] \cup DefinedIn(f, b)

ASSUME LoweringAssumption == \A f \in Functions : WellBranched(f) /\ DefinedBeforeUse(f)

VARIABLES
    fn,              \* the function
    phase,           \* liveness; enter a block; run it; returned; aborted
    entries,         \* live_entry of each block
    block, index,    \* the statement that runs next
    env,             \* the pointer in each variable, with its tag
    rc, field,       \* the heap
    outside,         \* owned references held by the caller and by globals
    unused,          \* the variables whose value was dead when it was put there, and owned
    leaked,          \* owned references that were in such a variable when it was written again
    aliased          \* one reference was handed to two owners

position == <<block, index>>
heap     == <<rc, field, outside>>
waste    == <<unused, leaked>>   \* history: no guard reads it
vars     == <<fn, phase, entries, position, env, heap, waste, aliased>>

NoPtr == [obj |-> Nil, tag |-> "none"]
Pointer == [obj : Object, tag : {"own", "borrow"}] \cup {NoPtr}
Own(o) == [obj |-> o, tag |-> "own"]
Borrow(o) == [obj |-> o, tag |-> "borrow"]

-----------------------------------------------------------------------------
(***************************************************************************)
(* liveness.ml                                                             *)
(***************************************************************************)
TerminatorUses(b) == {fn.term[b].var} \ {NoVar}
Succ(b) == fn.term[b].targets
Pred(b) == {p \in Block : b \in Succ(p)}

\* live_before_stmt
LiveBeforeStmt(live, s) == RefUse(s) \cup (live \ RefDef(s))

\* Mutant of LiveAtEnd: the uses of the terminator are forgotten.
LiveAtEndSuccOnly(ent, b) == UNION {ent[s] : s \in Succ(b)}

\* live_at_end_of
LiveAtEnd(ent, b) == TerminatorUses(b) \cup UNION {ent[s] : s \in Succ(b)}

\* The variables live before each statement of b, and at its end.
LiveIn(ent, b) ==
    LET ss == fn.stmts[b]
        live[i \in 1 .. Len(ss) + 1] ==
            IF i = Len(ss) + 1 THEN LiveAtEnd(ent, b)
            ELSE LiveBeforeStmt(live[i + 1], ss[i])
    IN  live

\* Mutant of NewEntry: a round keeps what is new only.
NewEntryDelta(ent, b) == (LiveIn(ent, b)[1] \cup (IF b = Entry THEN fn.params ELSE {})) \ ent[b]

\* One round over all blocks, from the entries of the round before.
NewEntry(ent, b) == LiveIn(ent, b)[1] \cup (IF b = Entry THEN fn.params ELSE {})

LiveBefore == LiveIn(entries, block)[index]
LiveAfter  == LiveIn(entries, block)[index + 1]

\* Mutant of DeadEntry: only the parameters never used are dropped.
DeadEntryParams(b) == IF b = Entry THEN entries[b] \ LiveIn(entries, b)[1] ELSE {}

\* dead_entry: what dies on every edge into b, and the parameters never used.
DeadEntry(b) ==
    IF b = Entry THEN entries[b] \ LiveIn(entries, b)[1]
    ELSE {v \in Var : Pred(b) # {} /\ \A p \in Pred(b) :
                         v \in LiveAtEnd(entries, p) \ entries[b]}

-----------------------------------------------------------------------------
(***************************************************************************)
(* The ownership primitives on counts                                      *)
(***************************************************************************)

\* syli_rt_ownership_release of the pointers at the positions P of ptr.
Released(count, ptr, P) ==
    [o \in Object |-> count[o] - Cardinality({i \in P : ptr[i] = Own(o)})]

\* syli_rt_ownership_share: always one more owner.
Shared(count, o) == [count EXCEPT ![o] = @ + 1]

\* Mutant of Owned: the new owner is not counted.
OwnedUncounted(count, p) == count

\* syli_rt_ownership_own: a borrow becomes an owner.
Owned(count, p) == IF p.tag = "borrow" THEN Shared(count, p.obj) ELSE count

-----------------------------------------------------------------------------
\* The caller lends or gives each parameter; every parameter's field is set.
Init ==
    /\ fn \in Functions
    /\ phase = "liveness"
    /\ entries = [b \in Block |-> {}]
    /\ block = Entry /\ index = 1
    /\ \E lent \in SUBSET fn.params :
          /\ env = [v \in Var |-> IF v \notin fn.params THEN NoPtr
                                  ELSE IF v \in lent THEN Borrow(ParamObject[v])
                                  ELSE Own(ParamObject[v])]
          /\ outside = [o \in Object |-> IF \E v \in lent : ParamObject[v] = o THEN 1 ELSE 0]
    /\ LET given == {ParamObject[v] : v \in fn.params}
       IN  /\ field = [o \in Object |-> IF o \in given THEN FieldObject ELSE Nil]
           /\ rc = [o \in Object |-> IF o \in given THEN 1
                                     ELSE IF o = FieldObject THEN Cardinality(given) ELSE 0]
    /\ unused = {} /\ leaked = [o \in Object |-> 0]
    /\ aliased = FALSE

\* analyze, phase 1: another round, or no entry changed.
Round ==
    /\ phase = "liveness"
    /\ entries' = [b \in Block |-> NewEntry(entries, b)]
    /\ phase' = IF entries' = entries THEN "enter" ELSE "liveness"
    /\ UNCHANGED <<fn, position, env, heap, waste, aliased>>

\* The releases at the beginning of a block.
EnterBlock ==
    /\ phase = "enter"
    /\ env' = [v \in Var |-> IF v \in DeadEntry(block) THEN NoPtr ELSE env[v]]
    /\ rc' = Released(rc, env, DeadEntry(block))
    /\ phase' = "run"
    /\ UNCHANGED <<fn, entries, position, field, outside, waste, aliased>>

Stmt == fn.stmts[block][index]
AtStmt(op) == phase = "run" /\ index <= Len(fn.stmts[block]) /\ Stmt.op = op

\* What every statement ends with: its result p is put in its variable, the
\* variables whose reference it took are empty, and the others that die here are
\* released.  A result that is dead already stays in its variable: only what was
\* live before the statement, or is an argument, dies at it.
Finish(p, count, taken, held) ==
    LET d     == Stmt.dst
        dying == (LiveBefore \ LiveAfter) \ taken
    IN  /\ env' = [v \in Var |-> IF v = d THEN p
                                 ELSE IF v \in dying \cup (taken \ LiveAfter) THEN NoPtr
                                 ELSE env[v]]
        /\ rc' = Released(count, env, dying)
        /\ outside' = held
        /\ unused' = (unused \ {d}) \cup {v \in {d} \ LiveAfter : p.tag = "own"}
        /\ leaked' = IF d # NoVar /\ env[d].tag = "own" THEN Shared(leaked, env[d].obj) ELSE leaked
        /\ index' = index + 1
        /\ UNCHANGED <<fn, phase, entries, block>>

\* Memory that is free.
Fresh(o) == rc[o] = 0 /\ field[o] = Nil

\* OR_Object_create
Create(o) ==
    /\ AtStmt("create")
    /\ Fresh(o)
    /\ Finish(Own(o), Shared(rc, o), {}, outside)
    /\ UNCHANGED <<field, aliased>>

\* Mutant of GetOwnership: the result is always borrowed from the object.
GetOwnershipBorrow(c) == <<Borrow(c), rc>>

\* ownership_get: share when the result lives on, else borrow.
GetOwnership(c) == IF Stmt.dst \in LiveAfter THEN <<Own(c), Shared(rc, c)>>
                   ELSE <<Borrow(c), rc>>

\* v = get(obj, f)
Get ==
    /\ AtStmt("get")
    /\ LET c == field[env[Stmt.args[1]].obj]
       IN  /\ c # Nil
           /\ Finish(GetOwnership(c)[1], GetOwnership(c)[2], {}, outside)
    /\ UNCHANGED <<field, aliased>>

\* set(obj, f, val): the old value is released, then val is shared when it
\* lives on, else owned.
Set ==
    /\ AtStmt("set")
    /\ LET x   == env[Stmt.args[1]].obj
           v   == Stmt.args[2]
           old == IF field[x] = Nil THEN rc ELSE [rc EXCEPT ![field[x]] = @ - 1]
           new == IF v \in LiveAfter THEN Shared(old, env[v].obj) ELSE Owned(old, env[v])
       IN  /\ Finish(NoPtr, new, {v} \ LiveAfter, outside)
           /\ field' = [field EXCEPT ![x] = env[v].obj]
    /\ UNCHANGED aliased

\* The positions whose argument is transferred.
Transferred == {i \in DOMAIN Stmt.args : Stmt.args[i] \notin LiveAfter}

Args == [i \in DOMAIN Stmt.args |-> env[Stmt.args[i]]]

\* One owned reference is passed to two parameters.
GivenTwice == \E i, j \in Transferred :
                 i # j /\ Stmt.args[i] = Stmt.args[j] /\ Args[i].tag = "own"

\* dst = callee(args), whose result is object o: new, or an argument it returns.
Call(o) ==
    /\ AtStmt("call")
    /\ Stmt.dst # NoVar
    /\ Fresh(o) \/ \E i \in DOMAIN Args : Args[i].obj = o
    /\ Finish(Own(o), Shared(Released(rc, Args, Transferred), o),
              {Stmt.args[i] : i \in Transferred}, outside)
    /\ aliased' = (aliased \/ GivenTwice)
    /\ UNCHANGED field

\* The same for a callee without a reference result, and for the narrowing cast
\* that hands an object to a closure's carrier word.
HandOver ==
    /\ (AtStmt("call") /\ Stmt.dst = NoVar) \/ AtStmt("narrow")
    /\ Finish(NoPtr, Released(rc, Args, Transferred),
              {Stmt.args[i] : i \in Transferred}, outside)
    /\ aliased' = (aliased \/ GivenTwice)
    /\ UNCHANGED field

\* dst = move src: the pointer is copied, and src is not released here.
Move ==
    /\ AtStmt("move")
    /\ LET s == Stmt.args[1]
       IN  /\ Finish(env[s], rc, {s}, outside)
           /\ aliased' = (aliased \/ (s \in LiveAfter /\ env[s].tag = "own"))
    /\ UNCHANGED field

\* OR_Store_global: share when the value lives on, else transfer.
StoreGlobal ==
    /\ AtStmt("store_global")
    /\ LET v == Stmt.args[1]
           o == env[v].obj
       IN  IF v \in LiveAfter
           THEN Finish(NoPtr, Shared(rc, o), {}, Shared(outside, o))
           ELSE Finish(NoPtr, rc, {v}, IF env[v].tag = "own" THEN Shared(outside, o) ELSE outside)
    /\ UNCHANGED <<field, aliased>>

AtEnd(kind) == phase = "run" /\ index > Len(fn.stmts[block]) /\ fn.term[block].kind = kind

\* OR_Goto, OR_CondBr, OR_Switch
Branch(b) ==
    /\ AtEnd("branch")
    /\ b \in Succ(block)
    /\ block' = b /\ index' = 1
    /\ phase' = "enter"
    /\ UNCHANGED <<fn, entries, env, heap, waste, aliased>>

\* OR_Return: the result is owned and belongs to the caller.
Return ==
    /\ AtEnd("return")
    /\ LET v == fn.term[block].var
       IN  IF v = NoVar THEN UNCHANGED <<env, rc, outside>>
           ELSE /\ rc' = Owned(rc, env[v])
                /\ outside' = Shared(outside, env[v].obj)
                /\ env' = [env EXCEPT ![v] = NoPtr]
    /\ phase' = "returned"
    /\ UNCHANGED <<fn, entries, position, field, waste, aliased>>

\* OR_MatchFailure
MatchFailure ==
    /\ AtEnd("match_failure")
    /\ phase' = "aborted"
    /\ UNCHANGED <<fn, entries, position, env, heap, waste, aliased>>

\* The collector releases the field of an object whose count is 0.
ReleaseChild(o) ==
    /\ phase # "liveness"
    /\ rc[o] = 0 /\ field[o] # Nil
    /\ rc' = [rc EXCEPT ![field[o]] = @ - 1]
    /\ field' = [field EXCEPT ![o] = Nil]
    /\ UNCHANGED <<fn, phase, entries, position, env, outside, waste, aliased>>

Next ==
    \/ Round
    \/ EnterBlock
    \/ \E o \in Object : Create(o) \/ Call(o) \/ ReleaseChild(o)
    \/ Get \/ Set \/ HandOver \/ Move \/ StoreGlobal
    \/ \E b \in Block : Branch(b)
    \/ Return \/ MatchFailure

\* The compiler runs its analysis to the end.
Spec == Init /\ [][Next]_vars /\ WF_vars(Round)

-----------------------------------------------------------------------------
(***************************************************************************)
(* Properties                                                              *)
(***************************************************************************)
\* X has the blocks that use v before they define it and, with a block, those
\* that jump to it and do not define v.
ClosedBackwards(X, v) ==
    \A b \in Block :
        v \in ExposedIn(fn, b) \/ (v \notin DefinedIn(fn, b) /\ Succ(b) \cap X # {}) => b \in X

\* The blocks from which a path leads to a use of v and does not define v before.
UsedFrom(v) == {b \in Block : \A X \in SUBSET Block : ClosedBackwards(X, v) => b \in X}

\* The fixpoint that Round stops at is liveness itself: a variable is live where
\* some path leads to a use and does not define it before, and nowhere else, on
\* cyclic graphs too.  The parameters are added at the entry.
LivenessExact ==
    phase = "enter" /\ block = Entry =>
        \A v \in Var :
            LET used == UsedFrom(v)
            IN  \A b \in Block :
                    v \in entries[b] <=> b \in used \/ (b = Entry /\ v \in fn.params)

\* The analysis ends: rounds only add variables.
AnalysisEnds == <>(phase # "liveness")

\* The variables the rest of the function may still use.
LiveNow == CASE phase = "run" -> LiveBefore
             [] phase = "enter" -> entries[block]
             [] OTHER -> {}

\* A variable that may still be used holds a pointer to an object that was not
\* freed: no release comes before the last use on any path, and none is missing
\* a share.
LiveIsValid ==
    \A v \in LiveNow : env[v] # NoPtr /\ rc[env[v].obj] > 0

\* The same for functions that never move a variable that lives on, and never
\* pass one reference twice to a callee that takes it over.
LiveIsValidUnaliased == phase # "liveness" /\ ~aliased => LiveIsValid

\* The references to o: owning variables, fields, the world outside, and those lost.
Holders(o) == Cardinality({v \in Var : env[v] = Own(o)})
              + Cardinality({x \in Object : field[x] = o}) + outside[o] + leaked[o]

\* The counts are the owned references after every statement.
RcExact == ~aliased => \A o \in Object : rc[o] = Holders(o)

\* A store releases the old value of the field before it counts the new one: when
\* they are the same object it must have another owner, or it is freed between.
SetKeepsValue ==
    AtStmt("set") /\ ~aliased =>
        LET o == env[Stmt.args[2]].obj
        IN  field[env[Stmt.args[1]].obj] = o => rc[o] > 1

\* What leaks, and nothing else does: while a block runs, a variable that owns a
\* reference is still used later on, on the path taken, unless nobody ever uses the
\* value it was given; when the function returns, only such variables are left.
\* Their references are never released (releases_of_dead_obj in pass_ownership.ml
\* releases what is live before the statement or an argument of it).  A statement
\* writes a variable that is dead, so these are also the only ones lost by it.
OwnerIsLive ==
    phase \in {"run", "returned"} =>
        \A v \in Var : env[v].tag = "own" => v \in LiveNow \cup unused

=============================================================================
