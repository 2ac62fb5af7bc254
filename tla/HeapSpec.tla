------------------------------ MODULE HeapSpec ------------------------------
(***************************************************************************)
(* What the memory manager promises the program: an object the program can *)
(* still reach is neither freed nor changed behind its back.  The cells it *)
(* cannot reach may be freed, in any order and at any time, or never.      *)
(***************************************************************************)
EXTENDS Naturals

CONSTANTS Object, Null, Slot, Field

VARIABLES
    alive,   \* the allocated cells
    value,   \* value[o][f]: the reference in field f of o, or Null
    slot     \* slot[s]: the reference in variable s, or Null

vars == <<alive, value, slot>>

\* A set that contains what the slots hold and what the fields of its members hold.
Closed(S) ==
    /\ \A s \in Slot : slot[s] # Null => slot[s] \in S
    /\ \A o \in S : \A f \in Field : value[o][f] # Null => value[o][f] \in S

\* The least closed set.
Reachable == {o \in Object : \A S \in SUBSET Object : Closed(S) => o \in S}

\* The collector may free cells, and may scribble on those it is going to
\* free; v is what the step of the program makes of the fields.
Collected(cells, v) ==
    /\ alive' \subseteq cells
    /\ Reachable' \subseteq alive'
    /\ \A o \in Reachable' : value'[o] = v[o]

Init ==
    /\ alive = {}
    /\ value = [o \in Object |-> [f \in Field |-> Null]]
    /\ slot = [s \in Slot |-> Null]

New(s, o) ==
    /\ slot[s] = Null /\ o \notin alive
    /\ slot' = [slot EXCEPT ![s] = o]
    /\ Collected(alive \cup {o}, [value EXCEPT ![o] = [f \in Field |-> Null]])

Drop(s) ==
    /\ slot[s] # Null
    /\ slot' = [slot EXCEPT ![s] = Null]
    /\ Collected(alive, value)

Copy(s, t) ==
    /\ slot[s] # Null /\ slot[t] = Null
    /\ slot' = [slot EXCEPT ![t] = slot[s]]
    /\ Collected(alive, value)

Read(s, f, t) ==
    /\ slot[s] # Null /\ slot[t] = Null
    /\ value[slot[s]][f] # Null
    /\ slot' = [slot EXCEPT ![t] = value[slot[s]][f]]
    /\ Collected(alive, value)

\* The written reference is kept in t or moved out of it.
Write(s, f, t) ==
    /\ slot[s] # Null
    /\ slot' \in {slot, [slot EXCEPT ![t] = Null]}
    /\ Collected(alive, [value EXCEPT ![slot[s]][f] = slot[t]])

Clear(s, f) ==
    /\ slot[s] # Null
    /\ slot' = slot
    /\ Collected(alive, [value EXCEPT ![slot[s]][f] = Null])

Move(s, t) ==
    /\ slot[s] # Null /\ slot[t] = Null
    /\ slot' = [slot EXCEPT ![s] = Null, ![t] = slot[s]]
    /\ Collected(alive, value)

Collect == slot' = slot /\ Collected(alive, value)

Next ==
    \/ \E s \in Slot, o \in Object : New(s, o)
    \/ \E s \in Slot : Drop(s)
    \/ \E s, t \in Slot : Copy(s, t) \/ Move(s, t)
    \/ \E s, t \in Slot, f \in Field : Read(s, f, t) \/ Write(s, f, t)
    \/ \E s \in Slot, f \in Field : Clear(s, f)
    \/ Collect

Spec == Init /\ [][Next]_vars

=============================================================================
