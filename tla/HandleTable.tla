---------------------------- MODULE HandleTable ----------------------------
(***************************************************************************)
(* What a family of handles promises to its callers, whatever the table,   *)
(* the identifiers and the mutex behind it.                                *)
(*                                                                         *)
(* A caller's variable (a Slot) names nothing or one object.  Objects are  *)
(* told apart by their birth number, never used twice.  At any time at     *)
(* most one thread has an object open, the object it has open is the one   *)
(* its variable names, and an object is not destroyed while it is open.    *)
(***************************************************************************)
EXTENDS Naturals

CONSTANTS
  Thread,    \* threads of the host program
  Slot,      \* variables of the host program that hold a handle
  Object,    \* what can stand behind a handle
  SysCopies  \* TRUE where raw handle structs may be copied

VARIABLES
  objs,   \* the objects alive: birth -> Object
  births, \* how many objects have been born
  name,   \* [Slot -> birth]; 0 names nothing
  open    \* [Thread -> birth]; 0 is no object open

absVars == <<objs, births, name, open>>

Init ==
  /\ objs = [b \in {} |-> b]
  /\ births = 0
  /\ name = [s \in Slot |-> 0]
  /\ open = [t \in Thread |-> 0]

New(s, o) ==
  /\ name[s] = 0
  /\ births' = births + 1
  /\ objs' = [b \in DOMAIN objs \cup {births + 1} |->
                IF b = births + 1 THEN o ELSE objs[b]]
  /\ name' = [name EXCEPT ![s] = births + 1]
  /\ UNCHANGED open

Copy(s, d) ==
  /\ SysCopies
  /\ name[d] = 0
  /\ name' = [name EXCEPT ![d] = name[s]]
  /\ UNCHANGED <<objs, births, open>>

Open(t, s) ==
  /\ \A u \in Thread : open[u] = 0
  /\ name[s] \in DOMAIN objs
  /\ open' = [open EXCEPT ![t] = name[s]]
  /\ UNCHANGED <<objs, births, name>>

Close(t) ==
  /\ open[t] # 0
  /\ open' = [open EXCEPT ![t] = 0]
  /\ UNCHANGED <<objs, births, name>>

Drop(s) ==
  /\ \A t \in Thread : open[t] = 0
  /\ objs' = [b \in DOMAIN objs \ {name[s]} |-> objs[b]]
  /\ name' = [name EXCEPT ![s] = 0]
  /\ UNCHANGED <<births, open>>

Next ==
  \/ \E s \in Slot, o \in Object : New(s, o)
  \/ \E s, d \in Slot : Copy(s, d)
  \/ \E t \in Thread, s \in Slot : Open(t, s)
  \/ \E t \in Thread : Close(t)
  \/ \E s \in Slot : Drop(s)

Spec == Init /\ [][Next]_absVars
=============================================================================
