----------------------------- MODULE PatchStore -----------------------------
(***************************************************************************)
(* What patches promise to a host program that writes its code through     *)
(* them alone: each modify and each restore takes place at once, whatever  *)
(* the threads do, and a patch keeps the bytes it was created with.        *)
(*                                                                         *)
(* Nothing is promised of the original bytes a creation captures but their *)
(* number: it reads them byte by byte beside the writers.                  *)
(***************************************************************************)
EXTENDS Naturals, Sequences

CONSTANTS
  Slot,     \* the host program's Patch variables
  Addr,     \* addresses
  Byte,     \* contents
  Pristine, \* the memory as loaded
  Requests, \* patches asked for: [at, new]
  NoPatch   \* a variable that holds none

VARIABLES
  mem,  \* [Addr -> Byte]
  patch \* [Slot -> the patch, or NoPatch]

storeVars == <<mem, patch>>

(* Memory with the bytes of data at an address.                            *)
Put(m, at, data) ==
  [a \in Addr |-> IF a \in at .. at + Len(data) - 1 THEN data[a - at + 1] ELSE m[a]]

Init ==
  /\ mem = Pristine
  /\ patch = [s \in Slot |-> NoPatch]

Create(s, r) ==
  /\ patch[s] = NoPatch
  /\ \E orig \in [1 .. Len(r.new) -> Byte] :
       patch' = [patch EXCEPT ![s] = [at |-> r.at, new |-> r.new, orig |-> orig]]
  /\ UNCHANGED mem

Modify(s) ==
  /\ patch[s] # NoPatch
  /\ mem' = Put(mem, patch[s].at, patch[s].new)
  /\ UNCHANGED patch

Restore(s) ==
  /\ patch[s] # NoPatch
  /\ mem' = Put(mem, patch[s].at, patch[s].orig)
  /\ UNCHANGED patch

Drop(s) ==
  /\ patch' = [patch EXCEPT ![s] = NoPatch]
  /\ UNCHANGED mem

Next ==
  \E s \in Slot :
    \/ \E r \in Requests : Create(s, r)
    \/ Modify(s)
    \/ Restore(s)
    \/ Drop(s)

Spec == Init /\ [][Next]_storeVars
=============================================================================
