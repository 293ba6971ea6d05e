------------------------- MODULE MCPatchDiscipline -------------------------
(* Values for model checking PatchDiscipline. *)
EXTENDS PatchDiscipline, TLC

CONSTANTS t1, t2, p1, p2, b1

TwoThreads == {t1, t2}
TwoPatches == {p1, p2}
OneBackup == {b1}

ThreeAddrs == 1 .. 3
Trits == 0 .. 2
Loaded == [a \in Addr |-> 0]

(* A patch over part of another, and one beside both.                      *)
Layered == {[at |-> 1, new |-> <<1, 1>>], [at |-> 2, new |-> <<2>>], [at |-> 3, new |-> <<1>>]}
None == {}

Symmetric == Permutations(Thread) \cup Permutations(PatchSlot)
=============================================================================
