--------------------------- MODULE MCPatchMemory ---------------------------
(* Values for model checking PatchMemory. *)
EXTENDS PatchMemory, TLC

CONSTANTS t1, t2, p1, p2, b1, b2

TwoThreads == {t1, t2}
TwoPatches == {p1, p2}
OneBackup == {b1}
TwoBackups == {b1, b2}

TwoAddrs == 1 .. 2
Trits == 0 .. 2
Quads == 0 .. 3
Loaded == [a \in Addr |-> 0]

(* Two patches of the same two bytes: a write torn by the other shows.     *)
SameRange == {[at |-> 1, new |-> <<1, 1>>], [at |-> 1, new |-> <<2, 2>>]}

(* One patch whose bytes differ: a byte written where its neighbour        *)
(* belongs shows.                                                          *)
OneRequest == {[at |-> 1, new |-> <<1, 2>>]}

LastByte == {[at |-> 2, size |-> 1]}
OneWrite == {[at |-> 2, new |-> <<3>>]}
None == {}

Symmetric ==
  Permutations(Thread) \cup Permutations(PatchSlot) \cup Permutations(BackupSlot)
=============================================================================
