---------------------------- MODULE MCFfiBuffers ----------------------------
(* Values for model checking FfiBuffers. *)
EXTENDS FfiBuffers, TLC

CONSTANTS t1, t2, c1, c2, x, y, s1, s2

Threads == {t1, t2}
Cells == {c1, c2}
Items == {x, y}
Slots == {s1, s2}

Symmetric == Permutations(Thread) \cup Permutations(Cell) \cup Permutations(Item)
             \cup Permutations(Slot)
=============================================================================
