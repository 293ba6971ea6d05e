----------------------------- MODULE MCScanners -----------------------------
(* Values for model checking Scanners. *)
EXTENDS Scanners

CONSTANTS t1, t2, s1, s2, l1, l2, p1

Threads == {t1, t2}
Slots == {s1, s2}
Libs == {l1, l2}
Pages == {p1}
=============================================================================
