-------------------------- MODULE MCHandleRegistry --------------------------
(* Values for model checking HandleRegistry. *)
EXTENDS HandleRegistry

CONSTANTS t1, t2, s1, s2, s3, oA, oB

TwoThreads == {t1, t2}
TwoSlots == {s1, s2}
ThreeSlots == {s1, s2, s3}
OneObject == {oA}
TwoObjects == {oA, oB}

=============================================================================
