--------------------------- MODULE MCConversions ---------------------------
(* Values for model checking Conversions. *)
EXTENDS Conversions

Digits == {"0", "7"}
Others == {"nul", "z"}

(* Every address within two of a page boundary, of four pages. *)
Probes == {x \in Address : x % KM_PAGE_SIZE \in {0, 1, 2, KM_PAGE_SIZE - 2, KM_PAGE_SIZE - 1}}
=============================================================================
