------------------------------ MODULE PageMath ------------------------------
(***************************************************************************)
(* The page arithmetic of sys.rs, on the machine's words.                  *)
(***************************************************************************)
EXTENDS Naturals

CONSTANT Word  \* how many values a usize has

KM_PAGE_SIZE == 4096

ASSUME WordAssumption == Word \in Nat \ {0} /\ Word % KM_PAGE_SIZE = 0

Address == 0 .. Word - 1

(* x & !(KM_PAGE_SIZE - 1), the page size being a power of two.            *)
km_page_start_fn(x) == x - (x % KM_PAGE_SIZE)

(* (x + KM_PAGE_SIZE as usize) - 1, from left to right: in a release build *)
(* each of the two operations wraps.                                       *)
PageSum(x) == (((x + KM_PAGE_SIZE) % Word) + Word - 1) % Word

(* A build with overflow checks panics where the addition does not fit,    *)
(* one address before the whole sum does not.                              *)
Overflows(x) == x + KM_PAGE_SIZE >= Word

(* A sum that goes one too far.                                            *)
km_page_end_off(x) == km_page_start_fn((x + KM_PAGE_SIZE) % Word)

km_page_end_fn(x) == km_page_start_fn(PageSum(x))
-----------------------------------------------------------------------------
(* The reference: the boundaries of the pages around an address.           *)
Boundary(p) == p % KM_PAGE_SIZE = 0

StartsPage(x, p) ==
  /\ Boundary(p) /\ p <= x
  /\ \A q \in p + 1 .. x : ~Boundary(q)

EndsPage(x, p) ==
  /\ Boundary(p) /\ x <= p
  /\ \A q \in x .. p - 1 : ~Boundary(q)
=============================================================================
