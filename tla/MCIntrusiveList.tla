-------------------------- MODULE MCIntrusiveList ---------------------------
(* Model checking of IntrusiveList: two lists that share three elements.   *)
EXTENDS IntrusiveList

CONSTANTS x1, x2, x3, l1, l2   \* model values

=============================================================================
