---------------------------- MODULE MCThreadList ----------------------------
(* Model checking of ThreadList: the main thread and two others.           *)
EXTENDS ThreadList

CONSTANTS main, t1, t2   \* model values

=============================================================================
