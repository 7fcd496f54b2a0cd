--------------------------- MODULE MCKernelEvent ----------------------------
(* Model checking of KernelEvent: two threads race for a signal while      *)
(* handles move between two objects.                                       *)
EXTENDS KernelEvent

CONSTANTS t1, t2, e1, e2, o1, o2   \* model values

=============================================================================
