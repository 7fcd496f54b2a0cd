----------------------------- MODULE MCBarrier ------------------------------
(* Model checking of Barrier: a barrier for three and a fourth thread that *)
(* comes late, all of them coming again.                                   *)
EXTENDS Barrier

CONSTANTS t1, t2, t3, t4   \* model values

=============================================================================
