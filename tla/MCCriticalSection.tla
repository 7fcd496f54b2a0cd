------------------------- MODULE MCCriticalSection --------------------------
(* Model checking of CriticalSection: four threads are an owner, a         *)
(* sleeper, one about to announce itself and one that barges.              *)
EXTENDS CriticalSection

CONSTANTS t1, t2, t3, t4   \* model values

=============================================================================
