------------------------------ MODULE MCMutex -------------------------------
(* Model checking of Mutex: two threads are enough to race for the owner   *)
(* field and the counter, and one that nests deeper than the range of the  *)
(* counter makes it wrap.                                                  *)
EXTENDS Mutex

CONSTANTS t1, t2   \* model values

=============================================================================
