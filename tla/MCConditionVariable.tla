------------------------ MODULE MCConditionVariable -------------------------
(* Model checking of ConditionVariable: three threads are an owner that    *)
(* signals, a waiter with a timer, and one that competes for the lock.     *)
EXTENDS ConditionVariable

CONSTANTS t1, t2, t3   \* model values

=============================================================================
