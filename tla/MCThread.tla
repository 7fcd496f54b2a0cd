------------------------------ MODULE MCThread ------------------------------
(* Model checking of Thread: the thread, its owner and one more client.    *)
EXTENDS Thread

CONSTANTS self, main, c1   \* model values

=============================================================================
