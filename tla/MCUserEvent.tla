---------------------------- MODULE MCUserEvent -----------------------------
(* Model checking of UserEvent: two waiters and one that signals, clears   *)
(* or asks, in every assignment of roles.                                  *)
EXTENDS UserEvent

CONSTANTS t1, t2, t3   \* model values

=============================================================================
