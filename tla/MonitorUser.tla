---------------------------- MODULE MonitorUser ----------------------------
(***************************************************************************)
(* A component whose functions take a critical section and may wait on a   *)
(* condition variable in it, both as Monitor promises them.                *)
(***************************************************************************)
EXTENDS Monitor, Integers

CONSTANT MaxCalls   \* bound: calls of the clients

ASSUME MaxCallsAssumption == MaxCalls \in Nat

VARIABLE pc   \* where each thread is in the function it has called, or idle

Goto(t, label) == pc' = [pc EXCEPT ![t] = label]

=============================================================================
