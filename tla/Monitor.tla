------------------------------ MODULE Monitor ------------------------------
(***************************************************************************)
(* What CriticalSection and ConditionVariableImpl promise together: a lock *)
(* with at most one holder, and a set of threads that gave the lock up to  *)
(* sleep until another thread signals.  A signalled thread is just not     *)
(* asleep any more; it is inside again only once it has acquired the lock. *)
(*                                                                         *)
(* CriticalSection and ConditionVariable are shown to implement MonitorSpec*)
(* and the components that use them (UserEvent, Barrier) are built from    *)
(* its actions.                                                            *)
(***************************************************************************)

CONSTANTS Threads, InvalidHandle

ASSUME NobodyAssumption == InvalidHandle \notin Threads

VARIABLES
  holder,     \* the thread inside the critical section, or InvalidHandle
  sleeping    \* the threads asleep on the condition variable

monitorVars == <<holder, sleeping>>

MonitorInit == holder = InvalidHandle /\ sleeping = {}

Acquire(t) ==
  /\ holder = InvalidHandle
  /\ t \notin sleeping
  /\ holder' = t
  /\ UNCHANGED sleeping

Release(t) ==
  /\ holder = t
  /\ holder' = InvalidHandle
  /\ UNCHANGED sleeping

(* Giving up the lock and falling asleep is one step: no signal can fall   *)
(* between the two.                                                        *)
Sleep(t) ==
  /\ holder = t
  /\ holder' = InvalidHandle
  /\ sleeping' = sleeping \cup {t}

(* A signal wakes exactly one sleeper when there is one; it is not stored. *)
SignalOne ==
  /\ \/ \E s \in sleeping : sleeping' = sleeping \ {s}
     \/ sleeping = {} /\ UNCHANGED sleeping
  /\ UNCHANGED holder

SignalAll == sleeping' = {} /\ UNCHANGED holder

TimeOut(t) ==
  /\ t \in sleeping
  /\ sleeping' = sleeping \ {t}
  /\ UNCHANGED holder

MonitorNext ==
  \/ \E t \in Threads : Acquire(t) \/ Release(t) \/ Sleep(t) \/ TimeOut(t)
  \/ SignalOne
  \/ SignalAll

MonitorSpec == MonitorInit /\ [][MonitorNext]_monitorVars

=============================================================================
