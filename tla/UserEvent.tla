----------------------------- MODULE UserEvent -----------------------------
(***************************************************************************)
(* hs::os::UserEvent: a flag under a critical section, with a condition    *)
(* variable for the threads that wait for it to be raised.  The lock and   *)
(* the condition variable are the ones Monitor promises.                   *)
(*                                                                         *)
(* Every access to the flag is between Enter and Leave, so what a call     *)
(* does with it while it holds the lock is one step.                       *)
(***************************************************************************)
EXTENDS MonitorUser

CONSTANT AutoClearModes  \* values of is_auto_clear the event is initialized with

ASSUME AutoClearModesAssumption == AutoClearModes \subseteq BOOLEAN

VARIABLES
  is_signaled,
  is_signaled_at_init,   \* stored by InitializeUserEvent, read by nobody
  is_auto_clear,
  call,      \* call[t]: the function t is executing
  calls,     \* calls[t]: how many calls t has made, at most MaxCalls
  raised,    \* how often the flag went up (or was up to begin with)
  taken      \* how often somebody was told so: waits over, true answers

eventVars == <<is_signaled, is_signaled_at_init, is_auto_clear>>
vars == <<monitorVars, eventVars, call, pc, calls, raised, taken>>

Functions ==
  {"WaitUserEvent", "IsUserEventSignaled", "SignalUserEvent", "ClearUserEvent"}

At(t, label, f) == pc[t] = label /\ call[t] = f

(* is_signaled is left as it is found in memory.                           *)
InitializeUserEvent ==
  /\ is_signaled \in BOOLEAN
  /\ is_signaled_at_init \in BOOLEAN
  /\ is_auto_clear \in AutoClearModes

Call(t) ==
  /\ pc[t] = "idle" /\ calls[t] < MaxCalls
  /\ \E f \in Functions : call' = [call EXCEPT ![t] = f]
  /\ calls' = [calls EXCEPT ![t] = @ + 1]
  /\ Goto(t, "enter")
  /\ UNCHANGED <<monitorVars, eventVars, raised, taken>>

Enter(t) ==
  /\ pc[t] = "enter"
  /\ Acquire(t)
  /\ Goto(t, "body")
  /\ UNCHANGED <<eventVars, call, calls, raised, taken>>

Leave(t) ==
  /\ pc[t] = "leave"
  /\ Release(t)
  /\ Goto(t, "idle")
  /\ UNCHANGED <<eventVars, call, calls, raised, taken>>

(* The flag is up: an auto-clear event comes down again.                   *)
Take ==
  /\ is_signaled' = (is_signaled /\ ~is_auto_clear)
  /\ taken' = taken + 1
  /\ UNCHANGED <<is_signaled_at_init, is_auto_clear, raised>>

(* WaitUserEvent: the test of the loop, and what follows the loop.         *)
TestFlag(t) ==
  /\ At(t, "body", "WaitUserEvent")
  /\ \/ ~is_signaled /\ Goto(t, "sleep") /\ UNCHANGED <<eventVars, raised, taken>>
     \/ is_signaled /\ Take /\ Goto(t, "leave")
  /\ UNCHANGED <<monitorVars, call, calls>>

Wait(t) ==
  /\ pc[t] = "sleep"
  /\ Sleep(t)
  /\ Goto(t, "wait")
  /\ UNCHANGED <<eventVars, call, calls, raised, taken>>

(* Faulty variant: an if instead of a while around the wait.               *)
WaitReturnsUntested(t) ==
  /\ pc[t] = "wait"
  /\ Acquire(t)
  /\ Take
  /\ Goto(t, "leave")
  /\ UNCHANGED <<call, calls>>

WaitReturns(t) ==
  /\ pc[t] = "wait"
  /\ Acquire(t)
  /\ Goto(t, "body")
  /\ UNCHANGED <<eventVars, call, calls, raised, taken>>

(* Faulty variant: an early return that skips Leave.                       *)
IsUserEventSignaledEarlyReturn(t) ==
  /\ At(t, "body", "IsUserEventSignaled")
  /\ IF is_signaled THEN Take ELSE UNCHANGED <<eventVars, raised, taken>>
  /\ Goto(t, IF is_signaled THEN "leave" ELSE "idle")
  /\ UNCHANGED <<monitorVars, call, calls>>

IsUserEventSignaled(t) ==
  /\ At(t, "body", "IsUserEventSignaled")
  /\ IF is_signaled THEN Take ELSE UNCHANGED <<eventVars, raised, taken>>
  /\ Goto(t, "leave")
  /\ UNCHANGED <<monitorVars, call, calls>>

Raise ==
  /\ is_signaled' = TRUE
  /\ raised' = raised + 1
  /\ UNCHANGED <<is_signaled_at_init, is_auto_clear, taken>>

(* Faulty variant: signalling without the critical section.                *)
SignalUserEventUnlocked(t) ==
  /\ call[t] = "SignalUserEvent" /\ pc[t] \in {"enter", "body"}
  /\ \/ ~is_signaled /\ Raise /\ SignalOne
     \/ is_signaled /\ UNCHANGED <<eventVars, raised, taken, monitorVars>>
  /\ Goto(t, IF pc[t] = "enter" THEN "idle" ELSE "leave")
  /\ UNCHANGED <<call, calls>>

SignalUserEvent(t) ==
  /\ At(t, "body", "SignalUserEvent")
  /\ \/ ~is_signaled /\ Raise /\ SignalOne
     \/ is_signaled /\ UNCHANGED <<eventVars, raised, taken, monitorVars>>
  /\ Goto(t, "leave")
  /\ UNCHANGED <<call, calls>>

ClearUserEvent(t) ==
  /\ At(t, "body", "ClearUserEvent")
  /\ is_signaled' = FALSE
  /\ Goto(t, "leave")
  /\ UNCHANGED <<monitorVars, is_signaled_at_init, is_auto_clear, call, calls, raised, taken>>

Init ==
  /\ MonitorInit
  /\ InitializeUserEvent
  /\ call = [t \in Threads |-> "WaitUserEvent"]
  /\ pc = [t \in Threads |-> "idle"]
  /\ calls = [t \in Threads |-> 0]
  /\ raised = IF is_signaled THEN 1 ELSE 0
  /\ taken = 0

Step(t) ==
  \/ Enter(t) \/ Leave(t)
  \/ TestFlag(t) \/ Wait(t) \/ WaitReturns(t)
  \/ IsUserEventSignaled(t) \/ SignalUserEvent(t) \/ ClearUserEvent(t)

Next == \E t \in Threads : Call(t) \/ Step(t)

Spec == Init /\ [][Next]_vars

(* Threads that are in a call are scheduled, and one that was signalled    *)
(* gets the lock back (SignalledReturns of ConditionVariable).  Nobody     *)
(* has to call anything.                                                   *)
Fairness ==
  \A t \in Threads : WF_vars(Step(t)) /\ SF_vars(WaitReturns(t))

FairSpec == Spec /\ Fairness

-----------------------------------------------------------------------------
(* With auto-clear a signal is for one taker: the waits that return and    *)
(* the queries that answer true are never more than the times the flag was *)
(* raised, however signals, clears and wake-ups interleave.                *)
OneTakerPerSignal == is_auto_clear => taken <= raised

(* A flag that is up never leaves all the waiters asleep: one of them is   *)
(* awake and will find it up (WaitUserEvent, SignalUserEvent).  Only with  *)
(* auto-clear: otherwise SignalUserEvent wakes one waiter and the others   *)
(* sleep on beside the flag.                                               *)
AutoClearSignalHasTaker ==
  is_auto_clear /\ is_signaled /\ sleeping # {} =>
    \E t \in Threads \ sleeping :
      At(t, "wait", "WaitUserEvent") \/ At(t, "body", "WaitUserEvent")

(* A signal sent while threads wait is taken, or cleared by somebody.      *)
SignalIsTaken ==
  is_auto_clear /\ is_signaled /\ sleeping # {} ~> ~is_signaled

=============================================================================
