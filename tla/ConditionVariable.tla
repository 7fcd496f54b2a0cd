------------------------- MODULE ConditionVariable -------------------------
(***************************************************************************)
(* hs::os::ConditionVariableImpl, and the ConditionVariable API that wraps *)
(* it: waiting and signalling, composed with the critical section whose    *)
(* lock word the kernel releases and gives back on behalf of the waiter.   *)
(***************************************************************************)
EXTENDS CriticalSection, HorizonKeys

CONSTANT Timeouts   \* a subset of {"zero", "finite", "infinite"}

ASSUME TimeoutsAssumption == Timeouts \subseteq {"zero", "finite", "infinite"}

VARIABLE timeout   \* timeout[t]: the timeout of the last wait of t

waitVars == <<keyVars, timeout>>
cvVars == <<vars, waitVars>>

(* Wait (infinite) and the first half of WaitTimeout.                      *)
Wait(t, time, from) ==
  /\ pc[t] = from
  /\ WaitKeyAtomic(t, time)
  /\ Goto(t, "wait")
  /\ timeout' = [timeout EXCEPT ![t] = time]
  /\ UNCHANGED expected

Forget(t) ==
  /\ result' = [result EXCEPT ![t] = "ok"]
  /\ timeout' = [timeout EXCEPT ![t] = "infinite"]
  /\ UNCHANGED <<kernelVars, keyed, expected>>

(* Faulty variant: a timed-out wait returns without taking the lock back.  *)
WaitReturnsUnlocked(t, resume) ==
  /\ pc[t] = "wait"
  /\ ~Queued(t)
  /\ Goto(t, resume)
  /\ Forget(t)

(***************************************************************************)
(* Second half: on success the kernel has given the lock back; on a        *)
(* timeout, which only WaitTimeout accepts, the thread enters by itself.   *)
(* The result and the timeout are locals of the call: they are forgotten.  *)
(***************************************************************************)
WaitReturns(t, resume) ==
  /\ pc[t] = "wait"
  /\ ~Queued(t)
  /\ \/ result[t] = "ok" /\ Goto(t, resume)
     \/ result[t] = "timedOut" /\ timeout[t] # "infinite" /\ Goto(t, "enter")
  /\ Forget(t)

Signal == SignalKey("one") /\ UNCHANGED <<pc, expected, timeout>>

Broadcast == SignalKey("all") /\ UNCHANGED <<pc, expected, timeout>>

(* The kernel's timer.                                                     *)
Timer(t) ==
  /\ pc[t] = "wait" /\ timeout[t] = "finite"
  /\ Expire(t)
  /\ UNCHANGED <<pc, expected, timeout>>

(***************************************************************************)
(* Clients: a thread that is inside may wait; signals come from inside and *)
(* from outside.                                                           *)
(***************************************************************************)
CVInit ==
  /\ Init
  /\ KeysInit
  /\ timeout = [t \in Threads |-> "infinite"]

Enters(t) == EnterStep(t) /\ UNCHANGED waitVars

Leaves(t) == LeaveStep(t) /\ UNCHANGED waitVars

WaitStep(t) == \E time \in Timeouts : Wait(t, time, "inside")

Arrive(t) ==
  /\ CallEnter(t) \/ TryEnter(t, "idle", "inside") \/ TryEnterFails(t, "idle", "idle")
  /\ UNCHANGED waitVars

Notify(t) == pc[t] \in {"idle", "inside"} /\ (Signal \/ Broadcast)

CVNext ==
  \E t \in Threads :
    \/ Arrive(t) \/ Enters(t) \/ Leaves(t)
    \/ WaitStep(t) \/ WaitReturns(t, "inside") \/ Timer(t) \/ Notify(t)

CVSpec == CVInit /\ [][CVNext]_cvVars

(* As in CriticalSection; in addition timers go off, and a thread that is  *)
(* back from the system call is scheduled.  Nobody has to signal.          *)
GivenTheLock(o, t) == (Leaves(o) \/ WaitStep(o)) /\ t \in waiters[o] /\ image'.owner = t

CVFairness ==
  \A t \in Threads :
    /\ WF_cvVars(Enters(t))
    /\ WF_cvVars(Leaves(t))
    /\ WF_cvVars(WaitReturns(t, "inside"))
    /\ WF_cvVars(Timer(t))
    /\ SF_cvVars(\E o \in Threads : GivenTheLock(o, t))

CVFairSpec == CVSpec /\ CVFairness

-----------------------------------------------------------------------------
(* Whoever is inside is the owner in the word, also after a wait, however  *)
(* it ended: signalled, signalled while the lock was busy, or timed out.   *)
(* And a wait that succeeded has the lock already when the system call     *)
(* returns, which is why Wait does not call Enter                          *)
(* (ConditionVariableImpl::Wait and WaitTimeout).                          *)
WokenOwnsTheLock ==
  \A t \in Threads :
    \/ pc[t] \in {"inside", "unlock"}
    \/ pc[t] = "wait" /\ ~Queued(t) /\ result[t] = "ok"
    => image.owner = t

(* The monitor: giving up the lock and sleeping are one step, a signal is  *)
(* delivered to exactly one sleeper, and a woken thread counts as inside   *)
(* once its wait has returned.                                             *)
Promise == INSTANCE Monitor WITH holder <- LockHolder, sleeping <- keyed

ImplementsMonitor == Promise!MonitorSpec

(* A waiter without a timeout that has been signalled gets back inside     *)
(* (one that times out meanwhile enters by itself, and may lose that race  *)
(* for ever).                                                              *)
SignalledReturns ==
  \A t \in Threads :
    pc[t] = "wait" /\ timeout[t] = "infinite" /\ t \notin keyed ~> pc[t] = "inside"

(* WaitTimeout returns, and with the lock, however its timer races the     *)
(* signal: a thread that timed out calls Enter, may have to queue for the  *)
(* lock again, and must notice when it is handed over.  Only threads that  *)
(* take the lock again and again can keep it out (it may lose every race   *)
(* for the word to them), so they have to stop some time.                  *)
OthersStayOut(t) == <>[](\A u \in Threads \ {t} : pc[u] # "inside")

TimedWaitReturns ==
  \A t \in Threads :
    OthersStayOut(t) =>
      (pc[t] = "wait" /\ timeout[t] = "finite" ~> pc[t] = "inside")

=============================================================================
