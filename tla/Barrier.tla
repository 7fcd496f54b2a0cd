------------------------------ MODULE Barrier ------------------------------
(***************************************************************************)
(* hs::os::Barrier: the first number_to_wait threads to arrive leave       *)
(* together.  The lock and the condition variable are the ones Monitor     *)
(* promises; arrive_count is only touched inside the lock.  The uint32_t   *)
(* does not wrap: who arrives late sleeps for ever, so there are never     *)
(* more than number_to_wait arrivals and one per thread.                   *)
(***************************************************************************)
EXTENDS MonitorUser

CONSTANT number_to_wait

ASSUME NumberAssumption == number_to_wait \in Nat \ {0}

VARIABLES
  arrive_count,
  ticket,    \* ticket[t]: the arrival number of t's last call
  awaits     \* calls of AwaitBarrier so far

barrierVars == <<monitorVars, arrive_count, pc, ticket, awaits>>

Labels == {"idle", "enter", "arrive", "broadcast", "sleep", "wait", "leave"}

CallAwaitBarrier(t) ==
  /\ pc[t] = "idle" /\ awaits < MaxCalls
  /\ awaits' = awaits + 1
  /\ Goto(t, "enter")
  /\ UNCHANGED <<monitorVars, arrive_count, ticket>>

EnterBarrier(t) ==
  /\ pc[t] = "enter"
  /\ Acquire(t)
  /\ Goto(t, "arrive")
  /\ UNCHANGED <<arrive_count, ticket, awaits>>

(* Faulty variant: the count is compared before it is incremented.         *)
ArriveComparesFirst(t) ==
  /\ pc[t] = "arrive"
  /\ arrive_count' = arrive_count + 1
  /\ ticket' = [ticket EXCEPT ![t] = arrive_count + 1]
  /\ Goto(t, IF arrive_count = number_to_wait THEN "broadcast" ELSE "sleep")
  /\ UNCHANGED <<monitorVars, awaits>>

(* Faulty variant: off by one, the last thread but one opens the barrier.  *)
ArriveOneShort(t) ==
  /\ pc[t] = "arrive"
  /\ arrive_count' = arrive_count + 1
  /\ ticket' = [ticket EXCEPT ![t] = arrive_count + 1]
  /\ Goto(t, IF arrive_count + 2 >= number_to_wait THEN "broadcast" ELSE "sleep")
  /\ UNCHANGED <<monitorVars, awaits>>

(* The count is not reset when it reaches number_to_wait: whoever arrives  *)
(* later goes to sleep.                                                    *)
Arrive(t) ==
  /\ pc[t] = "arrive"
  /\ arrive_count' = arrive_count + 1
  /\ ticket' = [ticket EXCEPT ![t] = arrive_count + 1]
  /\ Goto(t, IF arrive_count + 1 = number_to_wait THEN "broadcast" ELSE "sleep")
  /\ UNCHANGED <<monitorVars, awaits>>

(* Faulty variant: Signal for Broadcast.                                   *)
SignalsOne(t) ==
  /\ pc[t] = "broadcast"
  /\ SignalOne
  /\ Goto(t, "leave")
  /\ UNCHANGED <<arrive_count, ticket, awaits>>

Broadcast(t) ==
  /\ pc[t] = "broadcast"
  /\ SignalAll
  /\ Goto(t, "leave")
  /\ UNCHANGED <<arrive_count, ticket, awaits>>

WaitForOthers(t) ==
  /\ pc[t] = "sleep"
  /\ Sleep(t)
  /\ Goto(t, "wait")
  /\ UNCHANGED <<arrive_count, ticket, awaits>>

(* Wait is not in a loop: a wake-up is taken for the opening.              *)
WaitForOthersReturns(t) ==
  /\ pc[t] = "wait"
  /\ Acquire(t)
  /\ Goto(t, "leave")
  /\ UNCHANGED <<arrive_count, ticket, awaits>>

(* Faulty variant: only the thread that opens the barrier leaves the lock. *)
LeaveForgotten(t) ==
  /\ pc[t] = "leave"
  /\ IF ticket[t] = number_to_wait THEN Release(t) ELSE UNCHANGED monitorVars
  /\ Goto(t, "idle")
  /\ UNCHANGED <<arrive_count, ticket, awaits>>

LeaveBarrier(t) ==
  /\ pc[t] = "leave"
  /\ Release(t)
  /\ Goto(t, "idle")
  /\ UNCHANGED <<arrive_count, ticket, awaits>>

InitializeBarrier ==
  /\ MonitorInit
  /\ arrive_count = 0
  /\ pc = [t \in Threads |-> "idle"]
  /\ ticket = [t \in Threads |-> 0]
  /\ awaits = 0

AwaitBarrier(t) ==
  \/ EnterBarrier(t) \/ Arrive(t) \/ Broadcast(t)
  \/ WaitForOthers(t) \/ WaitForOthersReturns(t) \/ LeaveBarrier(t)

BarrierNext == \E t \in Threads : CallAwaitBarrier(t) \/ AwaitBarrier(t)

BarrierSpec == InitializeBarrier /\ [][BarrierNext]_barrierVars

(* Threads in a call are scheduled, and one that was woken gets the lock   *)
(* back (SignalledReturns of ConditionVariable); nobody has to call.       *)
BarrierFairness ==
  \A t \in Threads : WF_barrierVars(AwaitBarrier(t)) /\ SF_barrierVars(WaitForOthersReturns(t))

BarrierFairSpec == BarrierSpec /\ BarrierFairness

-----------------------------------------------------------------------------
(* Every variable has its type; the lock is never left to a thread that    *)
(* has returned from its call.                                             *)
TypeOK ==
  /\ holder \in {t \in Threads : pc[t] \in {"arrive", "broadcast", "sleep", "leave"}}
                 \cup {InvalidHandle}
  /\ sleeping \subseteq Threads
  /\ arrive_count \in Nat
  /\ pc \in [Threads -> Labels]
  /\ ticket \in [Threads -> Nat]
  /\ awaits \in 0..MaxCalls

(* A thread whose AwaitBarrier has returned, or is about to.               *)
Passed(t) == ticket[t] # 0 /\ pc[t] \in {"leave", "idle", "enter"}

(* Nobody passes before number_to_wait threads have arrived, and nobody    *)
(* passes but those first arrivals: an early wake-up and a late arrival    *)
(* are both kept (AwaitBarrier has no loop around its wait to repair it).  *)
OnlyFirstArrivalsPass ==
  \A t \in Threads :
    Passed(t) => arrive_count >= number_to_wait /\ ticket[t] <= number_to_wait

(* The barrier opens for all: once the last of the first number_to_wait    *)
(* threads has broadcast, none of them is asleep or on its way to sleep.   *)
NobodyIsLeftBehind ==
  (\E t \in Threads : Passed(t)) =>
    \A t \in Threads :
      t \in sleeping \/ pc[t] = "sleep" => ticket[t] > number_to_wait

(* Every one of the first number_to_wait threads returns.                  *)
BarrierOpens ==
  \A t \in Threads :
    (/\ pc[t] \in {"broadcast", "sleep", "wait"}
     /\ ticket[t] <= number_to_wait /\ arrive_count >= number_to_wait)
      ~> Passed(t)

=============================================================================
