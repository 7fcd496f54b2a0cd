------------------------- MODULE MonitorUsersProofs -------------------------
(***************************************************************************)
(* The two components that are built on a Monitor alone, UserEvent and     *)
(* Barrier.  For any set of threads, any number of calls and either kind   *)
(* of event: an auto-clear signal has one taker, and it never stays up     *)
(* with all the waiters asleep.  For any number_to_wait > 0: only the      *)
(* first number_to_wait arrivals pass the barrier, and none of them is     *)
(* left asleep.                                                            *)
(***************************************************************************)
EXTENDS UserEvent, Barrier, TLAPS

-----------------------------------------------------------------------------
EventTypeOK ==
  /\ holder \in Threads \cup {InvalidHandle}
  /\ sleeping \subseteq Threads
  /\ is_signaled \in BOOLEAN
  /\ is_auto_clear \in BOOLEAN
  /\ call \in [Threads -> Functions]
  /\ pc \in [Threads -> {"idle", "enter", "body", "sleep", "wait", "leave"}]
  /\ raised \in Nat
  /\ taken \in Nat

(* Whoever is between Enter and Leave is the holder of the lock.           *)
InsideHolds ==
  \A t \in Threads : pc[t] \in {"body", "sleep", "leave"} => holder = t

(* A thread that found the flag down still has the lock when it gives it   *)
(* up to sleep, so the flag is still down.                                 *)
FlagDownBeforeSleep == \A t \in Threads : pc[t] = "sleep" => ~is_signaled

(* Only waiters sleep, and only in their wait.                             *)
WaitersSleep ==
  /\ \A t \in Threads : pc[t] \in {"sleep", "wait"} => call[t] = "WaitUserEvent"
  /\ \A t \in sleeping : pc[t] = "wait"

(* A signal is taken, still up, or was cleared.                            *)
SignalsCover ==
  is_auto_clear => taken + (IF is_signaled THEN 1 ELSE 0) <= raised

EventIInv ==
  /\ EventTypeOK
  /\ InsideHolds
  /\ FlagDownBeforeSleep
  /\ WaitersSleep
  /\ SignalsCover
  /\ AutoClearSignalHasTaker

USE NobodyAssumption, MaxCallsAssumption, AutoClearModesAssumption

LEMMA InitEvent == Init => EventIInv
BY DEF Init, MonitorInit, InitializeUserEvent, EventIInv, EventTypeOK, Functions, InsideHolds,
       FlagDownBeforeSleep, WaitersSleep, SignalsCover, AutoClearSignalHasTaker

(* What the taker of a raised flag leaves behind.                          *)
Taken ==
  /\ is_signaled' \in BOOLEAN
  /\ is_auto_clear => ~is_signaled'
  /\ taken' = taken + 1
  /\ UNCHANGED <<is_auto_clear, raised>>

LEMMA TakeTakes == Take => Taken
BY DEF Take, Taken

(***************************************************************************)
(* While the flag is up and somebody sleeps, whoever is to take it keeps   *)
(* its place until it does; only SignalUserEvent has to provide one.       *)
(***************************************************************************)
LEMMA StepEvent == EventIInv /\ [Next]_vars => EventIInv'
<1> SUFFICES ASSUME EventIInv, [Next]_vars PROVE EventIInv'
  OBVIOUS
<1> USE DEF EventIInv, EventTypeOK, Functions, InsideHolds, FlagDownBeforeSleep, WaitersSleep,
        SignalsCover, AutoClearSignalHasTaker, Goto, At, eventVars, monitorVars
<1>1. ASSUME NEW t \in Threads, Call(t) PROVE EventIInv'
  BY <1>1 DEF Call
<1>2. ASSUME NEW t \in Threads, Enter(t) PROVE EventIInv'
  BY <1>2 DEF Enter, Acquire
<1>3. ASSUME NEW t \in Threads, Leave(t) PROVE EventIInv'
  BY <1>3 DEF Leave, Release
<1>4. ASSUME NEW t \in Threads, TestFlag(t) PROVE EventIInv'
  <2>1. CASE ~is_signaled /\ Goto(t, "sleep") /\ UNCHANGED <<eventVars, raised, taken>>
    BY <1>4, <2>1 DEF TestFlag
  <2>2. CASE is_signaled /\ Take /\ Goto(t, "leave")
    <3>1. Taken
      BY <2>2, TakeTakes
    <3> QED BY <1>4, <2>2, <3>1 DEF TestFlag, Taken
  <2> QED BY <1>4, <2>1, <2>2 DEF TestFlag
<1>5. ASSUME NEW t \in Threads, Wait(t) PROVE EventIInv'
  BY <1>5 DEF Wait, Sleep
<1>6. ASSUME NEW t \in Threads, WaitReturns(t) PROVE EventIInv'
  BY <1>6 DEF WaitReturns, Acquire
<1>7. ASSUME NEW t \in Threads, IsUserEventSignaled(t) PROVE EventIInv'
  <2>1. CASE is_signaled /\ Take
    <3>1. Taken
      BY <2>1, TakeTakes
    <3> QED BY <1>7, <2>1, <3>1 DEF IsUserEventSignaled, Taken
  <2>2. CASE ~is_signaled /\ UNCHANGED <<eventVars, raised, taken>>
    BY <1>7, <2>2 DEF IsUserEventSignaled
  <2> QED BY <1>7, <2>1, <2>2 DEF IsUserEventSignaled
<1>8. ASSUME NEW t \in Threads, SignalUserEvent(t) PROVE EventIInv'
  <2>1. CASE ~is_signaled /\ Raise /\ SignalOne
    <3>1. is_signaled' /\ is_signaled' \in BOOLEAN
      BY <2>1 DEF Raise
    <3>2. /\ raised' = raised + 1
          /\ UNCHANGED <<is_auto_clear, taken, call, holder>>
          /\ pc' = [pc EXCEPT ![t] = "leave"] /\ pc[t] = "body"
      BY <1>8, <2>1 DEF Raise, SignalOne, SignalUserEvent
    <3>3. \/ sleeping' = {}
          \/ \E s \in sleeping : sleeping' = sleeping \ {s}
      BY <2>1 DEF SignalOne
    <3> QED BY <1>8, <2>1, <3>1, <3>2, <3>3 DEF SignalUserEvent
  <2>2. CASE is_signaled /\ UNCHANGED <<eventVars, raised, taken, monitorVars>>
    BY <1>8, <2>2 DEF SignalUserEvent
  <2> QED BY <1>8, <2>1, <2>2 DEF SignalUserEvent
<1>9. ASSUME NEW t \in Threads, ClearUserEvent(t) PROVE EventIInv'
  <2>1. ~is_signaled' /\ is_signaled' \in BOOLEAN
    BY <1>9 DEF ClearUserEvent
  <2> QED BY <1>9, <2>1 DEF ClearUserEvent
<1>10. CASE UNCHANGED vars
  BY <1>10 DEF vars
<1> QED
  BY <1>1, <1>2, <1>3, <1>4, <1>5, <1>6, <1>7, <1>8, <1>9, <1>10 DEF Next, Step

LEMMA EventInvariance == Spec => []EventIInv
BY InitEvent, StepEvent, PTL DEF Spec

(* With auto-clear, at most one wait or query is told of each signal.      *)
THEOREM OneTaker == Spec => []OneTakerPerSignal
<1>1. EventIInv => OneTakerPerSignal
  BY DEF EventIInv, EventTypeOK, SignalsCover, OneTakerPerSignal
<1> QED BY <1>1, EventInvariance, PTL

(* An auto-clear flag is never up beside sleepers only.                    *)
THEOREM SignalHasTaker == Spec => []AutoClearSignalHasTaker
<1>1. EventIInv => AutoClearSignalHasTaker
  BY DEF EventIInv
<1> QED BY <1>1, EventInvariance, PTL
-----------------------------------------------------------------------------
(* Whoever is between Enter and Leave is the holder of the lock.           *)
ArriversHold ==
  \A t \in Threads :
    pc[t] \in {"arrive", "broadcast", "sleep", "leave"} => holder = t

SleepersWait == \A t \in sleeping : pc[t] = "wait"

(* The barrier is open once the last of the first number_to_wait arrivals  *)
(* has broadcast.                                                          *)
Open ==
  /\ arrive_count >= number_to_wait
  /\ \A t \in Threads : pc[t] # "broadcast"

(* Until then, whoever has arrived is on the way to sleep or asleep, or is *)
(* the last one and about to broadcast.                                    *)
WhileClosed ==
  ~Open =>
    /\ arrive_count <= number_to_wait
    /\ \A t \in Threads :
         /\ pc[t] \in {"idle", "enter", "arrive"} => ticket[t] = 0
         /\ pc[t] = "wait" => t \in sleeping
         /\ pc[t] # "leave"
         /\ ticket[t] <= number_to_wait
         /\ pc[t] = "broadcast" =>
              ticket[t] = number_to_wait /\ arrive_count = number_to_wait

(* From then on the first arrivals are awake and the late ones asleep.     *)
OnceOpen ==
  Open =>
    \A t \in Threads :
      /\ t \in sleeping \/ pc[t] = "sleep" => ticket[t] > number_to_wait
      /\ t \notin sleeping /\ pc[t] # "sleep" => ticket[t] <= number_to_wait

BarrierIInv == TypeOK /\ ArriversHold /\ SleepersWait /\ WhileClosed /\ OnceOpen

USE NumberAssumption

LEMMA InitBarrier == InitializeBarrier => BarrierIInv
BY DEF InitializeBarrier, MonitorInit, BarrierIInv, TypeOK, Labels, ArriversHold, SleepersWait,
       WhileClosed, OnceOpen, Open

LEMMA StepBarrier == BarrierIInv /\ [BarrierNext]_barrierVars => BarrierIInv'
<1> SUFFICES ASSUME BarrierIInv, [BarrierNext]_barrierVars PROVE BarrierIInv'
  OBVIOUS
<1> USE DEF BarrierIInv, TypeOK, Labels, ArriversHold, SleepersWait, WhileClosed,
        OnceOpen, Open, Goto
<1>1. ASSUME NEW t \in Threads, CallAwaitBarrier(t) PROVE BarrierIInv'
  BY <1>1 DEF CallAwaitBarrier, monitorVars
<1>2. ASSUME NEW t \in Threads, EnterBarrier(t) PROVE BarrierIInv'
  BY <1>2 DEF EnterBarrier, Acquire
<1>3. ASSUME NEW t \in Threads, Arrive(t) PROVE BarrierIInv'
  BY <1>3 DEF Arrive, monitorVars
<1>4. ASSUME NEW t \in Threads, Broadcast(t) PROVE BarrierIInv'
  BY <1>4 DEF Broadcast, SignalAll
<1>5. ASSUME NEW t \in Threads, WaitForOthers(t) PROVE BarrierIInv'
  BY <1>5 DEF WaitForOthers, Sleep
<1>6. ASSUME NEW t \in Threads, WaitForOthersReturns(t) PROVE BarrierIInv'
  BY <1>6 DEF WaitForOthersReturns, Acquire
<1>7. ASSUME NEW t \in Threads, LeaveBarrier(t) PROVE BarrierIInv'
  BY <1>7 DEF LeaveBarrier, Release
<1>8. CASE UNCHANGED barrierVars
  BY <1>8 DEF barrierVars, monitorVars
<1> QED
  BY <1>1, <1>2, <1>3, <1>4, <1>5, <1>6, <1>7, <1>8 DEF BarrierNext, AwaitBarrier

LEMMA BarrierInvariance == BarrierSpec => []BarrierIInv
BY InitBarrier, StepBarrier, PTL DEF BarrierSpec

(* Every variable keeps its type, and no call returns with the lock.       *)
THEOREM TypeCorrect == BarrierSpec => []TypeOK
BY BarrierInvariance, PTL DEF BarrierIInv

(* Nobody passes the barrier early, and nobody but the first arrivals.     *)
THEOREM FirstArrivals == BarrierSpec => []OnlyFirstArrivalsPass
<1>1. BarrierIInv => OnlyFirstArrivalsPass
  BY DEF BarrierIInv, TypeOK, WhileClosed, OnceOpen, Open, SleepersWait,
         OnlyFirstArrivalsPass, Passed
<1> QED BY <1>1, BarrierInvariance, PTL

(* As soon as one thread passes, none of the first arrivals is asleep.     *)
THEOREM OpensForAll == BarrierSpec => []NobodyIsLeftBehind
<1>1. BarrierIInv => NobodyIsLeftBehind
  BY DEF BarrierIInv, TypeOK, WhileClosed, OnceOpen, Open, NobodyIsLeftBehind, Passed
<1> QED BY <1>1, BarrierInvariance, PTL

=============================================================================
