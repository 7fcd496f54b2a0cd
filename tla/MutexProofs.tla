---------------------------- MODULE MutexProofs ----------------------------
(***************************************************************************)
(* For any set of threads, any range of the counter and any nesting: a     *)
(* mutex locked by TryLockMutex alone excludes, also across waits; the     *)
(* owner field of a mutex that is not recursive is honest; and a recursive *)
(* mutex of one thread counts its locks.                                   *)
(*                                                                         *)
(* What can happen depends on how the program uses the mutex, which is     *)
(* settled in the initial state, so the invariant is in three parts.       *)
(***************************************************************************)
EXTENDS Mutex, TLAPS

USE HandleAssumption

(* How the program uses the mutex does not change.                         *)
ProgramOK ==
  /\ is_recursive \in BOOLEAN
  /\ functions \in SUBSET Functions
  /\ users \in SUBSET Threads
  /\ nesting \in Nat

LEMMA ProgramSettled ==
  [Next]_vars => UNCHANGED <<is_recursive, functions, users, nesting>>
BY DEF Next, vars, program, mutexVars, Wait, WaitReturns, Notify, Timer,
       LockMutex, LockTest, LockEnter, LockOwn, LockDone, LockLoad, LockStore, TryLockMutex,
       TryTest, TryEnter, TryLoad, TryStore, TryOwn, UnlockMutex, Unlock, UnlockLoad,
       UnlockStore, UnlockTest, Disown, Leave, Load, Store, SetOwner

LEMMA InitProgram == Init => ProgramOK
BY DepthAssumption DEF Init, ProgramOK, InitializeMutex

-----------------------------------------------------------------------------
(***************************************************************************)
(* A program that only tries to lock and may wait: what a thread does with *)
(* its mutex is what a client of ConditionVariable does with its critical  *)
(* section, and the owner field is written on the way.                     *)
(***************************************************************************)
ClientLabel(label, locks) ==
  CASE label = "idle" -> IF locks = 0 THEN "idle" ELSE "inside"
    [] label = "try" -> "idle"
    [] label \in {"tryOwn", "disown", "leave"} -> "inside"
    [] OTHER -> label

ClientPc == [t \in Threads |-> ClientLabel(pc[t], depth[t])]

Client == INSTANCE LockProofs
            WITH pc <- ClientPc, Timeouts <- {"zero", "finite", "infinite"}

InWait == {"wait", "enter", "listen", "arbitrate"}

InCall == {"try", "tryOwn", "disown", "leave", "unlock"}

WaitTypes ==
  /\ pc \in [Threads -> {"idle"} \cup InWait \cup InCall]
  /\ depth \in [Threads -> {0, 1}]
  /\ \A t \in Threads :
       /\ pc[t] \in InWait => depth[t] = 1
       /\ pc[t] \in InCall => depth[t] = 0

(* owner is honest but for threads that wait, and whoever is on its way    *)
(* out has withdrawn its name.                                             *)
OwnerAcrossWaits ==
  /\ owner \in Threads \cup {InvalidHandle}
  /\ owner # InvalidHandle => image.owner = owner \/ Waiting(owner)
  /\ \A t \in Threads : pc[t] \in {"leave", "unlock"} => owner # t

WaitIInv == MayWait => WaitTypes /\ OwnerAcrossWaits /\ Client!IInv

LEMMA InitClient == Init => Client!CVInit
<1> SUFFICES ASSUME Init PROVE Client!CVInit
  OBVIOUS
<1>1. ClientPc = [t \in Threads |-> "idle"]
  BY DEF Init, ClientPc, ClientLabel
<1> QED BY <1>1 DEF Init, Client!CVInit, Client!Init, Client!KernelInit, KernelInit,
                    Client!KeysInit, KeysInit, Client!Unlocked, Unlocked

LEMMA InitWait == Init => WaitIInv
<1> SUFFICES ASSUME Init PROVE WaitTypes /\ OwnerAcrossWaits /\ Client!IInv
  BY DEF WaitIInv
<1>1. pc = [t \in Threads |-> "idle"] /\ depth = [t \in Threads |-> 0] /\ owner = InvalidHandle
  BY DEF Init, InitializeMutex
<1>2. Client!IInv
  BY InitClient, Client!InitIInv
<1> QED BY <1>1, <1>2 DEF WaitTypes, OwnerAcrossWaits, InWait, InCall

LEMMA ClientMove ==
  ASSUME WaitTypes, NEW t \in Threads, NEW label,
         pc' = [pc EXCEPT ![t] = label],
         \A u \in Threads \ {t} : depth'[u] = depth[u]
  PROVE  ClientPc' = [ClientPc EXCEPT ![t] = ClientLabel(label, depth'[t])]
BY DEF WaitTypes, ClientPc

(* Every step of such a program is a step of the client, or changes        *)
(* nothing it sees.                                                        *)
LEMMA ClientStep ==
  ASSUME MayWait, ProgramOK, WaitTypes, Next
  PROVE  WaitTypes' /\ [Client!CVNext]_(Client!cvVars)
<1> USE DEF Goto, CS!Goto, CV!Goto, Client!Goto, InWait, InCall, kernelVars,
            Client!kernelVars, Client!keyVars, Client!waitVars, waitVars, keyVars, mutexVars
<1> DEFINE Quiet == UNCHANGED <<kernelVars, waitVars, expected>>
<1>1. nesting = 1 /\ ~is_recursive /\ "LockMutex" \notin functions
  BY DEF MayWait
<1>2. ASSUME NEW t \in Threads, TryTest(t), UNCHANGED waitVars
      PROVE  WaitTypes' /\ UNCHANGED Client!cvVars
  <2>1. /\ pc[t] = "idle" /\ depth[t] = 0 /\ pc' = [pc EXCEPT ![t] = "try"]
        /\ Quiet /\ depth' = depth
    BY <1>1, <1>2 DEF TryTest, WaitTypes
  <2>2. ClientPc' = ClientPc
    BY <2>1, ClientMove DEF ClientPc, ClientLabel
  <2>3. WaitTypes'
    BY <2>1 DEF WaitTypes
  <2> QED BY <2>1, <2>2, <2>3 DEF Client!cvVars, Client!vars
<1>3. ASSUME NEW t \in Threads, TryEnter(t), UNCHANGED waitVars
      PROVE  WaitTypes' /\ Client!Arrive(t)
  <2>1. CASE CS!TryEnter(t, "try", "tryOwn")
    <3>1. /\ pc[t] = "try" /\ pc' = [pc EXCEPT ![t] = "tryOwn"] /\ depth' = depth
      BY <1>1, <1>3, <2>1 DEF TryEnter, CS!TryEnter
    <3>2. ClientPc[t] = "idle" /\ ClientPc' = [ClientPc EXCEPT ![t] = "inside"]
      BY <3>1, ClientMove DEF ClientPc, ClientLabel
    <3>3. WaitTypes'
      BY <3>1 DEF WaitTypes
    <3> QED BY <1>3, <2>1, <3>2, <3>3
            DEF Client!Arrive, Client!TryEnter, CS!TryEnter, CS!Unlocked, CS!HeldBy,
                Client!Unlocked, Client!HeldBy
  <2>2. CASE CS!TryEnterFails(t, "try", "idle")
    <3>1. /\ pc[t] = "try" /\ pc' = [pc EXCEPT ![t] = "idle"] /\ depth' = depth
          /\ depth[t] = 0
      BY <1>1, <1>3, <2>2 DEF TryEnter, CS!TryEnterFails, WaitTypes
    <3>2. ClientPc[t] = "idle" /\ ClientPc' = [ClientPc EXCEPT ![t] = "idle"]
      BY <3>1, ClientMove DEF ClientPc, ClientLabel
    <3>3. WaitTypes'
      BY <3>1 DEF WaitTypes
    <3> QED BY <1>3, <2>2, <3>2, <3>3
            DEF Client!Arrive, Client!TryEnterFails, CS!TryEnterFails
  <2> QED BY <1>1, <1>3, <2>1, <2>2 DEF TryEnter
<1>4. ASSUME NEW t \in Threads, TryOwn(t), UNCHANGED waitVars
      PROVE  WaitTypes' /\ UNCHANGED Client!cvVars
  <2>1. /\ pc[t] = "tryOwn" /\ pc' = [pc EXCEPT ![t] = "idle"] /\ Quiet
        /\ depth[t] = 0 /\ depth' = [depth EXCEPT ![t] = 1]
    <3>1. pc[t] = "tryOwn" /\ depth' = [depth EXCEPT ![t] = depth[t] + 1]
      BY <1>4 DEF TryOwn, Granted
    <3>2. depth[t] = 0 /\ depth[t] + 1 = 1
      BY <3>1 DEF WaitTypes
    <3> QED BY <1>4, <3>1, <3>2 DEF TryOwn, Granted
  <2>2. ClientPc' = ClientPc
    BY <2>1, ClientMove DEF ClientPc, ClientLabel, WaitTypes
  <2>3. WaitTypes'
    BY <2>1 DEF WaitTypes
  <2> QED BY <2>1, <2>2, <2>3 DEF Client!cvVars, Client!vars
<1>5. ASSUME NEW t \in Threads, Unlock(t), UNCHANGED waitVars
      PROVE  WaitTypes' /\ UNCHANGED Client!cvVars
  <2>1. /\ pc[t] = "idle" /\ pc' = [pc EXCEPT ![t] = "disown"] /\ Quiet
        /\ depth[t] = 1 /\ depth' = [depth EXCEPT ![t] = 0]
    <3>1. depth[t] > 0 /\ depth' = [depth EXCEPT ![t] = depth[t] - 1]
      BY <1>5 DEF Unlock
    <3>2. depth[t] = 1 /\ depth[t] - 1 = 0
      BY <3>1 DEF WaitTypes
    <3> QED BY <1>1, <1>5, <3>1, <3>2 DEF Unlock
  <2>2. ClientPc' = ClientPc
    BY <2>1, ClientMove DEF ClientPc, ClientLabel, WaitTypes
  <2>3. WaitTypes'
    BY <2>1 DEF WaitTypes
  <2> QED BY <2>1, <2>2, <2>3 DEF Client!cvVars, Client!vars
<1>6. ASSUME NEW t \in Threads, Disown(t), UNCHANGED waitVars
      PROVE  WaitTypes' /\ UNCHANGED Client!cvVars
  <2>1. /\ pc[t] = "disown" /\ pc' = [pc EXCEPT ![t] = "leave"] /\ Quiet
        /\ depth' = depth
    BY <1>6 DEF Disown
  <2>2. ClientPc' = ClientPc
    BY <2>1, ClientMove DEF ClientPc, ClientLabel
  <2>3. WaitTypes'
    BY <2>1 DEF WaitTypes
  <2> QED BY <2>1, <2>2, <2>3 DEF Client!cvVars, Client!vars
<1>7. ASSUME NEW t \in Threads, Leave(t), UNCHANGED waitVars
      PROVE  WaitTypes' /\ Client!Leaves(t)
  <2>1. CASE CS!LeaveCas(t, "leave", "idle")
    <3>1. PICK label \in {"idle", "unlock"} :
            /\ pc[t] = "leave" /\ pc' = [pc EXCEPT ![t] = label] /\ depth' = depth
            /\ depth[t] = 0 /\ CS!LeaveCas(t, "leave", "idle")
      BY <1>7, <2>1 DEF Leave, CS!LeaveCas, WaitTypes
    <3>2. ClientPc[t] = "inside" /\ ClientPc' = [ClientPc EXCEPT ![t] = label]
      BY <3>1, ClientMove DEF ClientPc, ClientLabel
    <3>3. WaitTypes'
      BY <3>1 DEF WaitTypes
    <3>4. pc'[t] = label
      BY <3>1 DEF WaitTypes
    <3>5. Client!LeaveCas(t, "inside", "idle")
      BY <3>1, <3>2, <3>4 DEF CS!LeaveCas, Client!LeaveCas, CS!Unlocked, CS!HeldBy,
                Client!Unlocked, Client!HeldBy, WaitTypes
    <3> QED BY <1>7, <3>3, <3>5 DEF Client!Leaves, Client!LeaveStep
  <2>2. CASE CS!ArbitrateUnlock(t, "idle")
    <3>1. /\ pc[t] = "unlock" /\ pc' = [pc EXCEPT ![t] = "idle"] /\ depth' = depth
          /\ depth[t] = 0
      BY <1>7, <2>2 DEF Leave, CS!ArbitrateUnlock, WaitTypes
    <3>2. ClientPc[t] = "unlock" /\ ClientPc' = [ClientPc EXCEPT ![t] = "idle"]
      BY <3>1, ClientMove DEF ClientPc, ClientLabel
    <3>3. WaitTypes'
      BY <3>1 DEF WaitTypes
    <3> QED BY <1>7, <2>2, <3>2, <3>3
            DEF Client!Leaves, Client!LeaveStep, Client!ArbitrateUnlock,
                CS!ArbitrateUnlock, Client!GiveUp, CS!GiveUp, CS!HandOver,
                Client!HandOver, CS!Unlocked, Client!Unlocked
  <2> QED BY <1>7, <2>1, <2>2 DEF Leave
<1>8. ASSUME NEW t \in Threads, Wait(t)
      PROVE  WaitTypes' /\ Client!WaitStep(t)
  <2>1. PICK time \in {"zero", "finite", "infinite"} : CV!Wait(t, time, "idle")
    BY <1>8 DEF Wait
  <2>2. /\ pc[t] = "idle" /\ pc' = [pc EXCEPT ![t] = "wait"] /\ depth' = depth
        /\ depth[t] = 1
    BY <1>8, <2>1 DEF Wait, CV!Wait
  <2>3. ClientPc[t] = "inside" /\ ClientPc' = [ClientPc EXCEPT ![t] = "wait"]
    <3>1. ClientPc' = [ClientPc EXCEPT ![t] = ClientLabel("wait", depth'[t])]
      BY <2>2, ClientMove
    <3> QED BY <2>2, <3>1 DEF ClientPc, ClientLabel
  <2>4. WaitTypes'
    BY <2>2 DEF WaitTypes
  <2> QED BY <2>1, <2>3, <2>4
          DEF Client!WaitStep, Client!Wait, CV!Wait, Client!WaitKeyAtomic, CV!WaitKeyAtomic,
              CV!GiveUp, Client!GiveUp, CV!HandOver, Client!HandOver, CV!Unlocked,
              Client!Unlocked
<1>9. ASSUME NEW t \in Threads, WaitReturns(t)
      PROVE  WaitTypes' /\ (Client!WaitReturns(t, "inside") \/ Client!Enters(t))
  <2>1. CASE CV!WaitReturns(t, "idle")
    <3>1. PICK label \in {"idle", "enter"} :
            /\ pc[t] = "wait" /\ pc' = [pc EXCEPT ![t] = label] /\ depth' = depth
            /\ label = "idle" => result[t] = "ok"
            /\ label = "enter" => result[t] = "timedOut" /\ timeout[t] # "infinite"
            /\ ~CV!Queued(t) /\ CV!Forget(t)
      BY <1>9, <2>1 DEF WaitReturns, CV!WaitReturns
    <3>2. depth[t] = 1 /\ WaitTypes'
      BY <3>1 DEF WaitTypes
    <3>3. /\ ClientPc[t] = "wait"
          /\ ClientPc' = [ClientPc EXCEPT ![t] = IF label = "idle" THEN "inside" ELSE "enter"]
      <4>1. ClientPc' = [ClientPc EXCEPT ![t] = ClientLabel(label, depth'[t])]
        BY <3>1, ClientMove
      <4>2. ClientLabel(label, depth'[t]) = IF label = "idle" THEN "inside" ELSE "enter"
        BY <3>1, <3>2 DEF ClientLabel
      <4> QED BY <3>1, <4>1, <4>2 DEF ClientPc, ClientLabel
    <3>4. ~Client!Queued(t) /\ Client!Forget(t)
      BY <3>1 DEF CV!Queued, Client!Queued, CV!Asleep, Client!Asleep, CV!Forget,
                  Client!Forget, CV!kernelVars
    <3>5. Client!WaitReturns(t, "inside")
      BY <3>1, <3>3, <3>4 DEF Client!WaitReturns
    <3> QED BY <3>2, <3>5
  <2>2. CASE CS!EnterCas(t, "idle") /\ UNCHANGED waitVars
    <3>1. PICK label \in {"idle", "arbitrate", "listen"} :
            /\ pc[t] = "enter" /\ pc' = [pc EXCEPT ![t] = label] /\ depth' = depth
            /\ ~CS!Asleep(t) /\ UNCHANGED <<waiters, waitVars>>
            /\ \/ /\ image = CS!Unlocked /\ image' = CS!HeldBy(t)
                  /\ label = "idle" /\ UNCHANGED expected
               \/ image.owner = t /\ label = "idle" /\ UNCHANGED <<image, expected>>
               \/ /\ image.owner \notin {t, InvalidHandle}
                  /\ label = IF image.listeners THEN "arbitrate" ELSE "listen"
                  /\ expected' = [expected EXCEPT ![t] = image.owner]
                  /\ UNCHANGED image
      BY <1>9, <2>2 DEF WaitReturns, CS!EnterCas
    <3>2. depth[t] = 1 /\ WaitTypes'
      BY <3>1 DEF WaitTypes
    <3>3. /\ ClientPc[t] = "enter"
          /\ ClientPc' = [ClientPc EXCEPT ![t] = IF label = "idle" THEN "inside" ELSE label]
      <4>1. ClientPc' = [ClientPc EXCEPT ![t] = ClientLabel(label, depth'[t])]
        BY <3>1, ClientMove
      <4>2. ClientLabel(label, depth'[t]) = IF label = "idle" THEN "inside" ELSE label
        BY <3>1, <3>2 DEF ClientLabel
      <4> QED BY <3>1, <4>1, <4>2 DEF ClientPc, ClientLabel
    <3>4. Client!EnterCas(t, "inside")
      BY <3>1, <3>3
         DEF Client!EnterCas, CS!Unlocked, CS!HeldBy, Client!Unlocked,
             Client!HeldBy, CS!Asleep, Client!Asleep
    <3> QED BY <2>2, <3>2, <3>4 DEF Client!Enters, Client!EnterStep
  <2>3. CASE CS!SetListeners(t) /\ UNCHANGED waitVars
    <3>1. PICK label \in {"arbitrate", "enter"} :
            /\ pc[t] = "listen" /\ pc' = [pc EXCEPT ![t] = label] /\ depth' = depth
            /\ \/ /\ image = CS!HeldBy(expected[t]) /\ image' = CS!Contended(expected[t])
                  /\ label = "arbitrate" /\ UNCHANGED expected
               \/ /\ image # CS!HeldBy(expected[t]) /\ label = "enter"
                  /\ expected' = [expected EXCEPT ![t] = InvalidHandle]
                  /\ UNCHANGED image
            /\ UNCHANGED waiters
      BY <1>9, <2>3 DEF WaitReturns, CS!SetListeners
    <3>2. depth[t] = 1 /\ WaitTypes'
      BY <3>1 DEF WaitTypes
    <3>3. ClientPc[t] = "listen" /\ ClientPc' = [ClientPc EXCEPT ![t] = label]
      <4>1. ClientPc' = [ClientPc EXCEPT ![t] = ClientLabel(label, depth'[t])]
        BY <3>1, ClientMove
      <4> QED BY <3>1, <4>1 DEF ClientPc, ClientLabel
    <3>4. Client!SetListeners(t)
      BY <3>1, <3>3 DEF Client!SetListeners, CS!HeldBy, Client!HeldBy, CS!Contended,
                        Client!Contended
    <3> QED BY <2>3, <3>2, <3>4 DEF Client!Enters, Client!EnterStep
  <2>4. CASE CS!ArbitrateLock(t) /\ UNCHANGED waitVars
    <3>1. /\ pc[t] = "arbitrate" /\ pc' = [pc EXCEPT ![t] = "enter"] /\ depth' = depth
          /\ CS!SleepBehind(t, expected[t])
          /\ expected' = [expected EXCEPT ![t] = InvalidHandle]
      BY <1>9, <2>4 DEF WaitReturns, CS!ArbitrateLock
    <3>2. depth[t] = 1 /\ WaitTypes'
      BY <3>1 DEF WaitTypes
    <3>3. ClientPc[t] = "arbitrate" /\ ClientPc' = [ClientPc EXCEPT ![t] = "enter"]
      <4>1. ClientPc' = [ClientPc EXCEPT ![t] = ClientLabel("enter", depth'[t])]
        BY <3>1, ClientMove
      <4> QED BY <3>1, <4>1 DEF ClientPc, ClientLabel
    <3>4. Client!ArbitrateLock(t)
      BY <3>1, <3>3 DEF Client!ArbitrateLock, CS!SleepBehind, Client!SleepBehind,
                        CS!Contended, Client!Contended
    <3> QED BY <2>4, <3>2, <3>4 DEF Client!Enters, Client!EnterStep
  <2> QED BY <1>9, <2>1, <2>2, <2>3, <2>4 DEF WaitReturns
<1>10. ASSUME NEW t \in Threads, Notify(t)
       PROVE  WaitTypes' /\ Client!Notify(t)
  <2>1. pc[t] = "idle" /\ pc' = pc /\ depth' = depth /\ UNCHANGED <<expected, timeout>>
    BY <1>10 DEF Notify, CV!Signal, CV!Broadcast
  <2>2. ClientPc[t] \in {"idle", "inside"} /\ ClientPc' = ClientPc /\ WaitTypes'
    BY <2>1 DEF ClientPc, ClientLabel, WaitTypes
  <2>3. Client!Signal \/ Client!Broadcast
    BY <1>10, <2>1, <2>2
       DEF Notify, CV!Signal, CV!Broadcast, Client!Signal, Client!Broadcast, CV!SignalKey,
           Client!SignalKey, CV!Wake, Client!Wake, CV!kernelVars, CV!keyVars
  <2> QED BY <2>2, <2>3 DEF Client!Notify
<1>11. ASSUME NEW t \in Threads, Timer(t)
       PROVE  WaitTypes' /\ Client!Timer(t)
  <2>1. pc[t] = "wait" /\ pc' = pc /\ depth' = depth /\ UNCHANGED <<expected, timeout>>
    BY <1>11 DEF Timer, CV!Timer
  <2>2. ClientPc[t] = "wait" /\ ClientPc' = ClientPc /\ WaitTypes'
    BY <2>1 DEF ClientPc, ClientLabel, WaitTypes
  <2> QED BY <1>11, <2>1, <2>2
          DEF Timer, CV!Timer, Client!Timer, CV!Expire, Client!Expire, CV!Queued,
              Client!Queued, CV!Asleep, Client!Asleep
<1>12. ASSUME NEW t \in Threads
       PROVE  ~(\/ LockMutex(t) \/ TryLoad(t) \/ TryStore(t)
                \/ UnlockLoad(t) \/ UnlockStore(t) \/ UnlockTest(t))
  BY <1>1 DEF WaitTypes, LockMutex, LockTest, LockEnter, LockOwn, LockDone, LockLoad,
              LockStore, TryLoad, TryStore, UnlockLoad, UnlockStore, UnlockTest, Load, Granted
<1> QED
  <2>1. PICK t \in users :
          \/ (LockMutex(t) \/ TryLockMutex(t) \/ UnlockMutex(t)) /\ UNCHANGED waitVars
          \/ Wait(t) \/ WaitReturns(t) \/ Notify(t) \/ Timer(t)
    BY DEF Next
  <2>2. t \in Threads
    BY DEF ProgramOK
  <2> QED BY <2>1, <2>2, <1>2, <1>3, <1>4, <1>5, <1>6, <1>7, <1>8, <1>9, <1>10, <1>11, <1>12
          DEF TryLockMutex, UnlockMutex, Client!CVNext

(* What the client's invariant says of the mutex: whoever is in possession *)
(* of it has its handle in the lock word.                                  *)
LEMMA PossessorOwns ==
  ASSUME MayWait, WaitTypes, Client!IInv, NEW t \in Threads
  PROVE  /\ depth[t] > 0 /\ ~Waiting(t) => image.owner = t
         /\ pc[t] \in {"tryOwn", "disown", "leave", "unlock"} => image.owner = t
<1>1. ClientPc[t] \in {"inside", "unlock"} => image.owner = t
  BY DEF Client!IInv, Client!WokenOwnsTheLock
<1> QED BY <1>1 DEF WaitTypes, InWait, InCall, Waiting, ClientPc, ClientLabel

LEMMA OwnerStep ==
  ASSUME MayWait, ProgramOK, WaitTypes, OwnerAcrossWaits, Client!IInv, Next
  PROVE  OwnerAcrossWaits'
<1> USE DEF Goto, CS!Goto, CV!Goto, InWait, InCall, kernelVars, waitVars, keyVars, mutexVars,
            WaitTypes, OwnerAcrossWaits, Waiting
<1>1. nesting = 1 /\ ~is_recursive /\ "LockMutex" \notin functions
  BY DEF MayWait
<1>2. MayWait'
  BY ProgramSettled DEF MayWait
<1>3. ASSUME NEW t \in Threads, TryTest(t) \/ Unlock(t), UNCHANGED waitVars
      PROVE  OwnerAcrossWaits'
  BY <1>1, <1>2, <1>3 DEF TryTest, Unlock
<1>4. ASSUME NEW t \in Threads, TryEnter(t), UNCHANGED waitVars PROVE OwnerAcrossWaits'
  BY <1>1, <1>2, <1>4 DEF TryEnter, CS!TryEnter, CS!TryEnterFails, CS!Unlocked, CS!HeldBy
<1>5. ASSUME NEW t \in Threads, TryOwn(t), UNCHANGED waitVars PROVE OwnerAcrossWaits'
  <2>1. image.owner = t /\ pc[t] = "tryOwn"
    BY <1>5, PossessorOwns DEF TryOwn, Granted
  <2> QED BY <1>2, <1>5, <2>1 DEF TryOwn, Granted, SetOwner
<1>6. ASSUME NEW t \in Threads, Disown(t), UNCHANGED waitVars PROVE OwnerAcrossWaits'
  BY <1>2, <1>6 DEF Disown
<1>7. ASSUME NEW t \in Threads, Leave(t), UNCHANGED waitVars PROVE OwnerAcrossWaits'
  <2>1. image.owner = t /\ pc[t] \in {"leave", "unlock"}
    BY <1>7, PossessorOwns DEF Leave, CS!LeaveCas, CS!ArbitrateUnlock
  <2>2. owner # t /\ owner' = owner
    BY <1>7, <2>1 DEF Leave
  <2>3. \A u \in Threads \ {t} : pc'[u] = pc[u]
    BY <1>7 DEF Leave, CS!LeaveCas, CS!ArbitrateUnlock
  <2> QED BY <1>2, <2>1, <2>2, <2>3
<1>8. ASSUME NEW t \in Threads, Wait(t) PROVE OwnerAcrossWaits'
  <2>1. pc[t] = "idle" /\ depth[t] > 0 /\ pc' = [pc EXCEPT ![t] = "wait"] /\ owner' = owner
    BY <1>8 DEF Wait, CV!Wait
  <2>2. image.owner = t
    BY <2>1, PossessorOwns
  <2> QED BY <1>2, <2>1, <2>2
<1>9. ASSUME NEW t \in Threads, WaitReturns(t) PROVE OwnerAcrossWaits'
  <2>1. CASE CV!WaitReturns(t, "idle")
    <3>1. image' = image /\ owner' = owner /\ pc[t] = "wait"
      BY <1>9, <2>1 DEF WaitReturns, CV!WaitReturns, CV!Forget, CV!kernelVars
    <3>2. \/ pc' = [pc EXCEPT ![t] = "enter"]
          \/ pc' = [pc EXCEPT ![t] = "idle"] /\ image.owner = t
      <4>1. result[t] = "ok" /\ ~CV!Queued(t) => image.owner = t
        BY <3>1 DEF Client!IInv, Client!WokenOwnsTheLock, ClientPc, ClientLabel,
                    Client!Queued, Client!Asleep, CV!Queued, CV!Asleep
      <4> QED BY <2>1, <4>1 DEF CV!WaitReturns
    <3> QED BY <1>2, <3>1, <3>2
  <2>2. CASE CS!EnterCas(t, "idle") /\ UNCHANGED waitVars
    BY <1>2, <1>9, <2>2 DEF WaitReturns, CS!EnterCas, CS!Unlocked, CS!HeldBy
  <2>3. CASE CS!SetListeners(t) /\ UNCHANGED waitVars
    <3>1. /\ image'.owner = image.owner /\ owner' = owner
          /\ pc[t] = "listen"
          /\ pc' = [pc EXCEPT ![t] = "arbitrate"] \/ pc' = [pc EXCEPT ![t] = "enter"]
      BY <1>9, <2>3 DEF WaitReturns, CS!SetListeners, CS!HeldBy, CS!Contended
    <3> QED BY <1>2, <3>1
  <2>4. CASE CS!ArbitrateLock(t) /\ UNCHANGED waitVars
    BY <1>2, <1>9, <2>4 DEF WaitReturns, CS!ArbitrateLock, CS!SleepBehind
  <2> QED BY <1>9, <2>1, <2>2, <2>3, <2>4 DEF WaitReturns
<1>10. ASSUME NEW t \in Threads, Notify(t) PROVE OwnerAcrossWaits'
  <2>1. pc' = pc /\ owner' = owner
    BY <1>10 DEF Notify, CV!Signal, CV!Broadcast
  <2>2. image.owner # InvalidHandle => image'.owner = image.owner
    BY <1>10 DEF Notify, CV!Signal, CV!Broadcast, CV!SignalKey, CV!Wake, CV!kernelVars
  <2> QED BY <1>2, <2>1, <2>2
<1>11. ASSUME NEW t \in Threads, Timer(t) PROVE OwnerAcrossWaits'
  BY <1>2, <1>11 DEF Timer, CV!Timer, CV!Expire
<1>12. ASSUME NEW t \in Threads
       PROVE  ~(\/ LockMutex(t) \/ TryLoad(t) \/ TryStore(t)
                \/ UnlockLoad(t) \/ UnlockStore(t) \/ UnlockTest(t))
  BY <1>1 DEF LockMutex, LockTest, LockEnter, LockOwn, LockDone, LockLoad,
              LockStore, TryLoad, TryStore, UnlockLoad, UnlockStore, UnlockTest, Load, Granted
<1> QED
  <2>1. PICK t \in users :
          \/ (LockMutex(t) \/ TryLockMutex(t) \/ UnlockMutex(t)) /\ UNCHANGED waitVars
          \/ Wait(t) \/ WaitReturns(t) \/ Notify(t) \/ Timer(t)
    BY DEF Next
  <2>2. t \in Threads
    BY DEF ProgramOK
  <2> QED BY <2>1, <2>2, <1>3, <1>4, <1>5, <1>6, <1>7, <1>8, <1>9, <1>10, <1>11, <1>12
          DEF TryLockMutex, UnlockMutex

LEMMA ClientStutters == UNCHANGED vars => UNCHANGED Client!cvVars
BY DEF vars, waitVars, keyVars, kernelVars, Client!cvVars, Client!vars, Client!waitVars,
       Client!keyVars, ClientPc

LEMMA StepWait == ProgramOK /\ WaitIInv /\ [Next]_vars => WaitIInv'
<1> SUFFICES ASSUME ProgramOK, WaitIInv, [Next]_vars, MayWait'
             PROVE  WaitTypes' /\ OwnerAcrossWaits' /\ Client!IInv'
  BY DEF WaitIInv
<1>1. MayWait
  BY ProgramSettled DEF MayWait
<1>2. WaitTypes /\ OwnerAcrossWaits /\ Client!IInv
  BY <1>1 DEF WaitIInv
<1>3. CASE Next
  BY <1>1, <1>2, <1>3, ClientStep, OwnerStep, Client!StepIInv
<1>4. CASE UNCHANGED vars
  <2>1. UNCHANGED <<pc, depth, owner, image>>
    BY <1>4 DEF vars, kernelVars, mutexVars
  <2>2. Client!IInv'
    BY <1>2, <1>4, ClientStutters, Client!StepIInv
  <2> QED BY <1>1, <1>2, <2>1, <2>2 DEF WaitTypes, OwnerAcrossWaits, Waiting, MayWait
<1> QED BY <1>3, <1>4

-----------------------------------------------------------------------------
(***************************************************************************)
(* Any other program with a mutex that is not recursive: LockMutex enters  *)
(* the critical section only where the owner field says that its caller    *)
(* has it, so nobody ever competes for it.                                 *)
(***************************************************************************)
PlainTypes ==
  /\ pc \in [Threads -> {"idle", "enter", "own", "locked", "try", "tryOwn", "disown", "leave"}]
  /\ owner \in Threads \cup {InvalidHandle}
  /\ image \in {Unlocked} \cup {HeldBy(t) : t \in Threads}

OwnerIsHonest ==
  /\ owner # InvalidHandle => image.owner = owner
  /\ \A t \in Threads :
       /\ pc[t] \in {"enter", "own", "tryOwn"} => image.owner = t
       /\ pc[t] = "leave" => owner # t

PlainIInv == ~is_recursive /\ ~MayWait => PlainTypes /\ OwnerIsHonest

LEMMA InitPlain == Init => PlainIInv
BY DEF Init, InitializeMutex, KernelInit, PlainIInv, PlainTypes, OwnerIsHonest

LEMMA StepPlain == ProgramOK /\ PlainIInv /\ [Next]_vars => PlainIInv'
<1> SUFFICES ASSUME ProgramOK, PlainIInv, [Next]_vars, ~is_recursive', ~MayWait'
             PROVE  PlainTypes' /\ OwnerIsHonest'
  BY DEF PlainIInv
<1>1. ~is_recursive /\ ~MayWait
  BY ProgramSettled DEF MayWait
<1>2. PlainTypes /\ OwnerIsHonest
  BY <1>1 DEF PlainIInv
<1>3. image.owner = InvalidHandle => image = Unlocked
  BY <1>2 DEF PlainTypes, HeldBy, Unlocked
<1> USE <1>1, <1>2 DEF PlainTypes, OwnerIsHonest, Goto, CS!Goto, CS!Unlocked, CS!HeldBy,
        Unlocked, HeldBy, mutexVars, kernelVars
<1> DEFINE Good == PlainTypes' /\ OwnerIsHonest'
<1>4. ASSUME NEW t \in Threads, LockTest(t) PROVE Good
  BY <1>4 DEF LockTest, Differs
<1>5. ASSUME NEW t \in Threads, LockEnter(t) PROVE Good
  <2>1. pc[t] = "enter" /\ CS!EnterCas(t, "own") /\ image.owner = t
    BY <1>5 DEF LockEnter, CS!EnterCas, CS!SetListeners, CS!ArbitrateLock
  <2>2. UNCHANGED <<image, owner>> /\ pc' = [pc EXCEPT ![t] = "own"]
    BY <1>5, <2>1 DEF LockEnter, CS!EnterCas
  <2> QED BY <2>1, <2>2
<1>6. ASSUME NEW t \in Threads, LockOwn(t) PROVE Good
  BY <1>6 DEF LockOwn, SetOwner
<1>7. ASSUME NEW t \in Threads, LockDone(t) PROVE Good
  BY <1>7 DEF LockDone, Granted
<1>8. ASSUME NEW t \in Threads, TryTest(t) PROVE Good
  BY <1>8 DEF TryTest
<1>9. ASSUME NEW t \in Threads, TryEnter(t) PROVE Good
  <2>1. CASE /\ image = Unlocked /\ image' = HeldBy(t)
             /\ pc' = [pc EXCEPT ![t] = "tryOwn"] /\ owner' = owner
    BY <2>1
  <2>2. CASE /\ image.owner = t /\ image' = image
             /\ pc' = [pc EXCEPT ![t] = "tryOwn"] /\ owner' = owner
    BY <2>2
  <2>3. CASE image' = image /\ pc' = [pc EXCEPT ![t] = "idle"] /\ owner' = owner
    BY <2>3
  <2> QED BY <1>9, <2>1, <2>2, <2>3 DEF TryEnter, CS!TryEnter, CS!TryEnterFails
<1>10. ASSUME NEW t \in Threads, TryOwn(t) PROVE Good
  BY <1>10 DEF TryOwn, SetOwner, Granted
<1>11. ASSUME NEW t \in Threads, Unlock(t) PROVE Good
  BY <1>11 DEF Unlock
<1>12. ASSUME NEW t \in Threads, Disown(t) PROVE Good
  BY <1>12 DEF Disown
<1>13. ASSUME NEW t \in Threads, Leave(t) PROVE Good
  <2>1. pc[t] = "leave" /\ owner' = owner /\ pc' = [pc EXCEPT ![t] = "idle"]
    BY <1>13 DEF Leave, CS!LeaveCas, CS!ArbitrateUnlock
  <2>2. IF image = HeldBy(t) THEN image' = Unlocked ELSE image' = image
    BY <1>13, <2>1 DEF Leave, CS!LeaveCas, CS!ArbitrateUnlock
  <2> QED BY <2>1, <2>2
<1>14. ASSUME NEW t \in Threads
       PROVE  ~(\/ LockLoad(t) \/ LockStore(t) \/ TryLoad(t) \/ TryStore(t)
                \/ UnlockLoad(t) \/ UnlockStore(t) \/ UnlockTest(t)
                \/ Wait(t) \/ WaitReturns(t) \/ Notify(t) \/ Timer(t))
  BY DEF LockLoad, LockStore, TryLoad, TryStore, UnlockLoad, UnlockStore, UnlockTest, Load,
         Granted, Wait, WaitReturns, Notify, Timer, CV!Timer
<1>15. CASE UNCHANGED vars
  BY <1>15 DEF vars
<1> QED
  <2>1. CASE Next
    <3>1. PICK t \in Threads :
            \/ LockMutex(t) \/ TryLockMutex(t) \/ UnlockMutex(t)
            \/ Wait(t) \/ WaitReturns(t) \/ Notify(t) \/ Timer(t)
      BY <2>1 DEF Next, ProgramOK
    <3> HIDE <1>2 DEF Goto
    <3> QED BY <3>1, <1>4, <1>5, <1>6, <1>7, <1>8, <1>9, <1>10, <1>11, <1>12, <1>13, <1>14
            DEF LockMutex, TryLockMutex, UnlockMutex
  <2> QED BY <2>1, <1>15

-----------------------------------------------------------------------------
(***************************************************************************)
(* A recursive mutex of one thread.  Its counter is the number of locks,   *)
(* one ahead or behind while a call is about to return, and wraps with it. *)
(***************************************************************************)
LEMMA Remainder ==
  ASSUME NEW c \in Nat \ {0}, NEW q \in Int, NEW r \in 0..(c - 1)
  PROVE  (c * q + r) % c = r
OBVIOUS

(* Counting up and down in the counter's range.                            *)
LEMMA CountUpDown ==
  ASSUME NEW c \in Nat \ {0}, NEW d \in Nat
  PROVE  /\ ((d % c) + 1) % c = (d + 1) % c
         /\ (((d + 1) % c) - 1) % c = d % c
<1> DEFINE r == d % c
           q == d \div c
<1>1. r \in 0..(c - 1) /\ q \in Int /\ d = c * q + r
  OBVIOUS
<1>2. r % c = r
  <2>1. c * 0 + r = r
    BY <1>1
  <2> HIDE DEF r
  <2> QED BY <1>1, <2>1, Remainder
<1>3. CASE r + 1 < c
  <2>1. d + 1 = c * q + (r + 1) /\ r + 1 = c * 0 + (r + 1)
    BY <1>1
  <2> HIDE DEF r, q
  <2>2. (d + 1) % c = r + 1 /\ (r + 1) % c = r + 1
    BY <1>1, <1>3, <2>1, Remainder
  <2>3. (r + 1) - 1 = r
    BY <1>1
  <2> QED BY <1>2, <2>2, <2>3 DEF r
<1>4. CASE r + 1 = c
  <2>1. d + 1 = c * (q + 1) + 0 /\ r + 1 = c * 1 + 0 /\ 0 - 1 = c * (-1) + (c - 1) /\ r = c - 1
    BY <1>1, <1>4
  <2> HIDE DEF r, q
  <2>2. q + 1 \in Int /\ 0 \in 0..(c - 1) /\ c - 1 \in 0..(c - 1) /\ -1 \in Int
    BY <1>1
  <2>3. (c * (q + 1) + 0) % c = 0
    BY <2>2, Remainder
  <2>4. (c * 1 + 0) % c = 0
    BY <2>2, Remainder
  <2>5. (c * (-1) + (c - 1)) % c = c - 1
    BY <2>2, Remainder
  <2> QED BY <2>1, <2>3, <2>4, <2>5 DEF r
<1> QED BY <1>1, <1>3, <1>4

USE RangeAssumption

CountLabels ==
  {"idle", "enter", "own", "locked", "lockStore", "try", "tryCount", "tryStore", "tryOwn",
   "unlockCount", "unlockStore", "unlockTest", "disown", "leave"}

Unlocking == {"unlockCount", "unlockStore", "unlockTest", "disown", "leave"}

(* Locks that the counter should show.                                     *)
Locks(t) ==
  depth[t] + (IF pc[t] \in {"tryOwn", "unlockCount", "unlockStore"} THEN 1 ELSE 0)

CountTypes(t) ==
  /\ pc = [u \in Threads |-> pc[u]] /\ pc[t] \in CountLabels
  /\ depth = [u \in Threads |-> depth[u]] /\ depth[t] \in Nat
  /\ loaded = [u \in Threads |-> loaded[u]]
  /\ image \in {Unlocked, HeldBy(t)}
  /\ owner \in {InvalidHandle, t}

CounterIsExact(t) ==
  /\ counter = Locks(t) % CounterRange
  /\ pc[t] \in {"lockStore", "tryStore", "unlockStore"} => loaded[t] = counter

(* A mutex without locks is free, unless it is just being unlocked.  It    *)
(* may be free with locks too, once the counter has wrapped.               *)
FreeWithoutLocks(t) ==
  /\ pc[t] \in {"enter", "own", "try"} => depth[t] # 0
  /\ depth[t] = 0 /\ pc[t] \notin Unlocking =>
       image = Unlocked /\ owner = InvalidHandle
  /\ pc[t] = "leave" => owner = InvalidHandle

Counted(t) == CountTypes(t) /\ CounterIsExact(t) /\ FreeWithoutLocks(t)

CountIInv == \A t \in Threads : users = {t} /\ is_recursive => Counted(t)

LEMMA InitCount == Init => CountIInv
<1> SUFFICES ASSUME Init, NEW t \in Threads PROVE Counted(t)
  BY DEF CountIInv
<1>1. 0 % CounterRange = 0
  OBVIOUS
<1> QED BY <1>1 DEF Init, InitializeMutex, KernelInit, Counted, CountTypes, CounterIsExact,
                    FreeWithoutLocks, Unlocking, Locks, CountLabels

LEMMA StepCount == ProgramOK /\ CountIInv /\ [Next]_vars => CountIInv'
<1> SUFFICES ASSUME ProgramOK, CountIInv, [Next]_vars, NEW t \in Threads,
                    users' = {t}, is_recursive'
             PROVE  Counted(t)'
  BY DEF CountIInv
<1>1. users = {t} /\ is_recursive /\ ~MayWait
  BY ProgramSettled DEF MayWait
<1>2. CountTypes(t) /\ CounterIsExact(t) /\ FreeWithoutLocks(t)
  BY <1>1 DEF CountIInv, Counted
<1>3. 0 % CounterRange = 0
  OBVIOUS
<1>4. /\ ((depth[t] % CounterRange) + 1) % CounterRange = (depth[t] + 1) % CounterRange
      /\ (((depth[t] + 1) % CounterRange) - 1) % CounterRange = depth[t] % CounterRange
  BY <1>2, CountUpDown DEF CountTypes
<1> USE <1>1, <1>2 DEF Counted, CountTypes, CounterIsExact, FreeWithoutLocks, Unlocking, Locks,
        CountLabels, Goto, CS!Goto, CS!Unlocked, CS!HeldBy, Unlocked, HeldBy, mutexVars, kernelVars
<1>5. CASE LockTest(t)
  BY <1>5 DEF LockTest, Differs
<1>6. CASE LockEnter(t)
  <2>1. pc[t] = "enter" /\ CS!EnterCas(t, "own")
    BY <1>6 DEF LockEnter, CS!EnterCas, CS!SetListeners, CS!ArbitrateLock
  <2>2. /\ image' = HeldBy(t) /\ pc' = [pc EXCEPT ![t] = "own"]
        /\ UNCHANGED <<owner, counter, loaded, depth>>
    BY <1>6, <2>1 DEF LockEnter, CS!EnterCas
  <2> QED BY <2>1, <2>2
<1>7. CASE LockOwn(t)
  BY <1>7 DEF LockOwn, SetOwner
<1>8. CASE LockLoad(t) \/ TryLoad(t) \/ UnlockLoad(t)
  BY <1>8 DEF LockLoad, TryLoad, UnlockLoad, Load
<1>9. CASE LockStore(t)
  <2>1. /\ pc[t] = "lockStore" /\ pc' = [pc EXCEPT ![t] = "idle"]
        /\ depth' = [depth EXCEPT ![t] = depth[t] + 1]
        /\ counter' = (loaded[t] + 1) % CounterRange
        /\ loaded' = [loaded EXCEPT ![t] = 0]
        /\ UNCHANGED <<image, owner>>
    BY <1>9 DEF LockStore, Store, Granted
  <2>2. counter' = (depth[t] + 1) % CounterRange
    BY <1>4, <2>1
  <2>3. depth'[t] = depth[t] + 1 /\ pc'[t] = "idle" /\ depth[t] + 1 \in Nat /\ depth[t] + 1 # 0
    BY <2>1
  <2>4. Locks(t)' = depth[t] + 1
    BY <2>3
  <2> QED BY <2>1, <2>2, <2>3, <2>4
<1>10. CASE TryTest(t)
  BY <1>10 DEF TryTest, Differs
<1>11. CASE TryEnter(t)
  <2>1. /\ pc[t] = "try" /\ image' = HeldBy(t) /\ pc' = [pc EXCEPT ![t] = "tryCount"]
        /\ UNCHANGED <<owner, counter, loaded, depth>>
    BY <1>11 DEF TryEnter, CS!TryEnter, CS!TryEnterFails
  <2> QED BY <2>1
<1>12. CASE TryStore(t)
  <2>1. /\ pc[t] = "tryStore" /\ pc' = [pc EXCEPT ![t] = "tryOwn"]
        /\ counter' = (loaded[t] + 1) % CounterRange
        /\ loaded' = [loaded EXCEPT ![t] = 0]
        /\ UNCHANGED <<image, owner, depth>>
    BY <1>12 DEF TryStore, Store
  <2>2. counter' = (depth[t] + 1) % CounterRange
    BY <1>4, <2>1
  <2> QED BY <2>1, <2>2
<1>13. CASE TryOwn(t)
  <2>1. /\ pc[t] = "tryOwn" /\ pc' = [pc EXCEPT ![t] = "idle"]
        /\ depth' = [depth EXCEPT ![t] = depth[t] + 1]
        /\ owner' = t /\ UNCHANGED <<image, counter, loaded>>
    BY <1>13 DEF TryOwn, SetOwner, Granted
  <2>2. depth'[t] = depth[t] + 1 /\ pc'[t] = "idle" /\ depth[t] + 1 \in Nat /\ depth[t] + 1 # 0
    BY <2>1
  <2>3. Locks(t)' = Locks(t)
    BY <2>1, <2>2
  <2> QED BY <2>1, <2>2, <2>3
<1>14. CASE Unlock(t)
  <2>1. /\ pc[t] = "idle" /\ pc' = [pc EXCEPT ![t] = "unlockCount"]
        /\ depth[t] > 0 /\ depth' = [depth EXCEPT ![t] = depth[t] - 1]
        /\ UNCHANGED <<image, owner, counter, loaded>>
    BY <1>14 DEF Unlock
  <2>2. depth'[t] = depth[t] - 1 /\ pc'[t] = "unlockCount" /\ depth[t] - 1 \in Nat
    BY <2>1
  <2>3. Locks(t)' = Locks(t)
    BY <2>1, <2>2
  <2> QED BY <2>1, <2>2, <2>3
<1>15. CASE UnlockStore(t)
  <2>1. /\ pc[t] = "unlockStore"
        /\ pc' = [pc EXCEPT ![t] = "unlockTest"]
        /\ counter' = (loaded[t] + (-1)) % CounterRange
        /\ loaded' = [loaded EXCEPT ![t] = 0]
        /\ UNCHANGED <<image, owner, depth>>
    BY <1>15 DEF UnlockStore, Store
  <2>2. counter' = depth[t] % CounterRange
    <3>1. loaded[t] = (depth[t] + 1) % CounterRange
      BY <2>1
    <3>2. loaded[t] \in Int
      BY <3>1
    <3> HIDE DEF Locks
    <3>3. loaded[t] + (-1) = loaded[t] - 1
      BY <3>2
    <3> QED BY <1>4, <2>1, <3>1, <3>3
  <2>3. Locks(t)' = depth[t] /\ depth'[t] = depth[t]
    BY <2>1
  <2> QED BY <2>1, <2>2, <2>3
<1>16. CASE Disown(t)
  BY <1>16 DEF Disown
<1>17. CASE Leave(t)
  <2>1. /\ pc[t] = "leave" /\ image' = Unlocked /\ pc' = [pc EXCEPT ![t] = "idle"]
        /\ UNCHANGED <<owner, counter, loaded, depth>>
    BY <1>17 DEF Leave, CS!LeaveCas, CS!ArbitrateUnlock
  <2> QED BY <2>1
<1>18. ~(LockDone(t) \/ Wait(t) \/ WaitReturns(t) \/ Notify(t) \/ Timer(t))
  BY DEF LockDone, Wait, WaitReturns, Notify, Timer, CV!Timer
<1>19. CASE UNCHANGED vars
  BY <1>19 DEF vars
<1>20. CASE UnlockTest(t)
  <2>1. /\ pc[t] = "unlockTest"
        /\ pc' = [pc EXCEPT ![t] = IF counter = 0 THEN "disown" ELSE "idle"]
        /\ UNCHANGED <<image, owner, counter, loaded, depth>>
    BY <1>20 DEF UnlockTest
  <2>2. counter = depth[t] % CounterRange
    BY <2>1
  <2>3. Locks(t)' = depth[t]
    BY <2>1
  <2>4. counter # 0 => depth[t] # 0
    BY <1>3, <2>2
  <2> QED BY <2>1, <2>2, <2>3, <2>4
<1> QED
  <2>1. CASE Next
    <3>1. \/ LockMutex(t) \/ TryLockMutex(t) \/ UnlockMutex(t)
          \/ Wait(t) \/ WaitReturns(t) \/ Notify(t) \/ Timer(t)
      BY <2>1 DEF Next
    <3> HIDE <1>2 DEF Counted, Goto
    <3> QED BY <3>1, <1>5, <1>6, <1>7, <1>8, <1>9, <1>10, <1>11, <1>12, <1>13, <1>14, <1>15,
               <1>16, <1>17, <1>18, <1>20 DEF LockMutex, TryLockMutex, UnlockMutex
  <2> QED BY <2>1, <1>19

-----------------------------------------------------------------------------
IInv == ProgramOK /\ WaitIInv /\ PlainIInv /\ CountIInv

LEMMA Invariance == Spec => []IInv
<1>1. Init => IInv
  BY InitProgram, InitWait, InitPlain, InitCount DEF IInv
<1>2. IInv /\ [Next]_vars => IInv'
  <2>1. ProgramOK /\ [Next]_vars => ProgramOK'
    BY ProgramSettled DEF ProgramOK
  <2> QED BY <2>1, StepWait, StepPlain, StepCount DEF IInv
<1> QED BY <1>1, <1>2, PTL DEF Spec

(* A program that locks with TryLockMutex alone, and not twice, has at     *)
(* most one thread in possession of the mutex, though its holder may give  *)
(* it up in a wait and get it back signalled or timed out.                 *)
THEOREM TryLockIsExclusive == Spec => []TryLockExcludes
<1>1. IInv => TryLockExcludes
  BY PossessorOwns DEF IInv, WaitIInv, TryLockExcludes, MutualExclusion
<1> QED BY <1>1, Invariance, PTL

(* LockMutex looks at the owner of a mutex that is not recursive without   *)
(* the lock, and is not misled: it names nobody, the thread in the lock    *)
(* word, or one that waits.                                                *)
THEOREM OwnerField == Spec => []OwnerFieldIsHonest
<1>1. IInv => OwnerFieldIsHonest
  BY DEF IInv, WaitIInv, OwnerAcrossWaits, PlainIInv, OwnerIsHonest, OwnerFieldIsHonest
<1> QED BY <1>1, Invariance, PTL

(* The counter of a recursive mutex that one thread uses is the number of  *)
(* its locks, modulo its range, and the mutex is free without locks.       *)
THEOREM CounterIsRight == Spec => []CounterCountsLocks
<1>1. IInv => CounterCountsLocks
  BY DEF IInv, CountIInv, Counted, CountTypes, CounterIsExact, FreeWithoutLocks, Unlocking,
         Locks, CounterCountsLocks
<1> QED BY <1>1, Invariance, PTL

(* The mutex of such a program is a critical section with a condition      *)
(* variable, and so, by what is proved of those, a monitor: owner and the  *)
(* steps that set and reset it change nothing its threads can tell.        *)
THEOREM TryLockIsClient == Spec /\ MayWait => Client!CVSpec
<1>1. Init /\ MayWait => Client!CVInit
  BY InitClient
<1>2. IInv /\ MayWait /\ [Next]_vars => MayWait' /\ [Client!CVNext]_(Client!cvVars)
  <2> SUFFICES ASSUME IInv, MayWait, [Next]_vars
               PROVE  MayWait' /\ [Client!CVNext]_(Client!cvVars)
    OBVIOUS
  <2>1. MayWait'
    BY ProgramSettled DEF MayWait
  <2>2. CASE Next
    BY <2>1, <2>2, ClientStep DEF IInv, WaitIInv
  <2>3. CASE UNCHANGED vars
    BY <2>1, <2>3, ClientStutters
  <2> QED BY <2>1, <2>2, <2>3
<1> QED BY <1>1, <1>2, Invariance, PTL DEF Spec, Client!CVSpec

(* Hence such a mutex is what Monitor promises.                            *)
THEOREM TryLockIsMonitor == Spec /\ MayWait => Client!ImplementsMonitor
<1>1. Client!CVSpec => Client!ImplementsMonitor
  BY Client!Refinement
<1>2. Spec /\ MayWait => Client!CVSpec
  BY TryLockIsClient
<1> QED BY <1>1, <1>2

=============================================================================
