------------------------------- MODULE Mutex -------------------------------
(***************************************************************************)
(* hs::os::Mutex: a critical section, the handle of its owner and, for a   *)
(* recursive mutex, a counter.  owner and counter are plain fields, read   *)
(* before the critical section is entered: every access is a step, and an  *)
(* increment is a load and a store.  A thread that has the mutex may wait   *)
(* on a condition variable: that releases the critical section and takes   *)
(* it again, but leaves owner alone.                                       *)
(***************************************************************************)
EXTENDS HorizonKeys, Integers

CONSTANTS
  CounterRange,   \* the counter is CounterRange-valued (2^32 in the code)
  MaxDepth        \* bound: locks a program nests

ASSUME RangeAssumption == CounterRange \in Nat \ {0}
ASSUME DepthAssumption == MaxDepth \in Nat \ {0}

VARIABLES
  pc, expected, timeout,
  is_recursive, owner, counter,
  functions, users,   \* what the program locks this mutex with, and where
  nesting,   \* how many locks deep the program goes
  loaded,    \* loaded[t]: the counter value t is about to increment
  depth      \* depth[t]: locks t was granted and has not given back

Functions == {"LockMutex", "TryLockMutex"}

mutexVars == <<is_recursive, owner, counter>>
program == <<functions, users, nesting>>
waitVars == <<keyVars, timeout>>
vars == <<kernelVars, waitVars, pc, expected, mutexVars, program, loaded, depth>>

CS == INSTANCE CriticalSection
CV == INSTANCE ConditionVariable WITH Timeouts <- {"zero", "finite", "infinite"}

Goto(t, label) == pc' = [pc EXCEPT ![t] = label]

(* operator!= of hs::svc::Handle compares for equality.                    *)
Differs(a, b) == a = b

InitializeMutex ==
  /\ is_recursive \in BOOLEAN
  /\ owner = InvalidHandle
  /\ counter = 0

Granted(t, from) ==
  /\ pc[t] = from
  /\ Goto(t, "idle")
  /\ depth' = [depth EXCEPT ![t] = @ + 1]

SetOwner(t) == owner' = t /\ UNCHANGED <<is_recursive, counter>>

(* counter++ and counter--: the load, then the store.                      *)
Load(t, from, to) ==
  /\ pc[t] = from
  /\ loaded' = [loaded EXCEPT ![t] = counter]
  /\ Goto(t, to)
  /\ UNCHANGED <<kernelVars, expected, mutexVars, depth>>

Store(t, delta) ==
  /\ counter' = (loaded[t] + delta) % CounterRange
  /\ loaded' = [loaded EXCEPT ![t] = 0]
  /\ UNCHANGED <<kernelVars, expected, is_recursive>>

(***************************************************************************)
(* LockMutex: look at the owner, enter, set the owner, count.              *)
(***************************************************************************)
LockTest(t) ==
  /\ pc[t] = "idle" /\ "LockMutex" \in functions /\ depth[t] < nesting
  /\ Goto(t, IF Differs(owner, t) THEN "enter" ELSE "locked")
  /\ UNCHANGED <<kernelVars, expected, mutexVars, loaded, depth>>

LockEnter(t) ==
  /\ "LockMutex" \in functions
  /\ CS!EnterCas(t, "own") \/ CS!SetListeners(t) \/ CS!ArbitrateLock(t)
  /\ UNCHANGED <<mutexVars, loaded, depth>>

LockOwn(t) ==
  /\ pc[t] = "own"
  /\ SetOwner(t)
  /\ Goto(t, "locked")
  /\ UNCHANGED <<kernelVars, expected, loaded, depth>>

LockDone(t) ==
  /\ ~is_recursive
  /\ Granted(t, "locked")
  /\ UNCHANGED <<kernelVars, expected, mutexVars, loaded>>

LockLoad(t) == is_recursive /\ Load(t, "locked", "lockStore")

LockStore(t) ==
  /\ Store(t, 1)
  /\ Granted(t, "lockStore")
  /\ UNCHANGED owner

(***************************************************************************)
(* TryLockMutex.  Recursive: look at the owner, try to enter only if it    *)
(* "differs", count, set the owner.  Otherwise: try to enter, set the      *)
(* owner.                                                                  *)
(***************************************************************************)
TryTest(t) ==
  /\ pc[t] = "idle" /\ "TryLockMutex" \in functions /\ depth[t] < nesting
  /\ Goto(t, IF is_recursive /\ ~Differs(owner, t) THEN "tryCount" ELSE "try")
  /\ UNCHANGED <<kernelVars, expected, mutexVars, loaded, depth>>

TryEnter(t) ==
  /\ \/ CS!TryEnter(t, "try", IF is_recursive THEN "tryCount" ELSE "tryOwn")
     \/ CS!TryEnterFails(t, "try", "idle")
  /\ UNCHANGED <<mutexVars, loaded, depth>>

TryLoad(t) == Load(t, "tryCount", "tryStore")

TryStore(t) ==
  /\ pc[t] = "tryStore"
  /\ Store(t, 1)
  /\ Goto(t, "tryOwn")
  /\ UNCHANGED <<owner, depth>>

TryOwn(t) ==
  /\ SetOwner(t)
  /\ Granted(t, "tryOwn")
  /\ UNCHANGED <<kernelVars, expected, loaded>>

(***************************************************************************)
(* UnlockMutex: count down, and at 0 forget the owner and leave.           *)
(***************************************************************************)
Unlock(t) ==
  /\ pc[t] = "idle" /\ depth[t] > 0
  /\ depth' = [depth EXCEPT ![t] = @ - 1]
  /\ Goto(t, IF is_recursive THEN "unlockCount" ELSE "disown")
  /\ UNCHANGED <<kernelVars, expected, mutexVars, loaded>>

UnlockLoad(t) == Load(t, "unlockCount", "unlockStore")

(* Faulty variant: counter-- is tested for its old value.                  *)
UnlockTestsOldValue(t) ==
  /\ pc[t] = "unlockStore"
  /\ Store(t, -1)
  /\ Goto(t, IF loaded[t] = 0 THEN "disown" ELSE "idle")
  /\ UNCHANGED <<owner, depth>>

UnlockStore(t) ==
  /\ pc[t] = "unlockStore"
  /\ Store(t, -1)
  /\ Goto(t, "unlockTest")
  /\ UNCHANGED <<owner, depth>>

(* The counter is read again, and another thread may have stored to it.    *)
UnlockTest(t) ==
  /\ pc[t] = "unlockTest"
  /\ Goto(t, IF counter = 0 THEN "disown" ELSE "idle")
  /\ UNCHANGED <<kernelVars, expected, mutexVars, loaded, depth>>

(* Faulty variant: the owner is not reset.                                 *)
KeepsOwner(t) ==
  /\ pc[t] = "disown"
  /\ Goto(t, "leave")
  /\ UNCHANGED <<kernelVars, expected, mutexVars, loaded, depth>>

Disown(t) ==
  /\ pc[t] = "disown"
  /\ owner' = InvalidHandle
  /\ Goto(t, "leave")
  /\ UNCHANGED <<kernelVars, expected, is_recursive, counter, loaded, depth>>

Leave(t) ==
  /\ CS!LeaveCas(t, "leave", "idle") \/ CS!ArbitrateUnlock(t, "idle")
  /\ UNCHANGED <<mutexVars, loaded, depth>>

(***************************************************************************)
(* WaitConditionVariable and WaitTimeoutConditionVariable with the mutex,  *)
(* and signals, in programs whose locks do enter the critical section:     *)
(* once LockMutex has skipped it, a wait would release another's.          *)
(***************************************************************************)
MayWait == functions = {"TryLockMutex"} /\ ~is_recursive /\ nesting = 1

Wait(t) ==
  /\ MayWait /\ depth[t] = 1
  /\ \E time \in {"zero", "finite", "infinite"} : CV!Wait(t, time, "idle")
  /\ UNCHANGED <<mutexVars, loaded, depth>>

(* A timed-out thread enters the critical section again and returns.       *)
WaitReturns(t) ==
  /\ MayWait
  /\ \/ CV!WaitReturns(t, "idle")
     \/ /\ CS!EnterCas(t, "idle") \/ CS!SetListeners(t) \/ CS!ArbitrateLock(t)
        /\ UNCHANGED waitVars
  /\ UNCHANGED <<mutexVars, loaded, depth>>

Notify(t) ==
  /\ MayWait /\ pc[t] = "idle"
  /\ CV!Signal \/ CV!Broadcast
  /\ UNCHANGED <<mutexVars, loaded, depth>>

Timer(t) == CV!Timer(t) /\ UNCHANGED <<mutexVars, loaded, depth>>

Init ==
  /\ KernelInit
  /\ KeysInit /\ timeout = [t \in Threads |-> "infinite"]
  /\ InitializeMutex
  /\ pc = [t \in Threads |-> "idle"]
  /\ expected = [t \in Threads |-> InvalidHandle]
  /\ functions \in (SUBSET Functions) \ {{}} /\ users \in (SUBSET Threads) \ {{}}
  /\ nesting \in 1..MaxDepth
  /\ loaded = [t \in Threads |-> 0]
  /\ depth = [t \in Threads |-> 0]

LockMutex(t) ==
  LockTest(t) \/ LockEnter(t) \/ LockOwn(t) \/ LockDone(t) \/ LockLoad(t) \/ LockStore(t)

TryLockMutex(t) ==
  TryTest(t) \/ TryEnter(t) \/ TryLoad(t) \/ TryStore(t) \/ TryOwn(t)

UnlockMutex(t) ==
  \/ Unlock(t) \/ UnlockLoad(t) \/ UnlockStore(t) \/ UnlockTest(t)
  \/ Disown(t) \/ Leave(t)

Next ==
  /\ \E t \in users :
       \/ (LockMutex(t) \/ TryLockMutex(t) \/ UnlockMutex(t)) /\ UNCHANGED waitVars
       \/ Wait(t) \/ WaitReturns(t) \/ Notify(t) \/ Timer(t)
  /\ UNCHANGED program

Spec == Init /\ [][Next]_vars

-----------------------------------------------------------------------------
(* A thread in the middle of a wait does not have the mutex.               *)
Waiting(t) == MayWait /\ pc[t] \in {"wait", "enter", "listen", "arbitrate"}

(* At most one thread has the mutex.                                       *)
MutualExclusion ==
  \A t, u \in Threads :
    depth[t] > 0 /\ ~Waiting(t) /\ depth[u] > 0 /\ ~Waiting(u) => t = u

(* A mutex that is not recursive, and that the program locks only with     *)
(* TryLockMutex and never twice, excludes, also when its holder waits on a *)
(* condition variable and comes back signalled or timed out: those calls   *)
(* do not go through the inverted comparison, which may skip the critical  *)
(* section.  (A second TryLockMutex of the owner succeeds, and the first   *)
(* UnlockMutex gives the critical section back.)                           *)
TryLockExcludes == MayWait => MutualExclusion

(* LockMutex compares owner with the caller before it has the critical     *)
(* section.  Of a mutex that is not recursive the field never names a      *)
(* thread without the critical section, so that comparison is not answered *)
(* by a stale value.  The exception is a thread in a wait, which releases  *)
(* the critical section only and may find another's owner, or none, when   *)
(* it is back.                                                             *)
(* Recursive mutexes, the only ones whose owner TryLockMutex reads without *)
(* the lock, are left out because it is false of them: TryLockMutex of a   *)
(* thread that is not the owner skips TryEnter (Differs) and then sets     *)
(* owner, and one thread's UnlockMutex may leave another's name behind.    *)
OwnerFieldIsHonest ==
  owner # InvalidHandle /\ ~is_recursive => image.owner = owner \/ Waiting(owner)

(* A recursive mutex used by one thread counts its locks, whichever        *)
(* function it nests, and the word is free when all were given back.  Once *)
(* the locks reach the range of the counter it wraps and shows what is     *)
(* left of them, in both directions.  (So the mutex is given back too      *)
(* early, with CounterRange locks left, and still ends up free.)           *)
CounterCountsLocks ==
  \A t \in Threads :
    users = {t} /\ is_recursive /\ pc[t] = "idle" =>
      /\ counter = depth[t] % CounterRange
      /\ depth[t] = 0 => image = Unlocked /\ owner = InvalidHandle

=============================================================================
