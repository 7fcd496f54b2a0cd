----------------------------- MODULE LockProofs -----------------------------
(***************************************************************************)
(* For any set of threads and timeouts.  First the critical section by     *)
(* itself: it excludes, loses no wake-up, honours the kernel's hand-overs  *)
(* and is the lock of a monitor.  Then critical section and condition      *)
(* variable together: whoever is inside, also after a wait that was        *)
(* signalled or timed out, owns the lock word, and the two implement the   *)
(* monitor the other components are built on.                              *)
(***************************************************************************)
EXTENDS ConditionVariable, TLAPS

(* A thread between Enter and Leave has its handle in the word.            *)
HoldersOwn ==
  \A t \in Threads : pc[t] \in {"inside", "unlock"} => image.owner = t

(* The owner a thread remembers between its system calls is another thread.*)
ExpectsAnother ==
  \A t \in Threads :
    pc[t] \in {"listen", "arbitrate"} => expected[t] \in Threads \ {t}

(* The inductive invariant.  SleepersAreAnnounced and OwnerIsAccountable   *)
(* are what keeps HoldersOwn true: the fast path of Leave finds nobody     *)
(* asleep, and the kernel only names owners that are still in Enter.       *)
SectionIInv ==
  /\ TypeOK
  /\ HoldersOwn
  /\ ExpectsAnother
  /\ SleepersAreAnnounced
  /\ OwnerIsAccountable

USE HandleAssumption

LEMMA InitSection == Init => SectionIInv
BY DEF Init, SectionIInv, TypeOK, KernelTypeOK, KernelInit, HoldersOwn, ExpectsAnother,
       SleepersAreAnnounced, OwnerIsAccountable, IsLockedByCurrentThread,
       Labels, Handles, Images, Unlocked

LEMMA StepSection == SectionIInv /\ [Next]_vars => SectionIInv'
<1> SUFFICES ASSUME SectionIInv, [Next]_vars PROVE SectionIInv'
  OBVIOUS
<1> USE DEF SectionIInv, TypeOK, KernelTypeOK, HoldersOwn, ExpectsAnother,
        SleepersAreAnnounced, OwnerIsAccountable, IsLockedByCurrentThread,
        Asleep, Labels, Handles, Images, Unlocked, HeldBy, Contended, Goto
<1>1. ASSUME NEW t \in Threads, CallEnter(t) PROVE SectionIInv'
  BY <1>1 DEF CallEnter
<1>2. ASSUME NEW t \in Threads, EnterCas(t, "inside") PROVE SectionIInv'
  <2>1. CASE image = Unlocked /\ image' = HeldBy(t) /\ Goto(t, "inside")
             /\ UNCHANGED <<expected, waiters>>
    BY <1>2, <2>1
  <2>2. CASE image.owner = t /\ Goto(t, "inside") /\ UNCHANGED <<image, expected, waiters>>
    BY <1>2, <2>2 DEF EnterCas
  <2>3. CASE /\ image.owner \notin {t, InvalidHandle}
             /\ Goto(t, IF image.listeners THEN "arbitrate" ELSE "listen")
             /\ expected' = [expected EXCEPT ![t] = image.owner]
             /\ UNCHANGED <<image, waiters>>
    BY <1>2, <2>3 DEF EnterCas
  <2> QED BY <1>2, <2>1, <2>2, <2>3 DEF EnterCas
<1>3. ASSUME NEW t \in Threads, SetListeners(t) PROVE SectionIInv'
  <2>1. CASE image = HeldBy(expected[t])
    <3>1. /\ image.owner = expected[t] /\ expected[t] \in Threads \ {t}
          /\ image'.owner = expected[t] /\ image' \in Images
          /\ \A o \in Threads : waiters[o] = {}
      <4>1. expected[t] \in Threads \ {t} /\ image' = Contended(expected[t])
        BY <1>3, <2>1 DEF SetListeners
      <4>2. image'.owner = expected[t] /\ image' \in Images
        BY <4>1
      <4> QED BY <2>1, <4>1, <4>2
    <3>2. pc[t] = "listen" /\ Goto(t, "arbitrate") /\ UNCHANGED <<waiters, expected>>
      BY <1>3, <2>1 DEF SetListeners
    <3>3. TypeOK' /\ HoldersOwn' /\ ExpectsAnother'
      BY <3>1, <3>2
    <3>4. SleepersAreAnnounced' /\ OwnerIsAccountable'
      BY <3>1, <3>2
    <3> QED BY <3>3, <3>4
  <2>2. CASE image # HeldBy(expected[t])
    BY <1>3, <2>2 DEF SetListeners
  <2> QED BY <2>1, <2>2
<1>4. ASSUME NEW t \in Threads, ArbitrateLock(t) PROVE SectionIInv'
  BY <1>4 DEF ArbitrateLock, SleepBehind
<1>5. ASSUME NEW t \in Threads, TryEnterStep(t) PROVE SectionIInv'
  <2>1. CASE TryEnter(t, "idle", "inside")
    <3>1. CASE image = Unlocked /\ image' = HeldBy(t)
      BY <2>1, <3>1 DEF TryEnter
    <3>2. CASE image.owner = t /\ UNCHANGED image
      BY <2>1, <3>2 DEF TryEnter
    <3> QED BY <2>1, <3>1, <3>2 DEF TryEnter
  <2>2. CASE TryEnter(t, "inside", "inside")
    BY <2>2 DEF TryEnter
  <2>3. CASE TryEnterFails(t, "idle", "idle")
    BY <2>3 DEF TryEnterFails
  <2> QED BY <1>5, <2>1, <2>2, <2>3 DEF TryEnterStep
<1>6. ASSUME NEW t \in Threads, LeaveCas(t, "inside", "idle") PROVE SectionIInv'
  <2>1. CASE image = HeldBy(t)
    <3>1. /\ image' = Unlocked /\ pc[t] = "inside" /\ Goto(t, "idle")
          /\ UNCHANGED <<waiters, expected>>
          /\ \A o \in Threads : waiters[o] = {}
      BY <1>6, <2>1 DEF LeaveCas
    <3>2. \A u \in Threads : pc[u] \in {"inside", "unlock"} => u = t
      BY <2>1
    <3> QED BY <3>1, <3>2
  <2>2. CASE image # HeldBy(t)
    BY <1>6, <2>2 DEF LeaveCas
  <2> QED BY <2>1, <2>2
<1>7. ASSUME NEW t \in Threads, ArbitrateUnlock(t, "idle") PROVE SectionIInv'
  <2> pc[t] = "unlock" /\ Goto(t, "idle") /\ UNCHANGED expected
    BY <1>7 DEF ArbitrateUnlock
  <2>1. ASSUME NEW p \in Threads, HandOver(t, p) PROVE SectionIInv'
    <3>1. /\ p \in waiters[t] /\ p # t /\ pc[p] = "enter"
          /\ image'.owner = p /\ image' \in Images
          /\ image'.listeners = (waiters[t] # {p})
          /\ waiters' \in [Threads -> SUBSET Threads]
          /\ waiters'[p] = waiters[t] \ {p}
          /\ \A o \in Threads \ {p} : waiters'[o] = {}
      BY <2>1 DEF HandOver
    <3>2. pc' = [pc EXCEPT ![t] = "idle"] /\ pc[t] = "unlock" /\ expected' = expected
      OBVIOUS
    <3>3. TypeOK'
      <4>1. pc' \in [Threads -> Labels]
        BY <3>2
      <4> QED BY <3>1, <3>2, <4>1
    <3>4. HoldersOwn' /\ ExpectsAnother'
      BY <3>1, <3>2
    <3>5. SleepersAreAnnounced'
      <4> SUFFICES ASSUME NEW o \in Threads, NEW u \in Threads, u \in waiters'[o]
                   PROVE  image' = Contended(o) /\ pc'[u] = "enter" /\ u # o
        OBVIOUS
      <4>1. o = p /\ u \in waiters[t] /\ u # p
        BY <3>1
      <4>2. image' = Contended(p)
        BY <3>1, <4>1
      <4> QED BY <3>2, <4>1, <4>2
    <3>6. OwnerIsAccountable'
      BY <3>1, <3>2
    <3> QED BY <3>3, <3>4, <3>5, <3>6
  <2>2. CASE waiters[t] = {} /\ image' = Unlocked /\ UNCHANGED waiters
    BY <2>2
  <2> QED BY <1>7, <2>1, <2>2 DEF ArbitrateUnlock, GiveUp
<1>8. CASE UNCHANGED vars
  BY <1>8 DEF vars
<1> QED
  BY <1>1, <1>2, <1>3, <1>4, <1>5, <1>6, <1>7, <1>8
  DEF Next, EnterStep, LeaveStep

LEMMA SectionInvariance == Spec => []SectionIInv
BY InitSection, StepSection, PTL DEF Spec

(* Every variable keeps its type.                                          *)
THEOREM TypeCorrect == Spec => []TypeOK
BY SectionInvariance, PTL DEF SectionIInv

(* At most one thread is between Enter and Leave: each of them has its own *)
(* handle in the one lock word.                                            *)
THEOREM Exclusion == Spec => []MutualExclusion
<1>1. SectionIInv => MutualExclusion
  BY DEF SectionIInv, HoldersOwn, MutualExclusion
<1> QED BY <1>1, SectionInvariance, PTL

(* No Leave misses a thread that sleeps in svcArbitrateLock.               *)
THEOREM NoLostWakeUp == Spec => []SleepersAreAnnounced
BY SectionInvariance, PTL DEF SectionIInv

(* The lock never belongs to a thread that is unaware of it.               *)
THEOREM Accountability == Spec => []OwnerIsAccountable
BY SectionInvariance, PTL DEF SectionIInv

(* The monitor's holder, read off the lock word.                           *)
OwnerInside ==
  IF image.owner \in Threads /\ pc[image.owner] \in {"inside", "unlock"}
  THEN image.owner
  ELSE InvalidHandle

LEMMA HolderIsOwner == SectionIInv => LockHolder = OwnerInside
<1> SUFFICES ASSUME SectionIInv PROVE LockHolder = OwnerInside
  OBVIOUS
<1> USE DEF SectionIInv, HoldersOwn, LockHolder, OwnerInside
<1>1. CASE \E t \in Threads : pc[t] \in {"inside", "unlock"}
  <2>1. PICK t \in Threads : pc[t] \in {"inside", "unlock"}
    BY <1>1
  <2>2. \A u \in Threads : pc[u] \in {"inside", "unlock"} => u = t
    BY <2>1
  <2>3. LockHolder = t
    BY <2>1, <2>2
  <2> QED BY <2>1, <2>3
<1>2. CASE ~ \E t \in Threads : pc[t] \in {"inside", "unlock"}
  BY <1>2
<1> QED BY <1>1, <1>2

(* What each action does to the owner in the word and to the thread that   *)
(* has it: the facts the two theorems below stand on.                      *)
LEMMA OwnerStep ==
  ASSUME SectionIInv, Next
  PROVE  \/ image'.owner = image.owner /\ OwnerInside' = OwnerInside
         \/ /\ OwnerInside = InvalidHandle
            /\ image.owner \in Threads => image'.owner = image.owner
            /\ OwnerInside' \in Threads
         \/ /\ OwnerInside \in Threads /\ pc[image.owner] # "enter"
            /\ OwnerInside' = InvalidHandle
<1> USE DEF SectionIInv, TypeOK, KernelTypeOK, HoldersOwn, ExpectsAnother,
        SleepersAreAnnounced, OwnerIsAccountable, IsLockedByCurrentThread,
        Labels, Handles, Images, Unlocked, HeldBy, Contended, Goto, OwnerInside
<1>1. ASSUME NEW t \in Threads, CallEnter(t)
      PROVE  image'.owner = image.owner /\ OwnerInside' = OwnerInside
  BY <1>1 DEF CallEnter
<1>2. ASSUME NEW t \in Threads, EnterCas(t, "inside")
      PROVE  \/ image'.owner = image.owner /\ OwnerInside' = OwnerInside
             \/ /\ OwnerInside = InvalidHandle
                /\ image.owner \in Threads => image'.owner = image.owner
                /\ OwnerInside' \in Threads
  BY <1>2 DEF EnterCas
<1>3. ASSUME NEW t \in Threads, SetListeners(t)
      PROVE  image'.owner = image.owner /\ OwnerInside' = OwnerInside
  BY <1>3 DEF SetListeners
<1>4. ASSUME NEW t \in Threads, ArbitrateLock(t)
      PROVE  image'.owner = image.owner /\ OwnerInside' = OwnerInside
  BY <1>4 DEF ArbitrateLock, SleepBehind
<1>5. ASSUME NEW t \in Threads, TryEnterStep(t)
      PROVE  \/ image'.owner = image.owner /\ OwnerInside' = OwnerInside
             \/ /\ OwnerInside = InvalidHandle
                /\ image.owner \in Threads => image'.owner = image.owner
                /\ OwnerInside' \in Threads
  BY <1>5 DEF TryEnterStep, TryEnter, TryEnterFails
<1>6. ASSUME NEW t \in Threads, LeaveCas(t, "inside", "idle")
      PROVE  \/ image'.owner = image.owner /\ OwnerInside' = OwnerInside
             \/ /\ OwnerInside \in Threads /\ pc[image.owner] # "enter"
                /\ OwnerInside' = InvalidHandle
  BY <1>6 DEF LeaveCas
<1>7. ASSUME NEW t \in Threads, ArbitrateUnlock(t, "idle")
      PROVE  /\ OwnerInside \in Threads /\ pc[image.owner] # "enter"
             /\ OwnerInside' = InvalidHandle
  BY <1>7 DEF ArbitrateUnlock, GiveUp, HandOver
<1> QED
  BY <1>1, <1>2, <1>3, <1>4, <1>5, <1>6, <1>7 DEF Next, EnterStep, LeaveStep

(* Nobody barges past a thread the kernel handed the lock to.              *)
THEOREM HandOverHolds == Spec => HandOverIsNotStolen
<1> DEFINE Kept == \A t \in Threads :
             image.owner = t /\ pc[t] = "enter" => image'.owner = t
<1>1. SectionIInv /\ [Next]_vars => Kept
  <2>1. SectionIInv /\ Next => Kept
    BY OwnerStep DEF OwnerInside
  <2>2. UNCHANGED vars => Kept
    BY DEF vars
  <2> QED BY <2>1, <2>2
<1>2. SectionIInv /\ [Next]_vars => [Kept]_vars
  BY <1>1
<1> QED BY <1>2, SectionInvariance, PTL DEF Spec, HandOverIsNotStolen

(* Every step of the lock word protocol is an Acquire or a Release of the  *)
(* monitor, or changes nothing the monitor's clients can see.              *)
THEOREM SectionRefinement == Spec => ImplementsLock
<1>1. Init => Lock!MonitorInit
  BY DEF Init, KernelInit, LockHolder, Lock!MonitorInit, Unlocked
<1>2. SectionIInv /\ SectionIInv' /\ [Next]_vars
        => [Lock!MonitorNext]_(Lock!monitorVars)
  <2> SUFFICES ASSUME SectionIInv, SectionIInv', [Next]_vars
               PROVE  [Lock!MonitorNext]_(Lock!monitorVars)
    OBVIOUS
  <2> USE DEF Lock!monitorVars
  <2>1. CASE UNCHANGED vars
    BY <2>1 DEF vars, LockHolder
  <2>2. CASE LockHolder' = LockHolder
    BY <2>2
  <2>3. CASE LockHolder = InvalidHandle /\ LockHolder' \in Threads
    <3>1. Lock!Acquire(LockHolder')
      BY <2>3 DEF Lock!Acquire
    <3> QED BY <2>3, <3>1 DEF Lock!MonitorNext
  <2>4. CASE LockHolder \in Threads /\ LockHolder' = InvalidHandle
    <3>1. Lock!Release(LockHolder)
      BY <2>4 DEF Lock!Release
    <3> QED BY <2>4, <3>1 DEF Lock!MonitorNext
  <2>5. LockHolder = OwnerInside
    BY HolderIsOwner
  <2>6. (LockHolder = OwnerInside)'
    BY HolderIsOwner, PTL
  <2> QED BY <2>1, <2>2, <2>3, <2>4, <2>5, <2>6, OwnerStep
<1> QED BY <1>1, <1>2, SectionInvariance, PTL
        DEF Spec, ImplementsLock, Lock!MonitorSpec

-----------------------------------------------------------------------------
(***************************************************************************)
(* The condition variable and the critical section.                        *)
(***************************************************************************)
WaitLabels == Labels \cup {"wait"}

WaitTypeOK ==
  /\ KernelTypeOK
  /\ keyed \subseteq Threads
  /\ result \in [Threads -> Results]
  /\ pc \in [Threads -> WaitLabels]
  /\ expected \in [Threads -> Handles]

(* The kernel has given t the lock back, and t has yet to run.             *)
Woken(t) == pc[t] = "wait" /\ ~Queued(t) /\ result[t] = "ok"

(* Sleepers on the lock are queued on the owner in the word, who knows of  *)
(* them: threads in Enter, and waiters that were signalled while the lock  *)
(* was busy.                                                               *)
WaitersAreAnnounced ==
  \A o, t \in Threads :
    t \in waiters[o] =>
      /\ image.owner = o /\ image.listeners /\ t # o
      /\ pc[t] = "enter" \/ (pc[t] = "wait" /\ result[t] = "ok")

(* Sleepers on the key are in their wait and not yet in line for the lock. *)
KeyedWait == \A t \in keyed : pc[t] = "wait" /\ ~Asleep(t)

OwnerKnows ==
  \A t \in Threads :
    image.owner = t =>
      \/ pc[t] \in {"inside", "unlock"}
      \/ pc[t] = "enter" /\ ~Asleep(t)
      \/ Woken(t)

IInv ==
  /\ WaitTypeOK
  /\ ExpectsAnother
  /\ WaitersAreAnnounced
  /\ KeyedWait
  /\ OwnerKnows
  /\ WokenOwnsTheLock

USE TimeoutsAssumption

LEMMA InitIInv == CVInit => IInv
BY DEF CVInit, Init, KernelInit, KeysInit, IInv, WaitTypeOK, KernelTypeOK, ExpectsAnother,
       WaitersAreAnnounced, KeyedWait, OwnerKnows, WokenOwnsTheLock, Woken,
       WaitLabels, Labels, Handles, Images, Unlocked, Results, Queued, Asleep

-----------------------------------------------------------------------------
(* Every call, and the timer, preserves the invariant.                     *)
USE DEF IInv, WaitTypeOK, KernelTypeOK, ExpectsAnother, WaitersAreAnnounced, KeyedWait,
        OwnerKnows, WokenOwnsTheLock, Woken, WaitLabels, Labels, Handles, Images, Results,
        Queued, Asleep, Unlocked, HeldBy, Contended, Goto, waitVars, keyVars, kernelVars

(* Giving up the lock leaves it to nobody, or to a sleeper.                *)
Freed ==
  /\ image' = Unlocked
  /\ waiters' = waiters
  /\ \A o \in Threads : waiters[o] = {}

Handed(t, p) ==
  /\ waiters' \in [Threads -> SUBSET Threads]
  /\ p \in waiters[t] /\ p # t
  /\ image' \in Images /\ image'.owner = p
  /\ image'.listeners = (waiters[t] # {p})
  /\ waiters'[p] = waiters[t] \ {p}
  /\ \A o \in Threads \ {p} : waiters'[o] = {}

LEMMA GiveUpHands ==
  ASSUME IInv, NEW t \in Threads, image.owner = t, GiveUp(t)
  PROVE  Freed \/ \E p \in Threads : Handed(t, p)
<1>1. CASE waiters[t] = {} /\ image' = Unlocked /\ UNCHANGED waiters
  BY <1>1 DEF Freed
<1>2. ASSUME NEW p \in Threads, HandOver(t, p) PROVE Handed(t, p)
  BY <1>2 DEF HandOver, Handed
<1> QED BY <1>1, <1>2 DEF GiveUp

(* What Leave and Wait have in common.  The thread that gives the lock up  *)
(* is through with it (l = "idle") or waits, until it is signalled or      *)
(* because its time is up already.                                         *)
LEMMA GiveUpSafe ==
  ASSUME IInv, NEW t \in Threads, image.owner = t, GiveUp(t),
         NEW l \in {"idle", "wait"},
         pc[t] \in {"inside", "unlock"}, pc' = [pc EXCEPT ![t] = l], UNCHANGED expected,
         keyed' = keyed \/ (keyed' = keyed \cup {t} /\ l = "wait"),
         result' \in [Threads -> Results],
         \A u \in Threads \ {t} : result'[u] = result[u],
         l = "wait" => t \in keyed' \/ result'[t] = "timedOut"
  PROVE  IInv'
<1>1. CASE Freed
  <2> USE <1>1 DEF Freed
  <2>1. \A u \in Threads : ~Asleep(u) /\ ~Asleep(u)'
    OBVIOUS
  <2>2. WaitTypeOK'
    OBVIOUS
  <2>3. ExpectsAnother' /\ WaitersAreAnnounced' /\ OwnerKnows'
    OBVIOUS
  <2>4. KeyedWait' /\ WokenOwnsTheLock'
    BY <2>1
  <2> QED BY <2>2, <2>3, <2>4
<1>2. ASSUME NEW p \in Threads, Handed(t, p) PROVE IInv'
  <2> USE <1>2 DEF Handed
  <2>1. \A o, u \in Threads : u \in waiters'[o] <=> (o = p /\ u \in waiters[t] /\ u # p)
    OBVIOUS
  <2>2. \A u \in waiters[t] :
          /\ u \in Threads /\ u # t /\ u \notin keyed /\ u \notin keyed'
          /\ pc'[u] = pc[u] /\ result'[u] = result[u]
          /\ pc[u] = "enter" \/ (pc[u] = "wait" /\ result[u] = "ok")
    OBVIOUS
  <2>3. WaitTypeOK' /\ ExpectsAnother'
    <3>1. KernelTypeOK'
      OBVIOUS
    <3>2. keyed' \subseteq Threads
      OBVIOUS
    <3>3. pc' \in [Threads -> WaitLabels] /\ expected' \in [Threads -> Handles]
      OBVIOUS
    <3>4. ExpectsAnother'
      OBVIOUS
    <3> QED BY <3>1, <3>2, <3>3, <3>4
  <2>4. WaitersAreAnnounced'
    BY <2>1, <2>2
  <2>5. KeyedWait'
    BY <2>1, <2>2
  <2>6. OwnerKnows'
    <3>1. ~Asleep(p)'
      BY <2>1
    <3> QED BY <2>2, <3>1
  <2>7. WokenOwnsTheLock'
    <3> SUFFICES ASSUME NEW u \in Threads,
                        pc'[u] \in {"inside", "unlock"} \/ Woken(u)'
                 PROVE  u = p
      OBVIOUS
    <3>1. u # t
      OBVIOUS
    <3>2. pc'[u] = pc[u] /\ result'[u] = result[u] /\ (u \in keyed => u \in keyed')
      BY <3>1
    <3>3. pc[u] \notin {"inside", "unlock"} /\ ~Woken(u)
      BY <3>1
    <3>4. u \in waiters[t]
      BY <3>2, <3>3
    <3> QED BY <2>1, <3>2, <3>3, <3>4
  <2> QED BY <2>3, <2>4, <2>5, <2>6, <2>7
<1> QED BY <1>1, <1>2, GiveUpHands

LEMMA EnterSafe ==
  ASSUME IInv, NEW t \in Threads, Arrive(t) \/ Enters(t)
  PROVE  IInv'
<1>1. CASE CallEnter(t) /\ UNCHANGED waitVars
  BY <1>1 DEF CallEnter
<1>2. CASE TryEnter(t, "idle", "inside") /\ UNCHANGED waitVars
  <2>1. CASE image = Unlocked /\ image' = HeldBy(t)
    BY <1>2, <2>1 DEF TryEnter
  <2>2. CASE image.owner = t /\ UNCHANGED image
    BY <1>2, <2>2 DEF TryEnter
  <2> QED BY <1>2, <2>1, <2>2 DEF TryEnter
<1>3. CASE TryEnterFails(t, "idle", "idle") /\ UNCHANGED waitVars
  BY <1>3 DEF TryEnterFails
<1>4. CASE EnterCas(t, "inside") /\ UNCHANGED waitVars
  <2>1. CASE image = Unlocked /\ image' = HeldBy(t) /\ Goto(t, "inside")
             /\ UNCHANGED <<expected, waiters>>
    BY <1>4, <2>1 DEF EnterCas
  <2>2. CASE image.owner = t /\ Goto(t, "inside") /\ UNCHANGED <<image, expected, waiters>>
    BY <1>4, <2>2 DEF EnterCas
  <2>3. CASE /\ image.owner \notin {t, InvalidHandle}
             /\ Goto(t, IF image.listeners THEN "arbitrate" ELSE "listen")
             /\ expected' = [expected EXCEPT ![t] = image.owner]
             /\ UNCHANGED <<image, waiters>>
    BY <1>4, <2>3 DEF EnterCas
  <2> QED BY <1>4, <2>1, <2>2, <2>3 DEF EnterCas
<1>5. CASE SetListeners(t) /\ UNCHANGED waitVars
  <2>1. CASE image = HeldBy(expected[t])
    <3>1. /\ expected[t] \in Threads \ {t} /\ image.owner = expected[t]
          /\ image' = Contended(expected[t])
          /\ pc[t] = "listen" /\ pc' = [pc EXCEPT ![t] = "arbitrate"]
          /\ UNCHANGED <<waiters, expected, keyed, result>>
      BY <1>5, <2>1 DEF SetListeners
    <3>2. image'.owner = image.owner /\ image' \in Images /\ image'.listeners
      BY <3>1
    <3> QED BY <3>1, <3>2
  <2>2. CASE image # HeldBy(expected[t])
    BY <1>5, <2>2 DEF SetListeners
  <2> QED BY <2>1, <2>2
<1>6. CASE ArbitrateLock(t) /\ UNCHANGED waitVars
  <2>1. /\ pc[t] = "arbitrate" /\ pc' = [pc EXCEPT ![t] = "enter"]
        /\ expected' = [expected EXCEPT ![t] = InvalidHandle]
        /\ UNCHANGED <<image, keyed, result>>
        /\ expected[t] \in Threads \ {t}
    BY <1>6 DEF ArbitrateLock, SleepBehind
  <2>2. CASE image = Contended(expected[t])
    <3>1. waiters' = [waiters EXCEPT ![expected[t]] = @ \cup {t}]
      BY <1>6, <2>2 DEF ArbitrateLock, SleepBehind
    <3>2. image.owner = expected[t] /\ image.listeners
      BY <2>2
    <3>3. \A o, u \in Threads :
            u \in waiters'[o] <=> u \in waiters[o] \/ (o = expected[t] /\ u = t)
      <4>1. waiters'[expected[t]] = waiters[expected[t]] \cup {t}
        BY <2>1, <3>1
      <4>2. \A o \in Threads \ {expected[t]} : waiters'[o] = waiters[o]
        BY <2>1, <3>1
      <4> QED BY <4>1, <4>2
    <3>4. WaitTypeOK' /\ ExpectsAnother' /\ KeyedWait'
      BY <2>1, <3>1, <3>3
    <3>5. WaitersAreAnnounced'
      <4> SUFFICES ASSUME NEW o \in Threads, NEW u \in Threads, u \in waiters'[o]
                   PROVE  /\ image'.owner = o /\ image'.listeners /\ u # o
                          /\ pc'[u] = "enter" \/ (pc'[u] = "wait" /\ result'[u] = "ok")
        OBVIOUS
      <4>1. CASE u \in waiters[o]
        BY <2>1, <4>1
      <4>2. CASE o = expected[t] /\ u = t
        BY <2>1, <3>2, <4>2
      <4> QED BY <3>3, <4>1, <4>2
    <3>6. \A u \in Threads \ {t} : Queued(u)' <=> Queued(u)
      <4>1. \A u \in Threads \ {t}, o \in Threads : u \in waiters'[o] <=> u \in waiters[o]
        BY <3>3
      <4> QED BY <2>1, <4>1
    <3>7. OwnerKnows' /\ WokenOwnsTheLock'
      BY <2>1, <3>2, <3>6
    <3> QED BY <3>4, <3>5, <3>7
  <2>3. CASE image # Contended(expected[t])
    <3>1. UNCHANGED waiters
      BY <1>6, <2>3 DEF ArbitrateLock, SleepBehind
    <3> QED BY <2>1, <3>1
  <2> QED BY <2>2, <2>3
<1> QED
  BY <1>1, <1>2, <1>3, <1>4, <1>5, <1>6 DEF Arrive, Enters, EnterStep

LEMMA LeaveSafe ==
  ASSUME IInv, NEW t \in Threads, Leaves(t) PROVE IInv'
<1>1. CASE LeaveCas(t, "inside", "idle") /\ UNCHANGED waitVars
  <2>1. CASE image = HeldBy(t)
    <3>1. /\ image' = Unlocked /\ pc[t] = "inside" /\ pc' = [pc EXCEPT ![t] = "idle"]
          /\ UNCHANGED <<waiters, expected, keyed, result>>
          /\ \A o \in Threads : waiters[o] = {}
      BY <1>1, <2>1 DEF LeaveCas
    <3> QED BY <3>1
  <2>2. CASE image # HeldBy(t)
    BY <1>1, <2>2 DEF LeaveCas
  <2> QED BY <2>1, <2>2
<1>2. CASE ArbitrateUnlock(t, "idle") /\ UNCHANGED waitVars
  <2>1. /\ image.owner = t /\ GiveUp(t) /\ pc[t] = "unlock"
        /\ pc' = [pc EXCEPT ![t] = "idle"] /\ UNCHANGED <<expected, keyed, result>>
    BY <1>2 DEF ArbitrateUnlock, GiveUp, HandOver
  <2>2. /\ result' \in [Threads -> Results]
        /\ \A u \in Threads \ {t} : result'[u] = result[u]
        /\ keyed' = keyed /\ UNCHANGED expected /\ "idle" # "wait"
    BY <2>1
  <2> HIDE DEF IInv, Results, Leaves
  <2> QED BY <2>1, <2>2, GiveUpSafe
<1> QED BY <1>1, <1>2 DEF Leaves, LeaveStep

LEMMA WaitSafe ==
  ASSUME IInv, NEW t \in Threads, WaitStep(t) PROVE IInv'
<1>1. PICK time \in Timeouts : Wait(t, time, "inside")
  BY DEF WaitStep
<1>2. /\ image.owner = t /\ GiveUp(t) /\ pc[t] = "inside"
      /\ pc' = [pc EXCEPT ![t] = "wait"] /\ UNCHANGED expected
  BY <1>1 DEF Wait, WaitKeyAtomic
<1>3. CASE time = "zero"
  <2>1. keyed' = keyed /\ result' = [result EXCEPT ![t] = "timedOut"]
    BY <1>1, <1>3 DEF Wait, WaitKeyAtomic
  <2>2. /\ result' \in [Threads -> Results] /\ result'[t] = "timedOut"
        /\ \A u \in Threads \ {t} : result'[u] = result[u]
    BY <2>1
  <2> HIDE DEF IInv, Results
  <2> QED BY <1>2, <2>1, <2>2, GiveUpSafe
<1>4. CASE time # "zero"
  <2>1. keyed' = keyed \cup {t} /\ result' = result
    BY <1>1, <1>4 DEF Wait, WaitKeyAtomic
  <2> QED BY <1>2, <2>1, GiveUpSafe
<1> QED BY <1>3, <1>4

LEMMA WaitReturnsSafe ==
  ASSUME IInv, NEW t \in Threads, WaitReturns(t, "inside") PROVE IInv'
BY DEF WaitReturns, Forget

LEMMA TimerSafe ==
  ASSUME IInv, NEW t \in Threads, Timer(t) PROVE IInv'
BY DEF Timer, Expire

(* Some of the sleepers on the key get the lock, or in line for it.        *)
LEMMA WakeSafe ==
  ASSUME IInv, NEW S \in SUBSET keyed, Wake(S), UNCHANGED <<pc, expected>>
  PROVE  IInv'
<1>1. PICK o \in Threads :
        /\ (image.owner = InvalidHandle /\ o \in S) \/ image.owner = o
        /\ image' = [owner |-> o, listeners |-> image.listeners \/ S \ {o} # {}]
        /\ waiters' = [waiters EXCEPT ![o] = @ \cup (S \ {o})]
        /\ keyed' = keyed \ S
        /\ result' = [u \in Threads |-> IF u \in S THEN "ok" ELSE result[u]]
  <2>1. image.owner = InvalidHandle \/ image.owner \in Threads
    OBVIOUS
  <2>2. S \subseteq Threads
    OBVIOUS
  <2>3. CASE image.owner = InvalidHandle
    BY <2>2, <2>3 DEF Wake
  <2>4. CASE image.owner \in Threads
    BY <2>4 DEF Wake
  <2> QED BY <2>1, <2>3, <2>4
<1>2. /\ image' \in Images /\ image'.owner = o
      /\ image.listeners => image'.listeners
      /\ S \ {o} # {} => image'.listeners
      /\ \A u \in Threads : waiters'[u] = waiters[u] \cup (IF u = o THEN S \ {o} ELSE {})
  <2>1. image'.owner = o /\ image'.listeners = (image.listeners \/ S \ {o} # {})
    BY <1>1
  <2>2. image' \in Images
    BY <1>1
  <2>3. \A u \in Threads : waiters'[u] = waiters[u] \cup (IF u = o THEN S \ {o} ELSE {})
    BY <1>1
  <2> HIDE <1>1
  <2> QED BY <2>1, <2>2, <2>3
<1>3. image.owner = InvalidHandle => \A u \in Threads : waiters[u] = {}
  OBVIOUS
<1>4. WaitTypeOK' /\ ExpectsAnother' /\ KeyedWait'
  BY <1>1, <1>2
<1>5. WaitersAreAnnounced'
  BY <1>1, <1>2, <1>3
<1>6. OwnerKnows' /\ WokenOwnsTheLock'
  BY <1>1, <1>2, <1>3
<1> QED BY <1>4, <1>5, <1>6

LEMMA NotifySafe ==
  ASSUME IInv, NEW t \in Threads, Notify(t) PROVE IInv'
<1>1. CASE UNCHANGED <<kernelVars, keyVars>> /\ UNCHANGED <<pc, expected>>
  BY <1>1
<1>2. ASSUME NEW S \in SUBSET keyed, Wake(S), UNCHANGED <<pc, expected>> PROVE IInv'
  BY <1>2, WakeSafe
<1>3. ASSUME NEW s \in keyed, Wake({s}), UNCHANGED <<pc, expected>> PROVE IInv'
  <2>1. {s} \in SUBSET keyed
    BY <1>3
  <2> QED BY <1>2, <1>3, <2>1
<1>4. CASE Signal
  BY <1>1, <1>3, <1>4 DEF Signal, SignalKey
<1>5. CASE Broadcast
  BY <1>1, <1>2, <1>5 DEF Broadcast, SignalKey
<1> QED BY <1>4, <1>5 DEF Notify

LEMMA StutterSafe == IInv /\ UNCHANGED cvVars => IInv'
BY DEF cvVars, vars

HIDE DEF IInv, WaitTypeOK, KernelTypeOK, ExpectsAnother, WaitersAreAnnounced, KeyedWait,
         OwnerKnows, WokenOwnsTheLock, Woken, WaitLabels, Labels, Handles, Images, Results,
         Queued, Asleep, Unlocked, HeldBy, Contended, Goto, waitVars, keyVars, kernelVars

LEMMA StepIInv == IInv /\ [CVNext]_cvVars => IInv'
BY EnterSafe, LeaveSafe, WaitSafe, WaitReturnsSafe, TimerSafe, NotifySafe, StutterSafe
DEF CVNext

LEMMA Invariance == CVSpec => []IInv
BY InitIInv, StepIInv, PTL DEF CVSpec

(* Everybody who is inside, however the wait ended, owns the lock word,    *)
(* and so does a waiter as soon as its system call has succeeded.          *)
THEOREM WokenOwns == CVSpec => []WokenOwnsTheLock
<1>1. IInv => WokenOwnsTheLock
  BY DEF IInv
<1> QED BY <1>1, Invariance, PTL

-----------------------------------------------------------------------------
(* The monitor's holder, without the choice.                               *)
Inside(t) == pc[t] \in {"inside", "unlock"}

HolderAgrees ==
  /\ \A t \in Threads : Inside(t) => LockHolder = t
  /\ (\A t \in Threads : ~Inside(t)) => LockHolder = InvalidHandle

LEMMA HolderIsInside == IInv => HolderAgrees
<1> SUFFICES ASSUME IInv PROVE HolderAgrees
  OBVIOUS
<1>1. \A t, u \in Threads : Inside(t) /\ Inside(u) => t = u
  BY DEF IInv, WokenOwnsTheLock, Inside
<1>2. ASSUME NEW t \in Threads, Inside(t) PROVE LockHolder = t
  BY <1>1, <1>2 DEF LockHolder, Inside
<1> QED BY <1>2 DEF HolderAgrees, LockHolder, Inside

(* What a step can do to the thread inside and to those asleep on the key. *)
Kept == (\A u \in Threads : Inside(u)' <=> Inside(u)) /\ keyed' = keyed

GetsIn(t) ==
  /\ \A u \in Threads : ~Inside(u)
  /\ t \notin keyed
  /\ Inside(t)'
  /\ keyed' = keyed

GetsOut(t) ==
  /\ Inside(t)
  /\ \A u \in Threads : ~Inside(u)'
  /\ keyed' = keyed \/ keyed' = keyed \cup {t}

LEMMA LockStep ==
  ASSUME IInv, NEW t \in Threads,
         Arrive(t) \/ Enters(t) \/ Leaves(t) \/ WaitStep(t) \/ WaitReturns(t, "inside")
  PROVE  Kept \/ GetsIn(t) \/ GetsOut(t)
<1> USE DEF IInv, WaitTypeOK, KernelTypeOK, KeyedWait, WokenOwnsTheLock, OwnerKnows,
            WaitLabels, Labels, Unlocked, HeldBy, Goto, waitVars, keyVars,
            Inside, Kept, GetsIn, GetsOut
<1>1. CASE Arrive(t)
  BY <1>1 DEF Arrive, CallEnter, TryEnter, TryEnterFails
<1>2. CASE Enters(t)
  BY <1>2 DEF Enters, EnterStep, EnterCas, SetListeners, ArbitrateLock
<1>3. CASE Leaves(t)
  BY <1>3 DEF Leaves, LeaveStep, LeaveCas, ArbitrateUnlock
<1>4. CASE WaitStep(t)
  BY <1>4 DEF WaitStep, Wait, WaitKeyAtomic
<1>5. CASE WaitReturns(t, "inside")
  BY <1>5 DEF WaitReturns, Forget, Queued
<1> QED BY <1>1, <1>2, <1>3, <1>4, <1>5

LEMMA KeyStep ==
  ASSUME IInv, NEW t \in Threads, Timer(t) \/ Notify(t)
  PROVE  /\ pc' = pc
         /\ \/ keyed' = keyed
            \/ \E u \in keyed : keyed' = keyed \ {u}
            \/ keyed' = {}
<1>1. CASE Timer(t)
  BY <1>1 DEF Timer, Expire
<1>2. CASE Notify(t)
  BY <1>2 DEF Notify, Signal, Broadcast, SignalKey, Wake, keyVars
<1> QED BY <1>1, <1>2

(* Critical section and condition variable are a monitor: giving up the    *)
(* lock to sleep is one step, signals wake sleepers and nobody else, and a *)
(* woken thread is inside once it has the lock.                            *)
THEOREM Refinement == CVSpec => ImplementsMonitor
<1>1. CVInit => Promise!MonitorInit
  BY DEF CVInit, Init, KeysInit, LockHolder, Promise!MonitorInit
<1>2. IInv /\ IInv' /\ [CVNext]_cvVars => [Promise!MonitorNext]_(Promise!monitorVars)
  <2> SUFFICES ASSUME IInv, IInv', [CVNext]_cvVars
               PROVE  [Promise!MonitorNext]_(Promise!monitorVars)
    OBVIOUS
  <2> USE DEF Promise!monitorVars
  <2>1. HolderAgrees
    BY HolderIsInside
  <2>2. HolderAgrees'
    BY HolderIsInside, PTL
  <2>3. ASSUME NEW t \in Threads, GetsIn(t) PROVE Promise!MonitorNext
    <3>1. Promise!Acquire(t)
      BY <2>1, <2>2, <2>3 DEF GetsIn, HolderAgrees, Promise!Acquire
    <3> QED BY <3>1 DEF Promise!MonitorNext
  <2>4. ASSUME NEW t \in Threads, GetsOut(t) PROVE Promise!MonitorNext
    <3>1. Promise!Release(t) \/ Promise!Sleep(t)
      BY <2>1, <2>2, <2>4 DEF GetsOut, HolderAgrees, Promise!Release, Promise!Sleep
    <3> QED BY <3>1 DEF Promise!MonitorNext
  <2>5. CASE Kept
    BY <2>1, <2>2, <2>5 DEF Kept, HolderAgrees
  <2>6. ASSUME pc' = pc,
               \/ keyed' = keyed
               \/ \E u \in keyed : keyed' = keyed \ {u}
               \/ keyed' = {}
        PROVE  [Promise!MonitorNext]_(Promise!monitorVars)
    <3>1. LockHolder' = LockHolder
      BY <2>6 DEF LockHolder
    <3>2. CASE \E u \in keyed : keyed' = keyed \ {u}
      BY <3>1, <3>2 DEF Promise!SignalOne, Promise!MonitorNext
    <3>3. CASE keyed' = {}
      BY <3>1, <3>3 DEF Promise!SignalAll, Promise!MonitorNext
    <3> QED BY <2>6, <3>1, <3>2, <3>3
  <2>7. CASE UNCHANGED cvVars
    BY <2>6, <2>7 DEF cvVars, vars, waitVars, keyVars
  <2>8. ASSUME NEW t \in Threads, Timer(t) \/ Notify(t)
        PROVE  [Promise!MonitorNext]_(Promise!monitorVars)
    BY <2>6, <2>8, KeyStep
  <2>9. ASSUME NEW t \in Threads,
               \/ Arrive(t) \/ Enters(t) \/ Leaves(t)
               \/ WaitStep(t) \/ WaitReturns(t, "inside")
        PROVE  [Promise!MonitorNext]_(Promise!monitorVars)
    BY <2>3, <2>4, <2>5, <2>9, LockStep
  <2> QED BY <2>7, <2>8, <2>9 DEF CVNext
<1> QED BY <1>1, <1>2, Invariance, PTL DEF CVSpec, ImplementsMonitor, Promise!MonitorSpec

=============================================================================
