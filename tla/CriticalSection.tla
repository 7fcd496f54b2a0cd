-------------------------- MODULE CriticalSection --------------------------
(***************************************************************************)
(* hs::os::CriticalSection: a lock word taken and released with one        *)
(* compare-and-swap when nobody competes, and through the kernel when      *)
(* somebody does.  One action per atomic access to the word or system      *)
(* call; a thread may be preempted between any two of them.                *)
(*                                                                         *)
(* The actions take the label at which the caller resumes, so that the     *)
(* modules that call a critical section can reuse them.                    *)
(***************************************************************************)
EXTENDS Horizon

VARIABLES
  pc,        \* where each thread is
  expected   \* owner read by the failed CAS of Enter (the local expected_value)

vars == <<image, waiters, pc, expected>>

Labels == {"idle", "enter", "listen", "arbitrate", "inside", "unlock"}

Goto(t, label) == pc' = [pc EXCEPT ![t] = label]

CallEnter(t) ==
  /\ pc[t] = "idle"
  /\ Goto(t, "enter")
  /\ UNCHANGED <<image, waiters, expected>>

(* Faulty variant: the owner check forgets to mask HAS_LISTENERS off.      *)
EnterCasUnmasked(t, resume) ==
  /\ pc[t] = "enter"
  /\ ~Asleep(t)
  /\ \/ /\ image = Unlocked
        /\ image' = HeldBy(t)
        /\ Goto(t, resume)
        /\ UNCHANGED expected
     \/ /\ image = HeldBy(t)
        /\ Goto(t, resume)
        /\ UNCHANGED <<image, expected>>
     \/ /\ image \notin {HeldBy(t), Unlocked}
        /\ Goto(t, IF image.listeners THEN "arbitrate" ELSE "listen")
        /\ expected' = [expected EXCEPT ![t] = image.owner]
        /\ UNCHANGED image
  /\ UNCHANGED waiters

(***************************************************************************)
(* Head of the loop of Enter: CAS 0 -> self; on failure the word that was  *)
(* read decides.  A thread whose own handle is in the word has been handed *)
(* the lock by the kernel and is done.                                     *)
(***************************************************************************)
EnterCas(t, resume) ==
  /\ pc[t] = "enter"
  /\ ~Asleep(t)
  /\ \/ /\ image = Unlocked
        /\ image' = HeldBy(t)
        /\ Goto(t, resume)
        /\ UNCHANGED expected
     \/ /\ image.owner = t
        /\ Goto(t, resume)
        /\ UNCHANGED <<image, expected>>
     \/ /\ image.owner \notin {t, InvalidHandle}
        /\ Goto(t, IF image.listeners THEN "arbitrate" ELSE "listen")
        /\ expected' = [expected EXCEPT ![t] = image.owner]
        /\ UNCHANGED image
  /\ UNCHANGED waiters

(* Faulty variant: a store of expected | HAS_LISTENERS instead of a CAS.   *)
BlindSetListeners(t) ==
  /\ pc[t] = "listen"
  /\ image' = Contended(expected[t])
  /\ Goto(t, "arbitrate")
  /\ UNCHANGED <<waiters, expected>>

(* Faulty variant: an atomic or of HAS_LISTENERS instead of a CAS.         *)
OrListeners(t) ==
  /\ pc[t] = "listen"
  /\ image' = [image EXCEPT !.listeners = TRUE]
  /\ Goto(t, "arbitrate")
  /\ UNCHANGED <<waiters, expected>>

(***************************************************************************)
(* Announce a listener: CAS expected -> expected | HAS_LISTENERS.  If the  *)
(* word changed meanwhile the race is lost and the loop starts over.       *)
(***************************************************************************)
SetListeners(t) ==
  /\ pc[t] = "listen"
  /\ \/ /\ image = HeldBy(expected[t])
        /\ image' = Contended(expected[t])
        /\ Goto(t, "arbitrate")
        /\ UNCHANGED expected
     \/ /\ image # HeldBy(expected[t])
        /\ Goto(t, "enter")
        /\ expected' = [expected EXCEPT ![t] = InvalidHandle]
        /\ UNCHANGED image
  /\ UNCHANGED waiters

(* Either call of svcArbitrateLock; its result is ignored and the loop     *)
(* starts over once the thread is awake.                                   *)
ArbitrateLock(t) ==
  /\ pc[t] = "arbitrate"
  /\ SleepBehind(t, expected[t])
  /\ Goto(t, "enter")
  /\ expected' = [expected EXCEPT ![t] = InvalidHandle]

(* TryEnter: one CAS, true also when the caller owns the lock already.     *)
TryEnter(t, from, resume) ==
  /\ pc[t] = from
  /\ \/ image = Unlocked /\ image' = HeldBy(t)
     \/ image.owner = t /\ UNCHANGED image
  /\ Goto(t, resume)
  /\ UNCHANGED <<waiters, expected>>

TryEnterFails(t, from, resume) ==
  /\ pc[t] = from
  /\ image.owner \notin {t, InvalidHandle}
  /\ Goto(t, resume)
  /\ UNCHANGED <<image, waiters, expected>>

(* Faulty variant: Leave stores 0 whatever the word says, so the kernel is *)
(* never told to wake a listener.                                          *)
LeaveIgnoringListeners(t, from, resume) ==
  /\ pc[t] = from
  /\ image' = Unlocked
  /\ Goto(t, resume)
  /\ UNCHANGED <<waiters, expected>>

(***************************************************************************)
(* Leave: CAS self -> 0.  It fails when a listener has announced itself,   *)
(* and then the kernel releases the lock.  A caller that does not own the  *)
(* lock gets the same treatment: only the listeners bit is looked at.      *)
(***************************************************************************)
LeaveCas(t, from, resume) ==
  /\ pc[t] = from
  /\ \/ /\ image = HeldBy(t)
        /\ image' = Unlocked
        /\ Goto(t, resume)
     \/ /\ image # HeldBy(t)
        /\ Goto(t, IF image.listeners THEN "unlock" ELSE resume)
        /\ UNCHANGED image
  /\ UNCHANGED <<waiters, expected>>

ArbitrateUnlock(t, resume) ==
  /\ pc[t] = "unlock"
  /\ GiveUp(t)
  /\ Goto(t, resume)
  /\ UNCHANGED expected

IsLockedByCurrentThread(t) == image.owner = t

(***************************************************************************)
(* The clients of a critical section alternate Enter or TryEnter with      *)
(* Leave, as every caller in the library does; a thread that is inside may *)
(* also try to enter again.                                                *)
(***************************************************************************)
Init ==
  /\ KernelInit
  /\ pc = [t \in Threads |-> "idle"]
  /\ expected = [t \in Threads |-> InvalidHandle]

EnterStep(t) ==
  EnterCas(t, "inside") \/ SetListeners(t) \/ ArbitrateLock(t)

LeaveStep(t) ==
  LeaveCas(t, "inside", "idle") \/ ArbitrateUnlock(t, "idle")

TryEnterStep(t) ==
  \/ TryEnter(t, "idle", "inside")
  \/ TryEnter(t, "inside", "inside")
  \/ TryEnterFails(t, "idle", "idle")

Next ==
  \E t \in Threads : CallEnter(t) \/ EnterStep(t) \/ TryEnterStep(t) \/ LeaveStep(t)

Spec == Init /\ [][Next]_vars

(***************************************************************************)
(* Fairness.  A thread inside leaves, and a thread in the middle of a call *)
(* is scheduled.  The kernel serves equal priorities in arrival order, so  *)
(* it does not pass over a sleeper for ever: that is the strong fairness   *)
(* of being chosen.  Nothing forces a thread to call Enter.                *)
(***************************************************************************)
ChosenBy(o, t) == LeaveStep(o) /\ HandOver(o, t)

Fairness ==
  \A t \in Threads :
    /\ WF_vars(EnterStep(t))
    /\ WF_vars(LeaveStep(t))
    /\ SF_vars(\E o \in Threads : ChosenBy(o, t))

FairSpec == Spec /\ Fairness

-----------------------------------------------------------------------------
(* Every variable has its type.                                            *)
TypeOK ==
  /\ KernelTypeOK
  /\ pc \in [Threads -> Labels]
  /\ expected \in [Threads -> Handles]

(* Two threads are never between Enter (or a successful TryEnter) and      *)
(* Leave at once, whatever the interleaving of compare-and-swaps, the      *)
(* listeners bit and hand-overs by the kernel (CriticalSection::Enter,     *)
(* TryEnter and Leave).                                                    *)
MutualExclusion ==
  \A t, u \in Threads : pc[t] = "inside" /\ pc[u] = "inside" => t = u

(* No wake-up is lost: a thread asleep in svcArbitrateLock is queued on    *)
(* the thread whose handle is in the lock word, and the word has           *)
(* HAS_LISTENERS, so the fast path of that owner's Leave cannot succeed    *)
(* and it has to ask the kernel to hand the lock over.                     *)
SleepersAreAnnounced ==
  \A o, t \in Threads :
    t \in waiters[o] => image = Contended(o) /\ pc[t] = "enter" /\ t # o

(* Whoever owns the word is inside, is releasing it through the kernel, or *)
(* was handed it and has yet to notice: the lock is never owned by a       *)
(* thread that does not know (which would block all others for good).      *)
OwnerIsAccountable ==
  \A t \in Threads :
    IsLockedByCurrentThread(t) =>
      \/ pc[t] \in {"inside", "unlock"}
      \/ pc[t] = "enter" /\ ~Asleep(t)

(* A lock the kernel handed to a sleeper cannot be barged: until that      *)
(* thread has run, no Enter, TryEnter or Leave of another thread changes   *)
(* the owner in the word.                                                  *)
HandOverIsNotStolen ==
  [][\A t \in Threads :
       image.owner = t /\ pc[t] = "enter" => image'.owner = t]_vars

(* The monitor promised by this component, with nobody on a condition      *)
(* variable: the holder is the thread that has returned from Enter and has *)
(* not given the word up yet.                                              *)
LockHolder ==
  IF \E t \in Threads : pc[t] \in {"inside", "unlock"}
  THEN CHOOSE t \in Threads : pc[t] \in {"inside", "unlock"}
  ELSE InvalidHandle

Lock == INSTANCE Monitor WITH holder <- LockHolder, sleeping <- {}

ImplementsLock == Lock!MonitorSpec

(* A thread asleep on the lock gets in eventually.                         *)
SleeperEnters == \A t \in Threads : Asleep(t) ~> pc[t] = "inside"

(* The lock does not wedge: while somebody is entering, somebody gets in   *)
(* (a thread that never sleeps may lose the race for ever, so this is not  *)
(* claimed of each of them).                                               *)
SomebodyEnters ==
  (\E t \in Threads : pc[t] \in {"enter", "listen", "arbitrate"})
    ~> (\E t \in Threads : pc[t] = "inside")

=============================================================================
