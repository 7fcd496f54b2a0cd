------------------------------ MODULE Horizon ------------------------------
(***************************************************************************)
(* The part of the Horizon kernel that libhydrosphere's locks stand on:    *)
(* the lock word that user code and the kernel share, and the queues of    *)
(* threads asleep in svcArbitrateLock.  The kernel is not part of the      *)
(* repository; it is modelled from what the svc wrappers are called with   *)
(* and what their callers rely on.                                         *)
(*                                                                         *)
(* A thread is identified with its handle.  The 32-bit lock word is a      *)
(* handle plus bit 30 (HAS_LISTENERS), so it is a record of the two.       *)
(* Being asleep is membership of a queue: the program counter of a thread  *)
(* says where it resumes, and it takes no step while it is queued.         *)
(***************************************************************************)

CONSTANTS
  Threads,        \* thread handles
  InvalidHandle   \* the raw handle value 0

ASSUME HandleAssumption == InvalidHandle \notin Threads

VARIABLES
  image,    \* CriticalSection::image, the lock word
  waiters   \* waiters[o]: threads asleep on the lock, registered on owner o

kernelVars == <<image, waiters>>

Handles == Threads \cup {InvalidHandle}

Images == [owner : Handles, listeners : BOOLEAN]

Unlocked == [owner |-> InvalidHandle, listeners |-> FALSE]
HeldBy(t) == [owner |-> t, listeners |-> FALSE]
Contended(t) == [owner |-> t, listeners |-> TRUE]

Asleep(t) == \E o \in Threads : t \in waiters[o]

(***************************************************************************)
(* svcArbitrateLock(owner, &image, t).  The kernel compares the word with  *)
(* owner | HAS_LISTENERS: on a match the caller t sleeps behind the owner, *)
(* otherwise the call returns at once and the caller looks again.          *)
(***************************************************************************)
SleepBehind(t, owner) ==
  /\ waiters' = IF image = Contended(owner)
                THEN [waiters EXCEPT ![owner] = @ \cup {t}]
                ELSE waiters
  /\ UNCHANGED image

(***************************************************************************)
(* The kernel gives the lock of o to p, one of the threads asleep behind   *)
(* o, and re-registers the others behind p.  Which one is the scheduler's  *)
(* choice (priority, then arrival).                                        *)
(***************************************************************************)
HandOver(o, p) ==
  /\ p \in waiters[o]
  /\ image' = [owner |-> p, listeners |-> waiters[o] # {p}]
  /\ waiters' = [waiters EXCEPT ![o] = {}, ![p] = waiters[o] \ {p}]

(* svcArbitrateUnlock(&image) by o, also the first half of a condition     *)
(* variable wait.                                                          *)
GiveUp(o) ==
  \/ \E p \in Threads : HandOver(o, p)
  \/ /\ waiters[o] = {}
     /\ image' = Unlocked
     /\ UNCHANGED waiters

KernelInit ==
  /\ image = Unlocked
  /\ waiters = [t \in Threads |-> {}]

KernelTypeOK ==
  /\ image \in Images
  /\ image.owner = InvalidHandle => image = Unlocked
  /\ waiters \in [Threads -> SUBSET Threads]

=============================================================================
