---------------------------- MODULE ThreadProofs ----------------------------
(***************************************************************************)
(* For any clients, priorities, number of retries, lives and calls: the    *)
(* entrypoint runs when and only when it was asked for, the stack mirror   *)
(* is unmapped once and after the end, a join finds the thread exited, the *)
(* priorities agree, and only a failed creation makes the later calls      *)
(* abort.                                                                  *)
(***************************************************************************)
EXTENDS Thread, TLAPS

Creating == {"map", "make", "list"}
Starting == {"startEnter", "start", "startState"}
Joined == {"destroyEnterAgain", "destroyUnmap", "destroyClose"}
DestroyLabels ==
  Joined \cup {"destroyEnter", "destroyTest", "destroyStart", "destroySignal",
               "destroyLeave", "destroyJoin", "destroyed"}
ClientLabels ==
  {"idle", "waitJoin", "waitEnter", "waitUnmap", "leave", "prioEnter", "prioSvc",
   "prioField", "query"}
SelfLabels ==
  {"unborn", "boot", "test", "run", "exitEnter", "exit", "exitLeave", "gone"}

TypeOK ==
  /\ holder \in Threads \cup {InvalidHandle}
  /\ state \in {"Uninitialized", "Initialized", "Started", "Destroyed", "Exited"}
  /\ kernel_thread \in {"none", "created", "running", "exited"}
  /\ {is_alias_thread_stack_mapped, listed, kernel_handle, kernel_mapped} \subseteq BOOLEAN
  /\ pc \in [Threads -> SelfLabels \cup ClientLabels \cup DestroyLabels
                          \cup Creating \cup Starting]
  /\ arg \in [Threads -> Priorities]
  /\ {lives, starts, entered, unmaps} \subseteq Nat

(* Everybody keeps to the own part of the code.                            *)
Roles ==
  /\ pc[Self] \in SelfLabels
  /\ pc[Owner] \notin SelfLabels
  /\ \A c \in Clients \ {Owner} : pc[c] \in ClientLabels

InsideHolds ==
  \A t \in Threads :
    pc[t] \in {"test", "exit", "exitLeave", "start", "startState", "leave", "waitUnmap",
               "prioSvc", "prioField", "destroyTest", "destroyStart", "destroySignal",
               "destroyLeave", "destroyUnmap", "destroyClose", "destroyed"}
      => holder = t

(* While the owner creates or destroys, nobody else uses the object; it is *)
(* linked into the list last.                                              *)
OwnersAlone ==
  /\ pc[Owner] \in Creating \/ state = "Uninitialized" => ~listed
  /\ pc[Owner] \in Creating \cup DestroyLabels \/ state = "Uninitialized" =>
       \A c \in Clients \ {Owner} : Idle(c)

(* How far the owner is, and what it made of the state so far.             *)
OwnersProgress ==
  /\ pc[Owner] \in Creating \cup Starting => state = "Initialized"
  /\ pc[Owner] \in {"map", "make"} => kernel_thread = "none"
  /\ pc[Owner] = "startState" => kernel_thread = "running"
  /\ pc[Owner] = "destroyed" => state = "Uninitialized"
  /\ pc[Owner] = "destroyStart" => state = "Destroyed"
  /\ pc[Owner] \in {"destroySignal", "destroyLeave", "destroyJoin"} =>
       state # "Initialized"
  /\ starts <= 1
  /\ state = "Initialized" => starts = (IF pc[Owner] \in Starting THEN 1 ELSE 0)

(* What each state says about the kernel's thread.                         *)
StatesMean ==
  /\ state = "Uninitialized" =>
       /\ ~kernel_handle
       /\ pc[Owner] \in {"idle", "destroyed"}
       /\ kernel_thread = (IF lives = 0 THEN "none" ELSE "exited")
  /\ state # "Uninitialized" => lives > 0 /\ (kernel_handle <=> kernel_thread # "none")
  /\ state = "Initialized" =>
       IF pc[Owner] = "startState" THEN kernel_thread = "running"
                                   ELSE kernel_thread \in {"none", "created"}
  /\ state = "Destroyed" =>
       /\ starts = 0
       /\ \/ pc[Owner] = "destroyStart" /\ kernel_thread \in {"none", "created"}
          \/ /\ pc[Owner] \in {"destroySignal", "destroyLeave", "destroyJoin"}
             /\ kernel_thread = "running"
  /\ state = "Started" => kernel_thread = "running" /\ starts = 1
  /\ state = "Exited" => kernel_thread \in {"running", "exited"}

(* Where the new thread is.  It never finds the state undecided: whoever   *)
(* starts it holds the lock until the state is set.                        *)
SelfsProgress ==
  /\ pc[Self] = "unborn" <=> kernel_thread # "running"
  /\ pc[Self] \in {"boot", "test", "run"} =>
       state \in {"Initialized", "Destroyed", "Started"}
  /\ pc[Self] = "test" => state # "Initialized"
  /\ pc[Self] = "run" => state = "Started"
  /\ pc[Self] \in {"exitEnter", "exit"} => state \in {"Destroyed", "Started"}
  /\ pc[Self] \in {"exitLeave", "gone"} => state = "Exited"
  /\ kernel_thread = "exited" => state \in {"Exited", "Uninitialized"}
  /\ entered = IF \/ kernel_thread = "exited"
                  \/ pc[Self] \in {"exitEnter", "exit", "exitLeave", "gone"}
               THEN starts ELSE 0

NobodySleeps == sleeping = {}

JoinedAreLast ==
  /\ pc[Owner] \in Joined => kernel_thread = "exited"
  /\ \A t \in Clients : pc[t] \in {"waitEnter", "waitUnmap"} => kernel_thread = "exited"

(* The mirror, its flag and the count of unmappings.                       *)
MirrorCounted ==
  /\ pc[Owner] = "map" => ~is_alias_thread_stack_mapped /\ unmaps = 0
  /\ pc[Owner] = "make" =>
       is_alias_thread_stack_mapped /\ kernel_mapped /\ unmaps = 0
  /\ kernel_thread # "none" =>
       \/ is_alias_thread_stack_mapped /\ kernel_mapped /\ unmaps = 0
       \/ ~is_alias_thread_stack_mapped /\ unmaps = 1 /\ kernel_thread = "exited"
  /\ kernel_thread = "none" /\ pc[Owner] \notin {"map", "make"} => unmaps <= 1
  /\ pc[Owner] = "destroyClose" => unmaps = 1
  /\ state = "Uninitialized" => lives = 0 \/ unmaps = 1

(* A thread between the system call and the field is the only one there,   *)
(* and the kernel has the priority it is about to store.                   *)
PrioritiesSettled ==
  kernel_thread # "none" =>
    /\ \/ priority \notin Granted \/ priority = kernel_priority
       \/ \E t \in Clients : pc[t] = "prioField"
    /\ \A t \in Clients :
         pc[t] = "prioField" /\ arg[t] \in Granted => kernel_priority = arg[t]

IInv ==
  /\ TypeOK /\ Roles /\ InsideHolds /\ OwnersAlone /\ OwnersProgress /\ StatesMean
  /\ SelfsProgress /\ NobodySleeps /\ JoinedAreLast /\ MirrorCounted
  /\ PrioritiesSettled /\ AbortsOnFailedCreation

USE NobodyAssumption, ActorsAssumption, PrioritiesAssumption, BoundsAssumption

LEMMA InitIInv == Init => IInv
<1> SUFFICES ASSUME Init PROVE IInv
  OBVIOUS
<1> USE DEF Init, MonitorInit
<1>1. /\ ~is_alias_thread_stack_mapped /\ ~listed /\ ~kernel_handle /\ ~kernel_mapped
      /\ {is_alias_thread_stack_mapped, listed, kernel_handle, kernel_mapped} \subseteq BOOLEAN
  OBVIOUS
<1>2. /\ pc[Self] = "unborn" /\ \A c \in Clients : pc[c] = "idle"
      /\ Owner \in Clients /\ Owner # Self
      /\ state = "Uninitialized" /\ kernel_thread = "none"
  BY DEF Clients
<1>3. TypeOK
  BY <1>1 DEF TypeOK, SelfLabels, ClientLabels
<1>4. Roles /\ OwnersAlone /\ StatesMean /\ SelfsProgress
  BY <1>1, <1>2 DEF Roles, OwnersAlone, StatesMean, SelfsProgress, SelfLabels, ClientLabels, Idle
<1>5. InsideHolds /\ OwnersProgress /\ NobodySleeps /\ JoinedAreLast
  BY <1>2 DEF InsideHolds, OwnersProgress, NobodySleeps, JoinedAreLast, Clients, Creating,
              Starting, Joined
<1>6. MirrorCounted
  <2>1. lives = 0 /\ unmaps = 0
    OBVIOUS
  <2> HIDE DEF Init
  <2> QED BY <1>1, <1>2, <2>1 DEF MirrorCounted
<1>7. PrioritiesSettled /\ AbortsOnFailedCreation
  BY <1>2 DEF PrioritiesSettled, AbortsOnFailedCreation
<1> QED BY <1>3, <1>4, <1>5, <1>6, <1>7 DEF IInv

-----------------------------------------------------------------------------
(* Every step of one part of the code preserves the invariant.             *)
USE DEF IInv, TypeOK, Roles, InsideHolds, OwnersAlone, OwnersProgress, StatesMean,
        SelfsProgress, NobodySleeps, JoinedAreLast, MirrorCounted, PrioritiesSettled,
        AbortsOnFailedCreation, Creating, Starting, Joined, DestroyLabels, ClientLabels,
        SelfLabels, Clients, Idle, Go, Goto, Abort, AbortUnless, Usable, Destroying,
        object, kernel, history, locals, monitorVars

LEMMA EntryWrapperSafe ==
  ASSUME IInv, aborted = "no", EntryWrapper(Self) PROVE IInv'
<1>1. CASE EnterAt(Self, "boot", "test")
  BY <1>1 DEF EnterAt, Acquire
<1>2. CASE TestState(Self)
  BY <1>2 DEF TestState, Release, Sleep
<1>3. CASE RunEntrypoint(Self)
  BY <1>3 DEF RunEntrypoint
<1>4. CASE EnterAt(Self, "exitEnter", "exit")
  BY <1>4 DEF EnterAt, Acquire
<1>5. CASE SetExited(Self)
  BY <1>5 DEF SetExited, SignalAll
<1>6. CASE LeaveAt(Self, "exitLeave", "gone")
  BY <1>6 DEF LeaveAt, Release
<1>7. CASE ExitThread(Self)
  BY <1>7 DEF ExitThread
<1> QED BY <1>1, <1>2, <1>3, <1>4, <1>5, <1>6, <1>7 DEF EntryWrapper

LEMMA CreateSafe ==
  ASSUME IInv, aborted = "no", NEW t \in Clients, CreateThread(t) \/ CreateStep(t)
  PROVE  IInv'
<1>1. CASE CreateThread(t)
  <2>1. ~is_alias_thread_stack_mapped' /\ is_alias_thread_stack_mapped' \in BOOLEAN
    BY <1>1 DEF CreateThread
  <2>2. ~kernel_handle' /\ kernel_handle' \in BOOLEAN
    BY <1>1 DEF CreateThread
  <2> QED BY <1>1, <2>1, <2>2 DEF CreateThread
<1>2. CASE CreateAliasStack(t)
  <2>1. CASE pc[t] = "map" /\ AbortUnless(FALSE, t, "map", "svcMapMemory")
    BY <2>1
  <2>2. CASE ~AbortUnless(FALSE, t, "map", "svcMapMemory")
    <3>1. is_alias_thread_stack_mapped' /\ is_alias_thread_stack_mapped' \in BOOLEAN
      BY <1>2, <2>2 DEF CreateAliasStack
    <3>2. kernel_mapped' /\ kernel_mapped' \in BOOLEAN
      BY <1>2, <2>2 DEF CreateAliasStack
    <3>3. /\ pc[t] = "map" /\ pc' = [pc EXCEPT ![t] = "make"]
          /\ UNCHANGED <<monitorVars, state, priority, listed, kernel_thread,
                         kernel_handle, kernel_priority, locals, history>>
      BY <1>2, <2>2 DEF CreateAliasStack
    <3> QED BY <3>1, <3>2, <3>3
  <2> QED BY <1>2, <2>1, <2>2 DEF CreateAliasStack
<1>3. CASE MakeThread(t)
  BY <1>3 DEF MakeThread
<1>4. CASE MakeThreadAgain(t)
  BY <1>4 DEF MakeThreadAgain
<1>5. CASE MakeThreadFails(t)
  <2>1. kernel_mapped' \in BOOLEAN
    BY <1>5 DEF MakeThreadFails
  <2> QED BY <1>5, <2>1 DEF MakeThreadFails
<1>6. CASE MakeThreadAborts(t)
  BY <1>6 DEF MakeThreadAborts
<1>7. CASE AddThread(t)
  BY <1>7 DEF AddThread
<1> QED BY <1>1, <1>2, <1>3, <1>4, <1>5, <1>6, <1>7 DEF CreateStep

LEMMA StartSafe ==
  ASSUME IInv, aborted = "no", NEW t \in Clients, StartStep(t) PROVE IInv'
<1>1. CASE StartThread(t)
  BY <1>1 DEF StartThread
<1>2. CASE EnterAt(t, "startEnter", "start")
  BY <1>2 DEF EnterAt, Acquire
<1>3. CASE StartThreadUnsafe(t, "start", "startState")
  BY <1>3 DEF StartThreadUnsafe
<1>4. CASE SetStarted(t)
  BY <1>4 DEF SetStarted, SignalOne
<1> QED BY <1>1, <1>2, <1>3, <1>4 DEF StartStep

(* UnmapStack, once the thread has exited.                                 *)
LEMMA UnmapSafe ==
  ASSUME IInv, aborted = "no", NEW t \in Clients,
         \/ UnmapStack(t, "waitUnmap", "leave")
         \/ UnmapStack(t, "destroyUnmap", "destroyClose")
  PROVE  IInv'
<1>1. kernel_thread = "exited"
  BY DEF UnmapStack
<1>2. /\ ~is_alias_thread_stack_mapped' /\ is_alias_thread_stack_mapped' \in BOOLEAN
      /\ kernel_mapped' \in BOOLEAN
  BY DEF UnmapStack
<1>3. unmaps' = 1
  BY <1>1 DEF UnmapStack
<1>4. CASE UnmapStack(t, "waitUnmap", "leave")
  BY <1>1, <1>2, <1>3, <1>4 DEF UnmapStack
<1>5. CASE UnmapStack(t, "destroyUnmap", "destroyClose")
  BY <1>1, <1>2, <1>3, <1>5 DEF UnmapStack
<1> QED BY <1>4, <1>5

LEMMA WaitSafe ==
  ASSUME IInv, aborted = "no", NEW t \in Clients, WaitStep(t) PROVE IInv'
<1>1. CASE Call(t, "waitJoin") /\ (t = Owner => starts > 0) /\ UNCHANGED arg
  BY <1>1 DEF Call
<1>2. CASE WaitForExitThread(t, "waitJoin", "waitEnter")
  BY <1>2 DEF WaitForExitThread
<1>3. CASE EnterAt(t, "waitEnter", "waitUnmap")
  BY <1>3 DEF EnterAt, Acquire
<1> QED BY <1>1, <1>2, <1>3, UnmapSafe DEF WaitStep

LEMMA DestroySafe ==
  ASSUME IInv, aborted = "no", NEW t \in Clients, DestroyStep(t) PROVE IInv'
<1>1. CASE DestroyThread(t)
  BY <1>1 DEF DestroyThread
<1>2. CASE EnterAt(t, "destroyEnter", "destroyTest")
  BY <1>2 DEF EnterAt, Acquire
<1>3. CASE DestroyTest(t)
  BY <1>3 DEF DestroyTest
<1>4. CASE StartThreadUnsafe(t, "destroyStart", "destroySignal")
  BY <1>4 DEF StartThreadUnsafe
<1>5. CASE DestroySignal(t)
  BY <1>5 DEF DestroySignal, SignalOne
<1>6. CASE LeaveAt(t, "destroyLeave", "destroyJoin")
  BY <1>6 DEF LeaveAt, Release
<1>7. CASE WaitForExitThread(t, "destroyJoin", "destroyEnterAgain")
  BY <1>7 DEF WaitForExitThread
<1>8. CASE EnterAt(t, "destroyEnterAgain", "destroyUnmap")
  BY <1>8 DEF EnterAt, Acquire
<1>9. CASE DestroyClose(t)
  <2>1. CASE AbortUnless(kernel_handle, t, "destroyClose", "svcCloseHandle")
    BY <2>1
  <2>2. CASE ~AbortUnless(kernel_handle, t, "destroyClose", "svcCloseHandle")
    <3>1. ~kernel_handle' /\ kernel_handle' \in BOOLEAN
      BY <1>9, <2>2 DEF DestroyClose
    <3>2. ~listed' /\ listed' \in BOOLEAN
      BY <1>9, <2>2 DEF DestroyClose
    <3> QED BY <1>9, <2>2, <3>1, <3>2 DEF DestroyClose
  <2> QED BY <2>1, <2>2
<1>10. CASE LeaveAt(t, "destroyed", "idle")
  BY <1>10 DEF LeaveAt, Release
<1> QED
  BY <1>1, <1>2, <1>3, <1>4, <1>5, <1>6, <1>7, <1>8, <1>9, <1>10, UnmapSafe
  DEF DestroyStep

LEMMA PrioritySafe ==
  ASSUME IInv, aborted = "no", NEW t \in Clients, PriorityStep(t) \/ QueryStep(t)
  PROVE  IInv'
<1>1. ASSUME NEW p \in Priorities, Call(t, "prioEnter"), arg' = [arg EXCEPT ![t] = p]
      PROVE  IInv'
  BY <1>1 DEF Call
<1>2. CASE EnterAt(t, "prioEnter", "prioSvc")
  BY <1>2 DEF EnterAt, Acquire
<1>3. CASE SvcSetThreadPriority(t)
  BY <1>3 DEF SvcSetThreadPriority
<1>4. CASE SetPriorityField(t)
  BY <1>4 DEF SetPriorityField
<1>5. CASE QueryStep(t)
  BY <1>5 DEF QueryStep, Call
<1> QED BY <1>1, <1>2, <1>3, <1>4, <1>5 DEF PriorityStep

LEMMA LeaveSafe ==
  ASSUME IInv, NEW t \in Clients, LeaveAt(t, "leave", "idle") PROVE IInv'
BY DEF LeaveAt, Release

LEMMA StutterSafe == IInv /\ UNCHANGED vars => IInv'
BY DEF vars

HIDE DEF IInv, TypeOK, Roles, InsideHolds, OwnersAlone, OwnersProgress, StatesMean,
         SelfsProgress, NobodySleeps, JoinedAreLast, MirrorCounted, PrioritiesSettled,
         AbortsOnFailedCreation, Creating, Starting, Joined, DestroyLabels, ClientLabels,
         SelfLabels, Clients, Idle, Go, Goto, Abort, AbortUnless, Usable, Destroying,
         object, kernel, history, locals, monitorVars

LEMMA StepIInv == IInv /\ [Next]_vars => IInv'
<1>1. ASSUME IInv, aborted = "no", NEW t \in Clients, ClientStep(t) PROVE IInv'
  BY <1>1, CreateSafe, StartSafe, WaitSafe, DestroySafe, PrioritySafe, LeaveSafe
  DEF ClientStep
<1> QED BY <1>1, EntryWrapperSafe, StutterSafe DEF Next

LEMMA Invariance == Spec => []IInv
BY InitIInv, StepIInv, PTL DEF Spec

-----------------------------------------------------------------------------
(* _thread_entry_wrapper runs the entrypoint of a thread that was started, *)
(* once, and not of one that was destroyed first.                          *)
THEOREM EntryOnce == Spec => []EntryRunsOnce
<1>1. IInv => EntryRunsOnce
  BY DEF IInv, TypeOK, OwnersProgress, SelfsProgress, EntryRunsOnce
<1> QED BY <1>1, Invariance, PTL

(* However many WaitThread calls and DestroyThread try, the stack mirror   *)
(* is unmapped once, and not under a thread that runs.                     *)
THEOREM UnmapOnce == Spec => []UnmappedOnce
<1>1. IInv => UnmappedOnce
  BY DEF IInv, TypeOK, StatesMean, OwnersProgress, MirrorCounted, UnmappedOnce
<1> QED BY <1>1, Invariance, PTL

(* Whoever waited for the thread finds it exited and past its last access  *)
(* to the object, the Leave of _thread_entry_wrapper.                      *)
THEOREM JoinFindsExited == Spec => []JoinedMeansExited
<1>1. IInv => JoinedMeansExited
  BY DEF IInv, TypeOK, Roles, OwnersAlone, StatesMean, SelfsProgress, JoinedAreLast,
         JoinedMeansExited, ClientLabels, Clients, Joined, Idle
<1> QED BY <1>1, Invariance, PTL

(* Two changes of the priority never leave field and kernel apart.         *)
THEOREM PrioritiesKept == Spec => []PrioritiesAgree
<1>1. IInv => PrioritiesAgree
  BY DEF IInv, TypeOK, InsideHolds, PrioritiesSettled, PrioritiesAgree, Clients
<1> QED BY <1>1, Invariance, PTL

(* A thread that was created is never started twice, waited for after its  *)
(* handle was closed, or closed twice.                                     *)
THEOREM AbortsExplained == Spec => []AbortsOnFailedCreation
<1>1. IInv => AbortsOnFailedCreation
  BY DEF IInv
<1> QED BY <1>1, Invariance, PTL

=============================================================================
