------------------------------- MODULE Thread -------------------------------
(***************************************************************************)
(* hs::os::Thread: the life of one thread object, from CreateThread to     *)
(* DestroyThread, between its owner, other threads that wait for it or     *)
(* change its priority, and the thread itself in _thread_entry_wrapper.    *)
(* Lock and condition variable of the object are the ones Monitor          *)
(* promises; the kernel's side of the thread is external.                  *)
(***************************************************************************)
EXTENDS Monitor, Integers

CONSTANTS
  Self,         \* the thread whose object this is
  Owner,        \* the one that creates, starts and destroys it
  Priorities,   \* thread priorities
  Granted,      \* those the kernel lets this process use
  MaxRetries,   \* retries of svcCreateThread (8 in the code)
  MaxLives,     \* bound: creations
  MaxCalls      \* bound: calls each other client makes in one life

Clients == Threads \ {Self}

ASSUME ActorsAssumption == Self \in Threads /\ Owner \in Clients
ASSUME PrioritiesAssumption == Granted \subseteq Priorities
ASSUME BoundsAssumption == {MaxRetries, MaxLives, MaxCalls} \subseteq Nat

VARIABLES
  state, priority, is_alias_thread_stack_mapped,   \* fields of Thread
  listed,            \* the object is linked into ThreadList
  kernel_thread,     \* none, created, running or exited
  kernel_handle,     \* thread_handle is an open handle
  kernel_priority,
  kernel_mapped,     \* the stack mirror is mapped
  pc,
  arg,               \* arg[t]: the priority t is setting
  retry_count,
  aborted,           \* the system call whose error stopped the process
  lives, calls,      \* creations; calls of each client in this life
  starts, entered,   \* in this life: StartThread calls, runs of the entrypoint
  unmaps             \* in this life: times the stack mirror was unmapped

object == <<state, priority, is_alias_thread_stack_mapped, listed>>
kernel == <<kernel_thread, kernel_handle, kernel_priority, kernel_mapped>>
history == <<lives, calls, starts, entered, unmaps>>
vars == <<monitorVars, object, kernel, pc, arg, retry_count, aborted, history>>

locals == <<arg, retry_count, aborted>>

Goto(t, label) == pc' = [pc EXCEPT ![t] = label]

Go(t, from, to) == pc[t] = from /\ Goto(t, to)

EnterAt(t, from, to) ==
  /\ Go(t, from, to)
  /\ Acquire(t)
  /\ UNCHANGED <<object, kernel, locals, history>>

LeaveAt(t, from, to) ==
  /\ Go(t, from, to)
  /\ Release(t)
  /\ UNCHANGED <<object, kernel, locals, history>>

Abort(call) ==
  /\ aborted' = call
  /\ UNCHANGED <<monitorVars, object, kernel, pc, arg, retry_count, history>>

(* __HS_ABORT_CONDITIONAL_RESULT after a system call, where it strikes.    *)
AbortUnless(ok, t, at, call) == pc[t] = at /\ ~ok /\ Abort(call)

-----------------------------------------------------------------------------
(***************************************************************************)
(* CreateThread.  The object is the caller's alone until it returns.       *)
(***************************************************************************)
CreateThread(t) ==
  /\ pc[t] = "idle" /\ t = Owner /\ state = "Uninitialized" /\ lives < MaxLives
  /\ state' = "Initialized"
  /\ is_alias_thread_stack_mapped' = FALSE
  /\ priority' \in Granted
  /\ kernel_handle' = FALSE /\ kernel_thread' = "none"
  /\ lives' = lives + 1
  /\ calls' = [c \in Threads |-> 0]
  /\ starts' = 0 /\ entered' = 0 /\ unmaps' = 0
  /\ pc' = [pc EXCEPT ![t] = "map", ![Self] = "unborn"]
  /\ retry_count' = 0
  /\ UNCHANGED <<monitorVars, listed, kernel_priority, kernel_mapped, arg, aborted>>

CreateAliasStack(t) ==
  /\ pc[t] = "map"
  /\ \/ /\ Goto(t, "make")
        /\ kernel_mapped' = TRUE
        /\ is_alias_thread_stack_mapped' = TRUE
        /\ UNCHANGED <<monitorVars, state, priority, listed, kernel_thread,
                       kernel_handle, kernel_priority, locals, history>>
     \/ AbortUnless(FALSE, t, "map", "svcMapMemory")

(* svcCreateThread: done, out of resource (retry, in the end undo the      *)
(* mapping), or another error.                                             *)
MakeThread(t) ==
  /\ Go(t, "make", "list")
  /\ kernel_thread' = "created" /\ kernel_handle' = TRUE
  /\ kernel_priority' = priority
  /\ UNCHANGED <<monitorVars, object, kernel_mapped, locals, history>>

MakeThreadAgain(t) ==
  /\ pc[t] = "make" /\ retry_count < MaxRetries
  /\ retry_count' = retry_count + 1
  /\ UNCHANGED <<monitorVars, object, kernel, pc, arg, aborted, history>>

MakeThreadFails(t) ==
  /\ Go(t, "make", "list") /\ retry_count = MaxRetries
  /\ kernel_mapped' = FALSE
  /\ unmaps' = unmaps + 1
  /\ UNCHANGED <<monitorVars, object, kernel_thread, kernel_handle, kernel_priority,
                 locals, lives, calls, starts, entered>>

MakeThreadAborts(t) == AbortUnless(FALSE, t, "make", "svcCreateThread")

AddThread(t) ==
  /\ Go(t, "list", "idle")
  /\ listed' = TRUE
  /\ UNCHANGED <<monitorVars, state, priority, is_alias_thread_stack_mapped, kernel,
                 locals, history>>

-----------------------------------------------------------------------------
(* svcStartThread, from StartThread and from DestroyThread: an error for a *)
(* thread that is not there or runs already.                               *)
StartThreadUnsafe(t, from, to) ==
  \/ /\ kernel_thread = "created" /\ kernel_handle
     /\ kernel_thread' = "running"
     /\ pc[t] = from
     /\ pc' = [pc EXCEPT ![t] = to, ![Self] = "boot"]
     /\ UNCHANGED <<monitorVars, object, kernel_handle, kernel_priority, kernel_mapped,
                    locals, history>>
  \/ AbortUnless(kernel_thread = "created" /\ kernel_handle, t, from, "svcStartThread")

StartThread(t) ==
  /\ Go(t, "idle", "startEnter") /\ t = Owner /\ state = "Initialized"
  /\ starts' = starts + 1
  /\ UNCHANGED <<monitorVars, object, kernel, locals, lives, calls, entered, unmaps>>

SetStarted(t) ==
  /\ Go(t, "startState", "leave")
  /\ state' = "Started"
  /\ SignalOne
  /\ UNCHANGED <<priority, is_alias_thread_stack_mapped, listed, kernel, locals, history>>

StartStep(t) ==
  \/ StartThread(t) \/ EnterAt(t, "startEnter", "start")
  \/ StartThreadUnsafe(t, "start", "startState") \/ SetStarted(t)

-----------------------------------------------------------------------------
(* Faulty variant: the entrypoint runs whatever the state is.              *)
TestStateIgnored(t) ==
  /\ pc[t] = "test"
  /\ IF state = "Initialized"
     THEN Sleep(t) /\ Goto(t, "boot")
     ELSE Release(t) /\ Goto(t, "run")
  /\ UNCHANGED <<object, kernel, locals, history>>

(***************************************************************************)
(* _thread_entry_wrapper, in the new thread.  Waiting leads back to "boot":*)
(* Wait returns with the lock, like the first Enter.                       *)
(***************************************************************************)
TestState(t) ==
  /\ pc[t] = "test"
  /\ IF state = "Initialized"
     THEN Sleep(t) /\ Goto(t, "boot")
     ELSE Release(t) /\ Goto(t, IF state = "Started" THEN "run" ELSE "exitEnter")
  /\ UNCHANGED <<object, kernel, locals, history>>

RunEntrypoint(t) ==
  /\ Go(t, "run", "exitEnter")
  /\ entered' = entered + 1
  /\ UNCHANGED <<monitorVars, object, kernel, locals, lives, calls, starts, unmaps>>

SetExited(t) ==
  /\ Go(t, "exit", "exitLeave")
  /\ state' = "Exited"
  /\ SignalAll
  /\ UNCHANGED <<priority, is_alias_thread_stack_mapped, listed, kernel, locals, history>>

ExitThread(t) ==
  /\ Go(t, "gone", "unborn")
  /\ kernel_thread' = "exited"
  /\ UNCHANGED <<monitorVars, object, kernel_handle, kernel_priority, kernel_mapped,
                 locals, history>>

EntryWrapper(t) ==
  \/ EnterAt(t, "boot", "test") \/ TestState(t) \/ RunEntrypoint(t)
  \/ EnterAt(t, "exitEnter", "exit") \/ SetExited(t)
  \/ LeaveAt(t, "exitLeave", "gone") \/ ExitThread(t)

-----------------------------------------------------------------------------
(***************************************************************************)
(* What the clients do while the thread is starting, running or exiting.   *)
(* Only the owner starts and destroys, and it destroys when no other       *)
(* client is in a call.  A failed creation leaves the object as good as    *)
(* new, so the calls are made on it too.                                   *)
(***************************************************************************)
Idle(t) == pc[t] = "idle"

Usable == state # "Uninitialized" /\ listed

Destroying ==
  pc[Owner] \in {"destroyEnter", "destroyTest", "destroyStart", "destroySignal",
                "destroyLeave", "destroyJoin", "destroyEnterAgain", "destroyUnmap",
                "destroyClose", "destroyed"}

Call(t, label) ==
  /\ Go(t, "idle", label)
  /\ Usable /\ ~Destroying /\ calls[t] < MaxCalls
  /\ calls' = [calls EXCEPT ![t] = @ + 1]
  /\ UNCHANGED <<monitorVars, object, kernel, retry_count, aborted,
                 lives, starts, entered, unmaps>>

(* Faulty variant: a join on the state, which the thread sets before it    *)
(* signals and leaves, and not on the kernel's thread.                     *)
WaitForExitedState(t, from, to) ==
  /\ Go(t, from, to)
  /\ state = "Exited"
  /\ UNCHANGED <<monitorVars, object, kernel, locals, history>>

(* svcWaitSynchronization on the thread; a cancelled wait is made again.   *)
WaitForExitThread(t, from, to) ==
  \/ /\ Go(t, from, to)
     /\ kernel_handle /\ kernel_thread = "exited"
     /\ UNCHANGED <<monitorVars, object, kernel, locals, history>>
  \/ AbortUnless(kernel_handle, t, from, "svcWaitSynchronization")

(* Faulty variant: the flag is not reset.                                  *)
UnmapStackKeepsFlag(t, from, to) ==
  /\ Go(t, from, to)
  /\ kernel_mapped' = (kernel_mapped /\ ~is_alias_thread_stack_mapped)
  /\ unmaps' = IF is_alias_thread_stack_mapped THEN unmaps + 1 ELSE unmaps
  /\ UNCHANGED <<monitorVars, object, kernel_thread, kernel_handle, kernel_priority,
                 locals, lives, calls, starts, entered>>

UnmapStack(t, from, to) ==
  /\ Go(t, from, to)
  /\ kernel_mapped' = (kernel_mapped /\ ~is_alias_thread_stack_mapped)
  /\ unmaps' = IF is_alias_thread_stack_mapped THEN unmaps + 1 ELSE unmaps
  /\ is_alias_thread_stack_mapped' = FALSE
  /\ UNCHANGED <<monitorVars, state, priority, listed, kernel_thread, kernel_handle,
                 kernel_priority, locals, lives, calls, starts, entered>>

WaitStep(t) ==
  \/ Call(t, "waitJoin") /\ (t = Owner => starts > 0) /\ UNCHANGED arg
  \/ WaitForExitThread(t, "waitJoin", "waitEnter")
  \/ EnterAt(t, "waitEnter", "waitUnmap")
  \/ UnmapStack(t, "waitUnmap", "leave")

DestroyThread(t) ==
  /\ Go(t, "idle", "destroyEnter") /\ t = Owner
  /\ Usable /\ \A c \in Clients : Idle(c)
  /\ UNCHANGED <<monitorVars, object, kernel, locals, history>>

(* Faulty variant: a thread that was never started is not woken to exit.   *)
DestroyTestForgets(t) ==
  /\ Go(t, "destroyTest", "destroyLeave")
  /\ state' = IF state = "Initialized" THEN "Destroyed" ELSE state
  /\ UNCHANGED <<monitorVars, priority, is_alias_thread_stack_mapped, listed, kernel,
                 locals, history>>

(* Faulty variant: the thread is started again if it is running already.   *)
DestroyTestAlways(t) ==
  /\ Go(t, "destroyTest", "destroyStart")
  /\ state' = IF state = "Initialized" THEN "Destroyed" ELSE state
  /\ UNCHANGED <<monitorVars, priority, is_alias_thread_stack_mapped, listed, kernel,
                 locals, history>>

DestroyTest(t) ==
  /\ Go(t, "destroyTest", IF state = "Initialized" THEN "destroyStart" ELSE "destroyLeave")
  /\ state' = IF state = "Initialized" THEN "Destroyed" ELSE state
  /\ UNCHANGED <<monitorVars, priority, is_alias_thread_stack_mapped, listed, kernel,
                 locals, history>>

DestroySignal(t) ==
  /\ Go(t, "destroySignal", "destroyLeave")
  /\ SignalOne
  /\ UNCHANGED <<object, kernel, locals, history>>

(* DestroyThreadUnsafe closes the handle; RemoveThread unlinks the object. *)
DestroyClose(t) ==
  \/ /\ Go(t, "destroyClose", "destroyed")
     /\ kernel_handle
     /\ kernel_handle' = FALSE
     /\ listed' = FALSE
     /\ state' = "Uninitialized"
     /\ UNCHANGED <<monitorVars, priority, is_alias_thread_stack_mapped,
                    kernel_thread, kernel_priority, kernel_mapped, locals, history>>
  \/ AbortUnless(kernel_handle, t, "destroyClose", "svcCloseHandle")

DestroyStep(t) ==
  \/ DestroyThread(t) \/ EnterAt(t, "destroyEnter", "destroyTest") \/ DestroyTest(t)
  \/ StartThreadUnsafe(t, "destroyStart", "destroySignal") \/ DestroySignal(t)
  \/ LeaveAt(t, "destroyLeave", "destroyJoin")
  \/ WaitForExitThread(t, "destroyJoin", "destroyEnterAgain")
  \/ EnterAt(t, "destroyEnterAgain", "destroyUnmap")
  \/ UnmapStack(t, "destroyUnmap", "destroyClose") \/ DestroyClose(t)
  \/ LeaveAt(t, "destroyed", "idle")

(* The kernel refuses a priority the process may not use, and a handle it  *)
(* does not know; the caller does not look at the result.                  *)
SvcSetThreadPriority(t) ==
  /\ Go(t, "prioSvc", "prioField")
  /\ kernel_priority' = IF kernel_handle /\ arg[t] \in Granted THEN arg[t] ELSE kernel_priority
  /\ UNCHANGED <<monitorVars, object, kernel_thread, kernel_handle, kernel_mapped,
                 locals, history>>

SetPriorityField(t) ==
  /\ Go(t, "prioField", "leave")
  /\ priority' = arg[t]
  /\ UNCHANGED <<monitorVars, state, is_alias_thread_stack_mapped, listed, kernel,
                 locals, history>>

(* Faulty variant: the priority is changed without the lock.               *)
PriorityStepUnlocked(t) ==
  \/ \E p \in Priorities : Call(t, "prioSvc") /\ arg' = [arg EXCEPT ![t] = p]
  \/ SvcSetThreadPriority(t)
  \/ /\ Go(t, "prioField", "idle")
     /\ priority' = arg[t]
     /\ UNCHANGED <<monitorVars, state, is_alias_thread_stack_mapped, listed, kernel,
                    locals, history>>

PriorityStep(t) ==
  \/ \E p \in Priorities : Call(t, "prioEnter") /\ arg' = [arg EXCEPT ![t] = p]
  \/ EnterAt(t, "prioEnter", "prioSvc")
  \/ SvcSetThreadPriority(t) \/ SetPriorityField(t)

(* GetCurrentThreadPriority asks the kernel.                               *)
QueryStep(t) ==
  \/ Call(t, "query") /\ UNCHANGED arg
  \/ Go(t, "query", "idle") /\ kernel_handle /\ UNCHANGED <<monitorVars, object, kernel, locals, history>>
  \/ AbortUnless(kernel_handle, t, "query", "svcGetThreadPriority")

-----------------------------------------------------------------------------
Init ==
  /\ MonitorInit
  /\ state = "Uninitialized" /\ priority \in Priorities /\ kernel_priority = priority
  /\ is_alias_thread_stack_mapped = FALSE /\ listed = FALSE
  /\ kernel_thread = "none" /\ kernel_handle = FALSE /\ kernel_mapped = FALSE
  /\ pc = [t \in Threads |-> IF t = Self THEN "unborn" ELSE "idle"]
  /\ arg = [t \in Threads |-> priority]
  /\ retry_count = 0 /\ aborted = "no"
  /\ lives = 0 /\ calls = [t \in Threads |-> 0]
  /\ starts = 0 /\ entered = 0 /\ unmaps = 0

CreateStep(t) ==
  \/ CreateAliasStack(t) \/ MakeThread(t) \/ MakeThreadAgain(t)
  \/ MakeThreadFails(t) \/ MakeThreadAborts(t) \/ AddThread(t)

ClientStep(t) ==
  \/ CreateThread(t) \/ CreateStep(t) \/ StartStep(t)
  \/ WaitStep(t) \/ DestroyStep(t) \/ PriorityStep(t) \/ QueryStep(t)
  \/ LeaveAt(t, "leave", "idle")

Next ==
  /\ aborted = "no"
  /\ EntryWrapper(Self) \/ \E t \in Clients : ClientStep(t)

Spec == Init /\ [][Next]_vars

(* Whoever is in a call, and the new thread, is scheduled; the entrypoint  *)
(* returns some time.  Nobody has to make a call.                          *)
Fairness ==
  /\ WF_vars(aborted = "no" /\ EntryWrapper(Self))
  /\ \A t \in Clients : WF_vars(aborted = "no" /\ ~Idle(t) /\ ClientStep(t))

FairSpec == Spec /\ Fairness

-----------------------------------------------------------------------------
(* The entrypoint runs once for a thread that was started and never for    *)
(* one that was destroyed before, whatever the order in which the new      *)
(* thread and StartThread or DestroyThread get the lock.                   *)
EntryRunsOnce ==
  /\ entered <= starts /\ starts <= 1
  /\ kernel_thread = "exited" => entered = starts

(* The mirror of the stack is unmapped exactly once in the life of the     *)
(* object, though every WaitThread and DestroyThread tries: a second time  *)
(* could hit the mapping of another thread that got the same addresses.    *)
(* And not while the thread may still run on it.                           *)
UnmappedOnce ==
  /\ unmaps <= 1
  /\ lives > 0 /\ state = "Uninitialized" => unmaps = 1
  /\ kernel_thread = "running" => kernel_mapped

(* Past svcWaitSynchronization the thread has run to its end: it has set   *)
(* the state Exited, and it has also made its last access to the object,   *)
(* the Leave behind that.  So WaitThread and DestroyThread do not unmap    *)
(* the stack of, and DestroyThread does not give up, an object that the    *)
(* thread is yet to signal through or to unlock.                           *)
JoinedMeansExited ==
  \A t \in Clients :
    pc[t] \in {"waitEnter", "waitUnmap", "destroyEnterAgain", "destroyUnmap", "destroyClose"}
      => state = "Exited" /\ pc[Self] \in {"gone", "unborn"}

(* "thread priority is now priority": after ChangeThreadPriority the field *)
(* and the kernel agree, whichever of two changes came last, so            *)
(* GetOriginalThreadPriority and GetCurrentThreadPriority tell the same.   *)
(* (A priority the kernel refuses stays in the field alone.)               *)
PrioritiesAgree ==
  kernel_thread # "none" /\ holder = InvalidHandle /\ priority \in Granted
    => priority = kernel_priority

(* The aborts on svcStartThread, svcWaitSynchronization, svcCloseHandle    *)
(* and svcGetThreadPriority strike only where the creation had failed: a   *)
(* thread that exists is started once and its handle is closed last.       *)
AbortsOnFailedCreation ==
  aborted \in {"svcStartThread", "svcWaitSynchronization", "svcCloseHandle", "svcGetThreadPriority"}
    => ~kernel_handle /\ kernel_thread = "none"

(* Every call of the owner comes to an end: CreateThread stops retrying,   *)
(* StartThread and WaitThread return, and so does DestroyThread, whether   *)
(* the thread was started or not, once the entrypoint has.                 *)
OwnerReturns == ~Idle(Owner) ~> Idle(Owner) \/ aborted # "no"

=============================================================================
