----------------------------- MODULE ThreadList -----------------------------
(***************************************************************************)
(* The process around the threads: start-up on the main thread             *)
(* (hs::init::Start), the thread context in thread-local storage, and the  *)
(* list of all thread objects, which is changed and walked under a lock    *)
(* that is entered with the handle the context names.                      *)
(*                                                                         *)
(* The list's pointers are those of IntrusiveListElement, written one at a *)
(* time; the lock is the one Monitor promises, its threads being handles.  *)
(* Calls on one object do not overlap here: Thread shows how the lock of   *)
(* the object orders them.                                                 *)
(***************************************************************************)
EXTENDS Monitor, IntrusiveListElement, Integers, Sequences, FiniteSets

CONSTANTS
  MainThread,
  Root,          \* the root of the list
  NoThread,      \* a null context
  NameLengths,   \* the lengths of the names clients give
  MaxCalls       \* bound: calls of all clients

ASSUME FiniteAssumption == IsFiniteSet(Threads)
ASSUME MainAssumption == MainThread \in Threads
ASSUME ListAssumption == Root \notin Threads /\ NoThread \notin Threads
ASSUME LimitAssumption == MaxCalls \in Nat /\ NameLengths \subseteq Nat

VARIABLES
  links,                               \* the pointers of Root and all objects
  thread_handle, state, thread_name,   \* fields of the objects; a name is its length
  context,     \* context[t]: the object thread t finds in its local storage
  kernel,      \* the kernel's thread: none, created, running, exited or closed
  creator,     \* who called CreateThread for an object
  pc,
  local,       \* local[t]: the variables of the call t is in
  over,        \* the process: no, aborted or exited
  calls,
  added        \* history: the objects on the list, in the order they came

objects == <<links, thread_handle, state, thread_name>>
system == <<context, kernel, creator, over>>
vars == <<monitorVars, objects, system, pc, local, calls, added>>

THREAD_NAME_SIZE == 32

(* The lengths of the names the library gives, and of all that fit.        *)
MainThreadName == 10      \* "MainThread"
UnnamedThreadName == 13   \* "UnnamedThread"
Names ==
  {length \in {MainThreadName, UnnamedThreadName} \cup NameLengths : length < THREAD_NAME_SIZE}

NoLocals == [thread |-> NoThread, i |-> 0, link |-> Root, last_link |-> Root, seen |-> <<>>]

(* The handle under which a thread enters locks.                           *)
GetCurrentThreadHandle(t) ==
  IF context[t] = NoThread THEN InvalidHandle ELSE thread_handle[context[t]]

SetThreadContext(t, object) == context' = [context EXCEPT ![t] = object]

(* What a name becomes that is set to one of the given length.             *)
SetThreadName(names, object, length) ==
  IF length >= THREAD_NAME_SIZE THEN names ELSE [names EXCEPT ![object] = length]

Goto(t, label) == pc' = [pc EXCEPT ![t] = label]

Go(t, from, to) == pc[t] = from /\ Goto(t, to)

Assign(t, field, value) == local' = [local EXCEPT ![t][field] = value]

(* A call that only moves on, and one that returns and forgets its locals. *)
Stay == UNCHANGED <<monitorVars, objects, system, calls, added>>

Return(t, from) == Go(t, from, "idle") /\ local' = [local EXCEPT ![t] = NoLocals]

EnterList(t, from, to) ==
  /\ Go(t, from, to) /\ Acquire(GetCurrentThreadHandle(t))
  /\ UNCHANGED <<objects, system, local, calls, added>>

LeaveList(t) == Release(GetCurrentThreadHandle(t))

Abort == over' = "aborted" /\ UNCHANGED <<monitorVars, objects, context, kernel, creator,
                                          pc, local, calls, added>>

-----------------------------------------------------------------------------
(***************************************************************************)
(* hs::init::Start, before there is a second thread.                       *)
(***************************************************************************)
ThreadListCtor(t) ==
  /\ Go(t, "ctor", "context")
  /\ thread_handle' = [thread_handle EXCEPT ![MainThread] = t]
  /\ state' = [state EXCEPT ![MainThread] = "Uninitialized"]
  /\ thread_name' = SetThreadName(thread_name, MainThread, MainThreadName)
  /\ links' = LinkPrev(Construct(Construct(links, Root), MainThread), Root, MainThread, MainThread)
  /\ added' = <<MainThread>>
  /\ UNCHANGED <<monitorVars, system, local, calls>>

InitMainThread(t) ==
  /\ Go(t, "context", "allocators") /\ Assign(t, "i", 1)
  /\ SetThreadContext(t, MainThread)
  /\ UNCHANGED <<monitorVars, objects, kernel, creator, over, calls, added>>

(* Four svcGetInfo, base and size of two regions; an error aborts.         *)
InitializeVirtualMemoryAllocators(t) ==
  /\ pc[t] = "allocators"
  /\ \/ local[t].i < 4 /\ Assign(t, "i", local[t].i + 1) /\ UNCHANGED pc /\ Stay
     \/ local[t].i = 4 /\ Return(t, "allocators") /\ Stay
     \/ Abort

(* hsMain returns, and with it every thread ends.                          *)
ExitProcess(t) ==
  /\ pc[t] = "idle" /\ t = MainThread
  /\ over' = "exited"
  /\ UNCHANGED <<monitorVars, objects, context, kernel, creator, pc, local, calls, added>>

Start(t) ==
  \/ ThreadListCtor(t) \/ InitMainThread(t)
  \/ InitializeVirtualMemoryAllocators(t)

-----------------------------------------------------------------------------
(* A client calls a function for an object nobody else is using.           *)
InUse(object) == \E t \in Threads : pc[t] # "idle" /\ local[t].thread = object

Call(t, label, object) ==
  /\ Go(t, "idle", label) /\ calls < MaxCalls
  /\ calls' = calls + 1
  /\ local' = [local EXCEPT ![t] = [NoLocals EXCEPT !.thread = object]]

CallFor(t, label, object) == ~InUse(object) /\ Call(t, label, object)

(* A call that is one step here.                                           *)
Instant(t, object) ==
  /\ pc[t] = "idle" /\ calls < MaxCalls /\ ~InUse(object)
  /\ calls' = calls + 1
  /\ UNCHANGED <<pc, local>>

(***************************************************************************)
(* CreateThread.  The kernel may be out of threads: the object is listed   *)
(* all the same.                                                           *)
(***************************************************************************)
CreateThread(t, object) ==
  /\ CallFor(t, "alias", object)
  /\ object # MainThread /\ state[object] = "Uninitialized"
  /\ links' = Construct(links, object)
  /\ thread_handle' = [thread_handle EXCEPT ![object] = InvalidHandle]
  /\ state' = [state EXCEPT ![object] = "Initialized"]
  /\ thread_name' = [thread_name EXCEPT ![object] = 0]
  /\ creator' = [creator EXCEPT ![object] = t]
  /\ kernel' = [kernel EXCEPT ![object] = "none"]
  /\ UNCHANGED <<monitorVars, context, over, added>>

CreateAliasStack(t) ==
  \/ Go(t, "alias", "make") /\ Stay /\ UNCHANGED local
  \/ pc[t] = "alias" /\ Abort

CreateThreadUnsafe(t) ==
  LET object == local[t].thread
  IN \/ /\ Go(t, "make", "name")
        /\ kernel' = [kernel EXCEPT ![object] = "created"]
        /\ thread_handle' = [thread_handle EXCEPT ![object] = object]
        /\ UNCHANGED <<monitorVars, links, state, thread_name, context, creator, over,
                       local, calls, added>>
     \/ Go(t, "make", "name") /\ Stay /\ UNCHANGED local
     \/ pc[t] = "make" /\ Abort

NameThread(t) ==
  /\ Go(t, "name", "addEnter")
  /\ thread_name' = SetThreadName(thread_name, local[t].thread, UnnamedThreadName)
  /\ UNCHANGED <<monitorVars, links, thread_handle, state, system, local, calls, added>>

(* list.push_back(thread), that is root.LinkPrev(&thread).                 *)
PushBack(t) ==
  LET call == local[t]
      link == IF call.i = 0 THEN links.prev[call.thread] ELSE call.link
  IN /\ Go(t, "adding", IF call.i = 3 THEN "addLeave" ELSE "adding")
     /\ links' = LinkPrevStore(links, call.i + 1, Root, call.thread, link)
     /\ local' = [local EXCEPT ![t].i = (@ + 1) % 4, ![t].link = link]
     /\ added' = IF call.i = 3 THEN Append(added, call.thread) ELSE added
     /\ UNCHANGED <<monitorVars, thread_handle, state, thread_name, system, calls>>

AddThread(t) ==
  \/ EnterList(t, "addEnter", "adding")
  \/ PushBack(t)
  \/ /\ Return(t, "addLeave") /\ LeaveList(t)
     /\ UNCHANGED <<objects, system, calls, added>>

-----------------------------------------------------------------------------
StartThread(t, object) ==
  /\ Instant(t, object)
  /\ creator[object] = t /\ state[object] = "Initialized" /\ kernel[object] = "created"
  /\ state' = [state EXCEPT ![object] = "Started"]
  /\ kernel' = [kernel EXCEPT ![object] = "running"]
  /\ UNCHANGED <<monitorVars, links, thread_handle, thread_name, context, creator, over, added>>

(* Faulty variant: the context stays what it was.                          *)
EntryContextForgotten(t) == Go(t, "boot", "test") /\ Stay /\ UNCHANGED local

(* _thread_entry_wrapper, up to the entrypoint and after it.               *)
EntryContext(t) ==
  /\ Go(t, "boot", "test")
  /\ SetThreadContext(t, t)
  /\ UNCHANGED <<monitorVars, objects, kernel, creator, over, local, calls, added>>

EntryTest(t) ==
  Go(t, "test", IF state[t] = "Started" THEN "idle" ELSE "exit") /\ Stay /\ UNCHANGED local

EntrypointReturns(t) == t # MainThread /\ Go(t, "idle", "exit") /\ Stay /\ UNCHANGED local

(* What the thread has created is its creator's to destroy from now on.    *)
EntryExit(t) ==
  /\ Go(t, "exit", "boot")
  /\ state' = [state EXCEPT ![t] = "Exited"]
  /\ kernel' = [kernel EXCEPT ![t] = "exited"]
  /\ creator' = [o \in Threads |-> creator[IF creator[o] = t THEN t ELSE o]]
  /\ UNCHANGED <<monitorVars, links, thread_handle, thread_name, context, over,
                 local, calls, added>>

-----------------------------------------------------------------------------
(***************************************************************************)
(* DestroyThread, by the creator, which waits until the thread has exited. *)
(***************************************************************************)
DestroyThread(t, object) ==
  /\ CallFor(t, "join", object)
  /\ creator[object] = t /\ state[object] # "Uninitialized" /\ kernel[object] # "none"
  /\ IF state[object] = "Initialized"
     THEN /\ state' = [state EXCEPT ![object] = "Destroyed"]
          /\ kernel' = [kernel EXCEPT ![object] = "running"]
     ELSE UNCHANGED <<state, kernel>>
  /\ UNCHANGED <<monitorVars, links, thread_handle, thread_name, context, creator, over, added>>

WaitForExitThread(t) ==
  Go(t, "join", "close") /\ kernel[local[t].thread] = "exited" /\ Stay /\ UNCHANGED local

DestroyThreadUnsafe(t) ==
  /\ Go(t, "close", "removeEnter")
  /\ kernel' = [kernel EXCEPT ![local[t].thread] = "closed"]
  /\ UNCHANGED <<monitorVars, objects, context, creator, over, local, calls, added>>

(* The sequence s without its element e.                                   *)
Without(s, e) ==
  LET k == CHOOSE k \in 1..Len(s) : s[k] = e
  IN [i \in 1 .. Len(s) - 1 |-> IF i < k THEN s[i] ELSE s[i + 1]]

(* thread.Unlink(), that is Unlink(next).                                  *)
UnlinkThread(t) ==
  LET call == local[t]
      last_link == IF call.i = 0 THEN links.next[call.thread] ELSE call.last_link
      link == IF call.i = 0 THEN links.prev[last_link] ELSE call.link
  IN /\ Go(t, "removing", IF call.i = 3 THEN "removeLeave" ELSE "removing")
     /\ links' = UnlinkStore(links, call.i + 1, call.thread, last_link, link)
     /\ local' = [local EXCEPT ![t].i = (@ + 1) % 4, ![t].link = link, ![t].last_link = last_link]
     /\ added' = IF call.i = 3 THEN Without(added, call.thread) ELSE added
     /\ UNCHANGED <<monitorVars, thread_handle, state, thread_name, system, calls>>

(* Faulty variant: the list is changed without its lock.                   *)
RemoveThreadUnlocked(t) ==
  \/ Go(t, "removeEnter", "removing") /\ Stay /\ UNCHANGED local
  \/ UnlinkThread(t)
  \/ Go(t, "removeLeave", "reset") /\ Stay /\ UNCHANGED local

(* The object is not the main thread's: that one does not exit.            *)
RemoveThread(t) ==
  \/ EnterList(t, "removeEnter", "removing")
  \/ UnlinkThread(t)
  \/ /\ Go(t, "removeLeave", "reset") /\ LeaveList(t)
     /\ UNCHANGED <<objects, system, local, calls, added>>

ResetThread(t) ==
  /\ Return(t, "reset")
  /\ state' = [state EXCEPT ![local[t].thread] = "Uninitialized"]
  /\ thread_name' = [thread_name EXCEPT ![local[t].thread] = 0]
  /\ UNCHANGED <<monitorVars, links, thread_handle, system, calls, added>>

-----------------------------------------------------------------------------
SetName(t, object, length) ==
  /\ Instant(t, object) /\ state[object] # "Uninitialized"
  /\ thread_name' = SetThreadName(thread_name, object, length)
  /\ UNCHANGED <<monitorVars, links, thread_handle, state, system, added>>

(* Aquire, a loop over the list, and Release.                              *)
Walk(t) ==
  /\ Call(t, "walkEnter", NoThread)
  /\ UNCHANGED <<monitorVars, objects, system, added>>

Begin(t) ==
  Go(t, "begin", "walking") /\ Assign(t, "link", links.next[Root]) /\ Stay

Visit(t) ==
  LET object == local[t].link
  IN IF object # Root
     THEN /\ pc[t] = "walking" /\ UNCHANGED pc
          /\ local' = [local EXCEPT ![t].seen = Append(@, object), ![t].link = links.next[object]]
          /\ Stay
     ELSE Go(t, "walking", "walkLeave") /\ UNCHANGED local /\ Stay

(* Faulty variant: the list is handed out without its lock, and Release    *)
(* has nothing to do.                                                      *)
WalkStepUnlocked(t) ==
  \/ Go(t, "walkEnter", "begin") /\ Stay /\ UNCHANGED local
  \/ Begin(t) \/ Visit(t)
  \/ Return(t, "walkLeave") /\ Stay

(* Faulty variant: the lock is kept.                                       *)
ReleaseForgotten(t) == Return(t, "walkLeave") /\ Stay

Aquire(t) == EnterList(t, "walkEnter", "begin")

ReleaseList(t) ==
  Return(t, "walkLeave") /\ LeaveList(t) /\ UNCHANGED <<objects, system, calls, added>>

WalkStep(t) == Aquire(t) \/ Begin(t) \/ Visit(t) \/ ReleaseList(t)

-----------------------------------------------------------------------------
(* No object is constructed: pointers and contexts are what was in memory. *)
Init ==
  /\ MonitorInit
  /\ links = [prev |-> [n \in Threads \cup {Root} |-> Root],
              next |-> [n \in Threads \cup {Root} |-> Root]]
  /\ thread_handle = [t \in Threads |-> InvalidHandle]
  /\ state = [t \in Threads |-> "Uninitialized"] /\ thread_name = [t \in Threads |-> 0]
  /\ \E garbage \in Threads \cup {NoThread} : context = [t \in Threads |-> garbage]
  /\ kernel = [t \in Threads |-> IF t = MainThread THEN "running" ELSE "none"]
  /\ creator = [t \in Threads |-> MainThread]
  /\ pc = [t \in Threads |-> IF t = MainThread THEN "ctor" ELSE "boot"]
  /\ local = [t \in Threads |-> NoLocals]
  /\ over = "no" /\ calls = 0 /\ added = <<>>

EntryWrapper(t) == t # MainThread /\ (EntryContext(t) \/ EntryTest(t) \/ EntryExit(t))

CreateStep(t) ==
  CreateAliasStack(t) \/ CreateThreadUnsafe(t) \/ NameThread(t) \/ AddThread(t)

DestroyStep(t) ==
  WaitForExitThread(t) \/ DestroyThreadUnsafe(t) \/ RemoveThread(t) \/ ResetThread(t)

Continue(t) ==
  \/ Start(t) \/ EntryWrapper(t)
  \/ CreateStep(t) \/ DestroyStep(t) \/ WalkStep(t)

NewCall(t) ==
  \/ Walk(t) \/ ExitProcess(t)
  \/ \E object \in Threads :
       \/ CreateThread(t, object) \/ StartThread(t, object) \/ DestroyThread(t, object)
       \/ \E length \in NameLengths : SetName(t, object, length)

Running(t) == over = "no" /\ kernel[t] = "running"

Next ==
  \E t \in Threads :
    Running(t) /\ (Continue(t) \/ EntrypointReturns(t) \/ NewCall(t))

Spec == Init /\ [][Next]_vars

(* Threads in a call are scheduled, and entrypoints return some time.      *)
Fairness ==
  \A t \in Threads :
    /\ WF_vars(Running(t) /\ Continue(t))
    /\ WF_vars(Running(t) /\ EntrypointReturns(t))

FairSpec == Spec /\ Fairness

-----------------------------------------------------------------------------
InSection(t) ==
  pc[t] \in {"adding", "addLeave", "removing", "removeLeave", "begin", "walking", "walkLeave"}

(* The objects that i steps along the pointers meet, up to the root.       *)
Steps[i \in 0..Cardinality(Threads)] ==
  IF i = 0 THEN <<>>
  ELSE LET s == Steps[i - 1]
           n == links.next[IF s = <<>> THEN Root ELSE s[Len(s)]]
       IN IF n = Root THEN s ELSE Append(s, n)

Listed == Steps[Cardinality(Threads)]

(* Whenever the list's lock is free, the list links exactly the objects    *)
(* that AddThread has added and RemoveThread not removed, in the order in  *)
(* which they came, and backwards too.                                     *)
ListIsExact ==
  holder = InvalidHandle /\ added # <<>> =>
    /\ Listed = added
    /\ \A n \in {Root} \cup {added[i] : i \in 1..Len(added)} : links.prev[links.next[n]] = n

(* A thread that loops over the list between Aquire and Release meets each *)
(* listed object once and in order, its own among them, and each has a     *)
(* name that was given and fits and, the main thread's aside, has not been *)
(* destroyed.                                                              *)
WalkMeetsThreads ==
  \A t \in Threads :
    pc[t] = "walkLeave" =>
      /\ local[t].seen = added
      /\ \E i \in 1..Len(added) : added[i] = t
      /\ \A i \in 1..Len(added) :
           /\ thread_name[added[i]] \in Names
           /\ added[i] # MainThread => state[added[i]] # "Uninitialized"

(* The lock is held under the handle of the one thread that is inside: its *)
(* context was set before the first lock was entered, whatever the thread- *)
(* local storage held, and the handle was not changed meanwhile.           *)
HolderIsCurrent == \A t \in Threads : InSection(t) => holder = t

(* Start-up, the entry wrapper and every call come to an end, or the       *)
(* process does: DestroyThread waits only for entrypoints to return, and   *)
(* nobody keeps the list locked.                                           *)
CallsReturn ==
  \A t \in Threads :
    kernel[t] = "running" /\ pc[t] # "idle"
      ~> pc[t] = "idle" \/ kernel[t] # "running" \/ over # "no"

=============================================================================
