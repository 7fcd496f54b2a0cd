---------------------------- MODULE KernelEvent ----------------------------
(***************************************************************************)
(* hs::os::KernelEvent: an event of the kernel, waited for and reset       *)
(* through a readable handle and signalled through a writable one, either  *)
(* of which may be moved from one KernelEvent object to another.           *)
(*                                                                         *)
(* The kernel is external: it keeps the flag of every event and the table  *)
(* of open handles.  An object is created, loaded, robbed of a handle or   *)
(* destroyed while no other call uses it, as its preconditions ask; waits, *)
(* queries, signals and clears run concurrently.                           *)
(***************************************************************************)
EXTENDS Integers, FiniteSets

CONSTANTS
  Threads,
  Events,     \* the KernelEvent objects of the program
  Objects,    \* bound: the events the kernel can create
  NoHandle,   \* an Optional without a value
  MaxCalls    \* bound: calls each thread makes

Readable == {<<o, "readable">> : o \in Objects}
Writable == {<<o, "writable">> : o \in Objects}

ASSUME NoHandleAssumption == NoHandle \notin Readable \cup Writable
ASSUME MaxCallsAssumption == MaxCalls \in Nat

VARIABLES
  initialized,        \* initialized[e]: KernelEventState_Initialized
  is_auto_clear, readable_handle, writable_handle,
  created,            \* kernel: the events created so far
  open,               \* kernel: the open handles
  signaled,           \* kernel: the events whose flag is up
  popped,             \* handles taken out of an object and held by the program
  pc, event,          \* where each thread is, and in a call for which object
  calls,
  raised, taken, cleared  \* how often a flag went up, was taken, was cleared

contextVars == <<initialized, is_auto_clear, readable_handle, writable_handle>>
handleVars == <<created, open, popped>>
counters == <<raised, taken, cleared>>
vars == <<contextVars, handleVars, signaled, pc, event, calls, counters>>

EventOf(handle) == handle[1]

(* An Optional handle is the handle it holds, or NoHandle.                 *)
HasValue(optional) == optional # NoHandle

Idle(t) == pc[t] = "idle" /\ calls[t] < MaxCalls

Called(t) ==
  /\ calls' = [calls EXCEPT ![t] = @ + 1]
  /\ UNCHANGED <<pc, event>>

Unused(e) == \A u \in Threads : pc[u] # "idle" => event[u] # e

-----------------------------------------------------------------------------
(* svcCreateEvent succeeds with two handles, or the object stays as it is. *)
CreateKernelEvent(t, e, auto) ==
  /\ Idle(t) /\ ~initialized[e] /\ Unused(e)
  /\ \/ \E o \in Objects \ created :
          /\ created' = created \cup {o}
          /\ open' = open \cup {<<o, "readable">>, <<o, "writable">>}
          /\ readable_handle' = [readable_handle EXCEPT ![e] = <<o, "readable">>]
          /\ writable_handle' = [writable_handle EXCEPT ![e] = <<o, "writable">>]
          /\ is_auto_clear' = [is_auto_clear EXCEPT ![e] = auto]
          /\ initialized' = [initialized EXCEPT ![e] = TRUE]
     \/ UNCHANGED <<contextVars, created, open>>
  /\ Called(t)
  /\ UNCHANGED <<popped, signaled, counters>>

(* is_auto_clear is not written: it is what the memory of the object held. *)
LoadKernelEvent(t, e, readable, writable) ==
  /\ Idle(t) /\ ~initialized[e] /\ Unused(e)
  /\ HasValue(readable) \/ HasValue(writable)
  /\ readable_handle' = [readable_handle EXCEPT ![e] = readable]
  /\ writable_handle' = [writable_handle EXCEPT ![e] = writable]
  /\ initialized' = [initialized EXCEPT ![e] = TRUE]
  /\ popped' = popped \ {readable, writable}
  /\ Called(t)
  /\ UNCHANGED <<is_auto_clear, created, open, signaled, counters>>

(* Faulty variant: the handle stays in the object as well.                 *)
PopReadableHandleCopies(t, e) ==
  /\ Idle(t) /\ initialized[e] /\ Unused(e) /\ HasValue(readable_handle[e])
  /\ popped' = popped \cup {readable_handle[e]}
  /\ Called(t)
  /\ UNCHANGED <<contextVars, created, open, signaled, counters>>

PopReadableHandle(t, e) ==
  /\ Idle(t) /\ initialized[e] /\ Unused(e) /\ HasValue(readable_handle[e])
  /\ popped' = popped \cup {readable_handle[e]}
  /\ readable_handle' = [readable_handle EXCEPT ![e] = NoHandle]
  /\ Called(t)
  /\ UNCHANGED <<initialized, is_auto_clear, writable_handle, created, open,
                 signaled, counters>>

PopWritableHandle(t, e) ==
  /\ Idle(t) /\ initialized[e] /\ Unused(e) /\ HasValue(writable_handle[e])
  /\ popped' = popped \cup {writable_handle[e]}
  /\ writable_handle' = [writable_handle EXCEPT ![e] = NoHandle]
  /\ Called(t)
  /\ UNCHANGED <<initialized, is_auto_clear, readable_handle, created, open,
                 signaled, counters>>

(* The flag of an event without handles is out of reach.                   *)
DestroyKernelEvent(t, e) ==
  /\ Idle(t) /\ initialized[e] /\ Unused(e)
  /\ open' = open \ {readable_handle[e], writable_handle[e]}
  /\ readable_handle' = [readable_handle EXCEPT ![e] = NoHandle]
  /\ writable_handle' = [writable_handle EXCEPT ![e] = NoHandle]
  /\ is_auto_clear' = [is_auto_clear EXCEPT ![e] = FALSE]
  /\ initialized' = [initialized EXCEPT ![e] = FALSE]
  /\ Called(t)
  /\ UNCHANGED <<created, popped, signaled, counters>>

-----------------------------------------------------------------------------
(* svcResetSignal on an event that is signalled; on one that is not it     *)
(* fails with 0xFA01 and changes nothing.                                  *)
ResetSignal(o) ==
  /\ o \in signaled
  /\ signaled' = signaled \ {o}
  /\ taken' = [taken EXCEPT ![o] = @ + 1]
  /\ UNCHANGED <<raised, cleared>>

(* WaitKernelEvent: the thread sleeps in the kernel until the event is     *)
(* signalled; a wait that fails is made again.                             *)
CallWait(t, e) ==
  /\ Idle(t) /\ initialized[e] /\ HasValue(readable_handle[e])
  /\ pc' = [pc EXCEPT ![t] = "wait"]
  /\ event' = [event EXCEPT ![t] = e]
  /\ calls' = [calls EXCEPT ![t] = @ + 1]
  /\ UNCHANGED <<contextVars, handleVars, signaled, counters>>

Waited(t) == EventOf(readable_handle[event[t]])

WaitSynchronization(t) ==
  /\ pc[t] = "wait" /\ Waited(t) \in signaled
  /\ pc' = [pc EXCEPT ![t] = IF is_auto_clear[event[t]] THEN "reset" ELSE "idle"]
  /\ UNCHANGED <<contextVars, handleVars, signaled, event, calls, counters>>

(* Faulty variant: the reset is made once, and its failure passes for      *)
(* success.                                                                *)
ResetOnce(t) ==
  /\ pc[t] = "reset"
  /\ signaled' = signaled \ {Waited(t)}
  /\ taken' = [taken EXCEPT ![Waited(t)] = @ + 1]
  /\ pc' = [pc EXCEPT ![t] = "idle"]
  /\ UNCHANGED <<contextVars, handleVars, event, calls, raised, cleared>>

(* Faulty variant: the upper bits of the result are not masked off, so a   *)
(* reset that fails because another waiter was faster aborts.              *)
ResetUnmasked(t) ==
  /\ pc[t] = "reset"
  /\ \/ ResetSignal(Waited(t)) /\ pc' = [pc EXCEPT ![t] = "idle"]
     \/ /\ Waited(t) \notin signaled
        /\ pc' = [pc EXCEPT ![t] = "aborted"]
        /\ UNCHANGED <<signaled, counters>>
  /\ UNCHANGED <<contextVars, handleVars, event, calls>>

(* The loop around svcResetSignal.  When another waiter was faster it goes *)
(* round, without sleeping, until the event is signalled again.            *)
Reset(t) ==
  /\ pc[t] = "reset"
  /\ ResetSignal(Waited(t))
  /\ pc' = [pc EXCEPT ![t] = "idle"]
  /\ UNCHANGED <<contextVars, handleVars, event, calls>>

(* With auto-clear a query is an attempt to take the signal.  Otherwise it *)
(* is a wait with timeout 0, which changes nothing.                        *)
IsKernelEventSignaled(t, e) ==
  /\ Idle(t) /\ initialized[e] /\ HasValue(readable_handle[e])
  /\ \/ is_auto_clear[e] /\ ResetSignal(EventOf(readable_handle[e]))
     \/ /\ is_auto_clear[e] => EventOf(readable_handle[e]) \notin signaled
        /\ UNCHANGED <<signaled, counters>>
  /\ Called(t)
  /\ UNCHANGED <<contextVars, handleVars>>

SignalKernelEvent(t, e) ==
  /\ Idle(t) /\ initialized[e] /\ HasValue(writable_handle[e])
  /\ LET o == EventOf(writable_handle[e]) IN
       /\ signaled' = signaled \cup {o}
       /\ raised' = IF o \in signaled THEN raised ELSE [raised EXCEPT ![o] = @ + 1]
  /\ Called(t)
  /\ UNCHANGED <<contextVars, handleVars, taken, cleared>>

GetKernelEventHandle(e) ==
  IF HasValue(readable_handle[e]) THEN readable_handle[e] ELSE writable_handle[e]

ClearKernelEvent(t, e) ==
  /\ Idle(t) /\ initialized[e] /\ HasValue(GetKernelEventHandle(e))
  /\ LET o == EventOf(GetKernelEventHandle(e)) IN
       /\ signaled' = signaled \ {o}
       /\ cleared' = IF o \in signaled THEN [cleared EXCEPT ![o] = @ + 1] ELSE cleared
  /\ Called(t)
  /\ UNCHANGED <<contextVars, handleVars, raised, taken>>

-----------------------------------------------------------------------------
Init ==
  /\ initialized = [e \in Events |-> FALSE]
  /\ is_auto_clear \in [Events -> BOOLEAN]
  /\ readable_handle = [e \in Events |-> NoHandle]
  /\ writable_handle = [e \in Events |-> NoHandle]
  /\ created = {} /\ open = {} /\ signaled = {} /\ popped = {}
  /\ pc = [t \in Threads |-> "idle"]
  /\ event \in [Threads -> Events]
  /\ calls = [t \in Threads |-> 0]
  /\ raised = [o \in Objects |-> 0]
  /\ taken = [o \in Objects |-> 0]
  /\ cleared = [o \in Objects |-> 0]

HandleStep(t, e) ==
  \/ \E auto \in BOOLEAN : CreateKernelEvent(t, e, auto)
  \/ \E readable \in (popped \cap Readable) \cup {NoHandle},
        writable \in (popped \cap Writable) \cup {NoHandle} :
       LoadKernelEvent(t, e, readable, writable)
  \/ PopReadableHandle(t, e) \/ PopWritableHandle(t, e) \/ DestroyKernelEvent(t, e)

Next ==
  \E t \in Threads :
    \/ WaitSynchronization(t) \/ Reset(t)
    \/ \E e \in Events :
         \/ HandleStep(t, e)
         \/ CallWait(t, e) \/ IsKernelEventSignaled(t, e)
         \/ SignalKernelEvent(t, e) \/ ClearKernelEvent(t, e)

Spec == Init /\ [][Next]_vars

(* The kernel wakes a thread whose event is signalled, and a thread in the *)
(* loop is scheduled.  Nobody has to call anything.                        *)
Fairness ==
  \A t \in Threads : WF_vars(WaitSynchronization(t)) /\ WF_vars(Reset(t))

FairSpec == Spec /\ Fairness

-----------------------------------------------------------------------------
(* Every time the flag went up it was taken by one waiter or query,        *)
(* cleared, or is up still: no signal is taken twice when several threads  *)
(* race for svcResetSignal, and none gets lost.                            *)
SignalsAreConserved ==
  \A o \in Objects :
    raised[o] = taken[o] + cleared[o] + (IF o \in signaled THEN 1 ELSE 0)

(* The objects that hold h; NoHandle stands for the program's own hands.   *)
Holders(h) ==
  {e \in Events : h \in {readable_handle[e], writable_handle[e]}}
    \cup (IF h \in popped THEN {NoHandle} ELSE {})

(* An open handle is held in one place, an object or the program's own     *)
(* hands, and only open handles are held: creating, popping, loading and   *)
(* destroying never closes a handle twice and never forgets one.           *)
HandlesHaveOneHolder ==
  \A h \in Readable \cup Writable :
    Cardinality(Holders(h)) = (IF h \in open THEN 1 ELSE 0)

(* The event that t waits for, or waited for last, is not signalled.       *)
Down(t) == \A o \in signaled : readable_handle[event[t]] # <<o, "readable">>

(* A waiter returns, unless from some point on the event stays down: also  *)
(* the one that lost the race for a signal gets the next.                  *)
SignalReachesWaiter ==
  \A t \in Threads : pc[t] = "wait" ~> pc[t] = "idle" \/ []Down(t)

=============================================================================
