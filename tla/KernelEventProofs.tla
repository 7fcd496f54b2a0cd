------------------------- MODULE KernelEventProofs -------------------------
(***************************************************************************)
(* For any threads, objects, kernel events and number of calls: a signal   *)
(* is taken at most once and never lost, and an open handle has exactly    *)
(* one holder.                                                             *)
(***************************************************************************)
EXTENDS KernelEvent, FiniteSetTheorems, TLAPS

AllHandles == Readable \cup Writable

TypeOK ==
  /\ initialized \in [Events -> BOOLEAN]
  /\ readable_handle \in [Events -> Readable \cup {NoHandle}]
  /\ writable_handle \in [Events -> Writable \cup {NoHandle}]
  /\ popped \subseteq AllHandles
  /\ open \subseteq AllHandles
  /\ signaled \subseteq Objects
  /\ event \in [Threads -> Events]
  /\ raised \in [Objects -> Nat]
  /\ taken \in [Objects -> Nat]
  /\ cleared \in [Objects -> Nat]

(* Only events the kernel created have handles, and an object has handles  *)
(* only between its creation or loading and its destruction.               *)
HandlesOfTheCreated ==
  /\ \A h \in open : EventOf(h) \in created
  /\ \A e \in Events :
       ~initialized[e] => readable_handle[e] = NoHandle /\ writable_handle[e] = NoHandle

(* What is held is open, and what is open is held ...                      *)
HeldAreOpen ==
  /\ popped \subseteq open
  /\ \A e \in Events : readable_handle[e] \in open \cup {NoHandle}
  /\ \A e \in Events : writable_handle[e] \in open \cup {NoHandle}

OpenAreHeld ==
  \A h \in open :
    \/ h \in popped
    \/ \E e \in Events : h = readable_handle[e] \/ h = writable_handle[e]

(* ... in one place: not by two objects, nor by an object and the program. *)
HeldOnce ==
  /\ \A e \in Events : readable_handle[e] \notin popped /\ writable_handle[e] \notin popped
  /\ \A e, f \in Events :
       /\ e # f /\ readable_handle[e] = readable_handle[f] => readable_handle[e] = NoHandle
       /\ e # f /\ writable_handle[e] = writable_handle[f] => writable_handle[e] = NoHandle

HandleInv == HandlesOfTheCreated /\ HeldAreOpen /\ OpenAreHeld /\ HeldOnce

IInv == TypeOK /\ SignalsAreConserved /\ HandleInv

USE NoHandleAssumption

(* The two sides of an event have different handles.                       *)
LEMMA SidesDiffer == Readable \cap Writable = {}
BY DEF Readable, Writable

LEMMA InitIInv == Init => IInv
BY DEF Init, IInv, TypeOK, AllHandles, SignalsAreConserved, HandleInv,
       HandlesOfTheCreated, HeldAreOpen, OpenAreHeld, HeldOnce

-----------------------------------------------------------------------------
(* Steps that neither make nor move handles.                               *)
LEMMA SignalStep ==
  ASSUME IInv, NEW t \in Threads, NEW e \in Events,
         \/ WaitSynchronization(t) \/ Reset(t) \/ CallWait(t, e)
         \/ IsKernelEventSignaled(t, e) \/ SignalKernelEvent(t, e)
         \/ ClearKernelEvent(t, e)
  PROVE  IInv'
<1> USE DEF IInv, TypeOK, SignalsAreConserved
<1>1. HandleInv'
  BY DEF HandleInv, HandlesOfTheCreated, HeldAreOpen, OpenAreHeld, HeldOnce,
         contextVars, handleVars, WaitSynchronization, Reset, CallWait,
         IsKernelEventSignaled, SignalKernelEvent, ClearKernelEvent
<1>2. ASSUME NEW o \in signaled, ResetSignal(o), NEW u \in Threads,
             UNCHANGED <<contextVars, handleVars, event>>
      PROVE  TypeOK' /\ SignalsAreConserved'
  BY <1>2 DEF ResetSignal, contextVars, handleVars
<1>3. CASE WaitSynchronization(t)
  BY <1>1, <1>3 DEF WaitSynchronization, contextVars, handleVars, counters
<1>4. CASE Reset(t)
  BY <1>1, <1>2, <1>4 DEF Reset, ResetSignal
<1>5. CASE CallWait(t, e)
  BY <1>1, <1>5 DEF CallWait, contextVars, handleVars, counters
<1>6. CASE IsKernelEventSignaled(t, e)
  <2>1. CASE ResetSignal(EventOf(readable_handle[e]))
    BY <1>1, <1>2, <1>6, <2>1 DEF IsKernelEventSignaled, ResetSignal, Called
  <2>2. CASE UNCHANGED <<signaled, counters>>
    BY <1>1, <1>6, <2>2
    DEF IsKernelEventSignaled, Called, contextVars, handleVars, counters
  <2> QED BY <1>6, <2>1, <2>2 DEF IsKernelEventSignaled
<1>7. CASE SignalKernelEvent(t, e)
  <2>1. EventOf(writable_handle[e]) \in Objects
    BY <1>7 DEF SignalKernelEvent, HasValue, Writable, EventOf
  <2> QED
    BY <1>1, <1>7, <2>1 DEF SignalKernelEvent, Called, contextVars, handleVars
<1>8. CASE ClearKernelEvent(t, e)
  <2>1. EventOf(GetKernelEventHandle(e)) \in Objects
    BY <1>8 DEF ClearKernelEvent, GetKernelEventHandle, HasValue, Readable, Writable, EventOf
  <2> QED
    BY <1>1, <1>8, <2>1 DEF ClearKernelEvent, Called, contextVars, handleVars
<1> QED BY <1>3, <1>4, <1>5, <1>6, <1>7, <1>8

(* A new event has handles that nobody had before.                         *)
LEMMA CreateStep ==
  ASSUME IInv, NEW t \in Threads, NEW e \in Events, NEW auto \in BOOLEAN,
         CreateKernelEvent(t, e, auto)
  PROVE  IInv'
<1> USE DEF IInv, TypeOK, AllHandles, SignalsAreConserved, HandleInv,
            HandlesOfTheCreated, HeldAreOpen, OpenAreHeld, HeldOnce, EventOf,
            counters, Called, CreateKernelEvent
<1>1. CASE UNCHANGED <<contextVars, created, open>>
  BY <1>1 DEF contextVars
<1>2. ASSUME NEW o \in Objects \ created,
             created' = created \cup {o},
             open' = open \cup {<<o, "readable">>, <<o, "writable">>},
             readable_handle' = [readable_handle EXCEPT ![e] = <<o, "readable">>],
             writable_handle' = [writable_handle EXCEPT ![e] = <<o, "writable">>],
             initialized' = [initialized EXCEPT ![e] = TRUE]
      PROVE  IInv'
  <2>1. PICK r \in Readable, w \in Writable :
          r = <<o, "readable">> /\ w = <<o, "writable">>
    BY DEF Readable, Writable
  <2>2. r \notin open /\ w \notin open /\ r # NoHandle /\ w # NoHandle /\ r # w
    <3>1. EventOf(r) = o /\ EventOf(w) = o
      BY <2>1
    <3> QED BY <3>1, SidesDiffer
  <2>3. \A h \in open' : EventOf(h) \in created'
    <3>1. EventOf(r) = o /\ EventOf(w) = o /\ open' = open \cup {r, w}
      BY <1>2, <2>1
    <3> QED BY <1>2, <3>1
  <2>4. TypeOK' /\ SignalsAreConserved'
    <3>1. /\ initialized' \in [Events -> BOOLEAN]
          /\ readable_handle' \in [Events -> Readable \cup {NoHandle}]
          /\ writable_handle' \in [Events -> Writable \cup {NoHandle}]
          /\ open' \subseteq AllHandles
      <4>1. readable_handle' \in [Events -> Readable \cup {NoHandle}]
        BY <1>2, <2>1
      <4>2. writable_handle' \in [Events -> Writable \cup {NoHandle}]
        BY <1>2, <2>1
      <4>3. open' = open \cup {r, w}
        BY <1>2, <2>1
      <4> QED BY <1>2, <4>1, <4>2, <4>3
    <3>2. UNCHANGED <<popped, signaled, event, raised, taken, cleared>>
      OBVIOUS
    <3> QED BY <3>1, <3>2
  <2>5. HandlesOfTheCreated'
    BY <1>2, <2>3
  <2>6. HeldAreOpen'
    BY <1>2, <2>1
  <2>7. OpenAreHeld'
    BY <1>2, <2>1
  <2>8. HeldOnce'
    BY <1>2, <2>1, <2>2
  <2> QED BY <2>4, <2>5, <2>6, <2>7, <2>8
<1> QED BY <1>1, <1>2

(* Moving handles between an object and the program, and closing them.     *)
LEMMA MoveStep ==
  ASSUME IInv, NEW t \in Threads, NEW e \in Events,
         \/ \E readable \in (popped \cap Readable) \cup {NoHandle},
               writable \in (popped \cap Writable) \cup {NoHandle} :
              LoadKernelEvent(t, e, readable, writable)
         \/ PopReadableHandle(t, e) \/ PopWritableHandle(t, e)
         \/ DestroyKernelEvent(t, e)
  PROVE  IInv'
<1> USE SidesDiffer
    DEF IInv, TypeOK, AllHandles, SignalsAreConserved, HandleInv,
        HandlesOfTheCreated, HeldAreOpen, OpenAreHeld, HeldOnce,
        counters, Called, HasValue
<1>1. ASSUME NEW readable \in (popped \cap Readable) \cup {NoHandle},
             NEW writable \in (popped \cap Writable) \cup {NoHandle},
             LoadKernelEvent(t, e, readable, writable)
      PROVE  IInv'
  <2> USE <1>1 DEF LoadKernelEvent
  <2>1. TypeOK' /\ SignalsAreConserved'
    OBVIOUS
  <2>2. HandlesOfTheCreated' /\ HeldAreOpen'
    OBVIOUS
  <2>3. OpenAreHeld'
    OBVIOUS
  <2>4. HeldOnce'
    OBVIOUS
  <2> QED BY <2>1, <2>2, <2>3, <2>4
<1>2. CASE PopReadableHandle(t, e)
  BY <1>2 DEF PopReadableHandle
<1>3. CASE PopWritableHandle(t, e)
  BY <1>3 DEF PopWritableHandle
<1>4. CASE DestroyKernelEvent(t, e)
  BY <1>4 DEF DestroyKernelEvent
<1> QED BY <1>1, <1>2, <1>3, <1>4

LEMMA StepIInv == IInv /\ [Next]_vars => IInv'
<1>1. IInv /\ UNCHANGED vars => IInv'
  BY DEF IInv, TypeOK, SignalsAreConserved, HandleInv, HandlesOfTheCreated,
         HeldAreOpen, OpenAreHeld, HeldOnce, vars, contextVars, handleVars, counters
<1>2. ASSUME IInv, NEW t \in Threads, NEW e \in Events, HandleStep(t, e) PROVE IInv'
  BY <1>2, CreateStep, MoveStep DEF HandleStep
<1>3. ASSUME IInv, NEW t \in Threads, WaitSynchronization(t) \/ Reset(t) PROVE IInv'
  <2>1. event[t] \in Events
    BY <1>3 DEF IInv, TypeOK
  <2> QED BY <1>3, <2>1, SignalStep
<1> QED BY <1>1, <1>2, <1>3, SignalStep DEF Next

LEMMA Invariance == Spec => []IInv
BY InitIInv, StepIInv, PTL DEF Spec

-----------------------------------------------------------------------------
(* No signal is taken twice, and none gets lost, however many waiters race *)
(* for svcResetSignal.                                                     *)
THEOREM Conservation == Spec => []SignalsAreConserved
<1>1. IInv => SignalsAreConserved
  BY DEF IInv
<1> QED BY <1>1, Invariance, PTL

(* No handle is closed twice, and none is forgotten.                       *)
THEOREM OneHolder == Spec => []HandlesHaveOneHolder
<1>1. ASSUME IInv, NEW h \in AllHandles
      PROVE  Cardinality(Holders(h)) = (IF h \in open THEN 1 ELSE 0)
  <2> USE <1>1 DEF IInv, TypeOK, HandleInv, HeldAreOpen, OpenAreHeld, HeldOnce, Holders,
                   AllHandles
  <2>1. CASE h \notin open
    <3>1. Holders(h) = {}
      BY <2>1
    <3> QED BY <2>1, <3>1, FS_EmptySet
  <2>2. CASE h \in popped
    <3>1. Holders(h) = {NoHandle}
      BY <2>2
    <3> QED BY <2>2, <3>1, FS_Singleton
  <2>3. CASE h \in open \ popped
    <3>1. PICK e \in Events : h = readable_handle[e] \/ h = writable_handle[e]
      BY <2>3
    <3>2. Holders(h) = {e}
      BY <2>3, <3>1, SidesDiffer
    <3> QED BY <2>3, <3>2, FS_Singleton
  <2> QED BY <2>1, <2>2, <2>3
<1>2. IInv => HandlesHaveOneHolder
  BY <1>1 DEF HandlesHaveOneHolder, AllHandles
<1> QED BY <1>2, Invariance, PTL

=============================================================================
