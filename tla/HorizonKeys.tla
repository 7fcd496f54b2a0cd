---------------------------- MODULE HorizonKeys ----------------------------
(***************************************************************************)
(* The kernel's condition variables: svcWaitProcessWideKeyAtomic and       *)
(* svcSignalProcessWideKey, for one key.  External, like Horizon.  Each    *)
(* call is one step: the kernel runs it under its scheduler lock.          *)
(***************************************************************************)
EXTENDS Horizon

VARIABLES
  keyed,     \* threads asleep in svcWaitProcessWideKeyAtomic, not yet signalled
  result     \* result[t]: what the last svcWaitProcessWideKeyAtomic of t returns

keyVars == <<keyed, result>>

Results == {"ok", "timedOut"}

Queued(t) == Asleep(t) \/ t \in keyed

(***************************************************************************)
(* The lock is given up and the caller falls asleep on the key, in one     *)
(* step.  With a timeout of 0 it only gives up the lock.                   *)
(***************************************************************************)
WaitKeyAtomic(t, timeout) ==
  /\ GiveUp(t)
  /\ keyed' = IF timeout = "zero" THEN keyed ELSE keyed \cup {t}
  /\ result' = [result EXCEPT ![t] = IF timeout = "zero" THEN "timedOut" ELSE @]

(***************************************************************************)
(* A signalled thread is given the lock if it is free.  Otherwise it moves *)
(* to the queue of the owner, who is told by HAS_LISTENERS, and sleeps on  *)
(* until the lock is handed to it.                                         *)
(***************************************************************************)
Wake(S) ==
  \E o \in IF image.owner = InvalidHandle THEN S ELSE {image.owner} :
    /\ image' = [owner |-> o, listeners |-> image.listeners \/ S \ {o} # {}]
    /\ waiters' = [waiters EXCEPT ![o] = @ \cup (S \ {o})]
    /\ keyed' = keyed \ S
    /\ result' = [t \in Threads |-> IF t \in S THEN "ok" ELSE result[t]]

SignalKey(count) ==
  \/ keyed = {} /\ UNCHANGED <<kernelVars, keyVars>>
  \/ count = "one" /\ \E t \in keyed : Wake({t})
  \/ count = "all" /\ keyed # {} /\ Wake(keyed)

(***************************************************************************)
(* The time of t is up.  It may have been signalled already and be queued  *)
(* for the lock: the wait still fails, and HAS_LISTENERS stays as it is.   *)
(***************************************************************************)
Expire(t) ==
  /\ Queued(t)
  /\ keyed' = keyed \ {t}
  /\ waiters' = [o \in Threads |-> waiters[o] \ {t}]
  /\ result' = [result EXCEPT ![t] = "timedOut"]
  /\ UNCHANGED image

KeysInit == keyed = {} /\ result = [t \in Threads |-> "ok"]

=============================================================================
