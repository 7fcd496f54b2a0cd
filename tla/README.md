# Verification of Hydrosphère's synchronisation and thread library

Hydrosphère is a C++ runtime library for the Horizon (Nintendo Switch) operating
system. Its core is `libhydrosphere/source/common/os`: locks, condition variables,
events, barriers and threads built on a handful of kernel calls, and the list and
start-up code they rest on. This directory holds TLA+ models of that core, the TLC runs
that check them on small instances, and TLAPS proofs of the results that matter most for
any number of threads.

Contents: [inventory](#1-inventory) · [modules](#2-modules-and-how-they-map-to-the-code) ·
[runs](#3-runs) · [what the runs refute](#4-where-the-code-and-its-documentation-part) ·
[fairness](#5-fairness) · [proofs](#6-proofs) · [limits](#7-limits) · [plan](#8-plan)

Run a check with `tlc -config MCCriticalSection.cfg MCCriticalSection`, and the
proofs with `tlapm LockProofs.tla`.

## 1. Inventory

The library has no thread of its own: every function runs in the thread that calls it, and
threads interact through shared words and kernel calls.

| Component | State | Operations | What is hard | What makes it correct |
|---|---|---|---|---|
| CriticalSection | one 32-bit lock word (owner handle, `HAS_LISTENERS` bit) | Enter, TryEnter, Leave, IsLockedByCurrentThread | user-space CAS races the kernel that hands the lock over | exclusion; no sleeper forgotten; no hand-over stolen |
| ConditionVariableImpl and ConditionVariable | a key | Signal, Broadcast, Wait, WaitTimeout | release-and-sleep must be atomic; timer races signal | waiters come back with the lock; nobody sleeps after a signal |
| Mutex | critical section, owner handle, counter | LockMutex, TryLockMutex, UnlockMutex, and the waits of a condition variable with the mutex | `owner` is read without the lock; counter wraps; a wait gives up the critical section but not `owner` | exclusion; count matches nesting |
| UserEvent | flag under lock and condition variable | Wait, IsSignaled, Signal, Clear | signal, clear and wake-up interleave | a signal has one taker (auto-clear), waiters do not sleep beside a signal |
| Barrier | arrival count under lock and condition variable | AwaitBarrier | late arrivals, no loop around the wait | exactly the first `number_to_wait` arrivals pass, all of them |
| KernelEvent | two optional handles, auto-clear flag | Create, Load, Wait, IsSignaled, Signal, Clear, Pop (two), Destroy | several waiters race for one reset; handles move between objects | a signal is taken once; a handle has one holder |
| Thread | state, priority, stack mirror, handle | Create, Start, Wait, Destroy, ChangePriority, queries, entry wrapper | the new thread runs before its creator has decided what it is to do; several joiners; creation fails half way | entrypoint runs exactly when started; stack unmapped once, after the end |
| ThreadList, ThreadLocalStorage, Initialization | list of all thread objects under a lock; the context in each thread's local storage; start-up order | AddThread, RemoveThread, Aquire and a walk, SetThreadContext, SetThreadName, hs::init::Start | a lock is entered under the handle the context names, and the context is garbage before it is set; walkers meet threads half created or destroyed | the list holds exactly the live objects; the lock is held in the name of who is inside; calls return |
| VirtualMemoryAllocator | next address to try | Reserve | scan of a memory map others change; reservation is not recorded | what it returns is free, in range and guarded; it ends |
| IntrusiveList | circular doubly linked list | push, pop, insert, clear, size, Link and Unlink of elements and ranges, iterators | pointer surgery on neighbours that may be the same node; constructors that have not run | closed rings; a list's links agree with a sequence |
| Diagnostics | – | Abort, Assert | strikes in the middle of a call | ends the process there |
| Utilities | – | Optional, ObjectStorage, result codes, string copies | a value that is not there, an object not constructed | as part of their users |
| svc stubs, vendored printf, build files, template | – | – | assembly, third-party code, an example | not modelled (section 7) |

How they call each other:

```
 hs::init::Start ──> ThreadList, InitMainThread, VirtualMemoryAllocator (regions), hsMain
 CreateThread, DestroyThread ──> ThreadList ──> IntrusiveList
                                     └──> CriticalSection ──> ThreadLocalStorage (own handle)
 Thread, UserEvent, Barrier ──> CriticalSection + ConditionVariableImpl ──┐
 ConditionVariable (API) ──> ConditionVariableImpl + the critical section │
                             of a Mutex ──────────────────────────────────┤
 Mutex, ThreadList, VirtualMemoryAllocator ──> CriticalSection ───────────┤──> Horizon kernel
 CreateThread ──> VirtualMemoryAllocator::Reserve, svcMapMemory ──────────┤
 KernelEvent ─────────────────────────────────────────────────────────────┘
```

The hazards, line by line, are in `PROJECT.json` under `hazards`, each with the properties
that would notice it going wrong.

## 2. Modules and how they map to the code

Two layers. The lower one models every atomic access and system call of the locks; it is
shown to implement the abstract `Monitor`; the components above are built from `Monitor`'s
actions, so that their models need not repeat compare-and-swaps.

```
 Horizon (lock word, sleepers)          external kernel
   └─ CriticalSection ─────────────── implements ──> Monitor
        └─ ConditionVariable ──────── implements ──> Monitor, waits included
        │    (with HorizonKeys, the      ▲             │ extended by
        │     external kernel's keys)    │             ├─ MonitorUser
        └─ Mutex ──────────────────── implements       │    ├─ UserEvent
 KernelEvent (its own external kernel event)           │    └─ Barrier
 IntrusiveListElement (the stores of Link and Unlink)  ├─ Thread
   ├─ IntrusiveList ── implements ──> OrderedLists     ├─ VirtualMemoryAllocator
   └─ ThreadList (also over Monitor) ──────────────────┘
```

**Horizon, HorizonKeys** stand for the kernel, which is not in the repository. They state what
the code relies on: `svcArbitrateLock` compares the lock word and sleeps behind the owner,
`svcArbitrateUnlock` hands the lock to a sleeper and sets `HAS_LISTENERS` if there are more,
`svcWaitProcessWideKeyAtomic` releases and sleeps in one step, `svcSignalProcessWideKey`
gives woken threads the lock or queues them on its owner. Each call is one step (the kernel
holds its scheduler lock); which sleeper is chosen is left open. A thread is identified with
its handle. Being asleep is membership of a queue; `pc` is the place where the thread resumes.

**CriticalSection** (`os_critical_section.cpp`): one action per compare-and-swap or system
call. `Enter` is `EnterCas` (lines 21–36), `SetListeners` (40–46) and `ArbitrateLock`;
`Leave` is `LeaveCas` and `ArbitrateUnlock`. `expected[t]` is the local `expected_value`
between two steps. `EnterCas` returns also when the word holds the caller's own handle, with
or without listeners: that is how a thread learns of a hand-over, and also why a second
`Enter` of the owner returns at once.

**ConditionVariable** (`os_condition_variable_impl.cpp` and the API around it) extends CriticalSection
and HorizonKeys with `Wait`, `WaitReturns`, `Signal`, `Broadcast` and the kernel's `Timer`. The timeout of a wait is
`zero`, `finite` or `infinite`. A result other than success or timeout aborts in the code and
has no successor here.

**Monitor** is the abstract specification of both: a lock with at most one holder, a set of
sleepers, atomic release-and-sleep, signals that wake one or all, time-outs. The refinement
maps `holder` to the thread between its return from `Enter` and the step that gives the word
up, `sleeping` to the threads on the key. A woken thread counts as holder only when its wait
has returned. CriticalSection claims the refinement without waits (`ImplementsLock`),
ConditionVariable with them (`ImplementsMonitor`).

**Mutex** (`os_mutex_api.cpp`) is over CriticalSection's own actions, because it reads `owner`
without the lock: each field access is a step, `counter++` and `counter--` are a load and a store, and UnlockMutex's
test of the counter is another load (`UnlockTest`).
`CounterRange` is the size of the counter's range (2^32). `Differs` is `operator!=` of
`svc::Handle` as `svc_types.hpp:66` defines it, which returns whether two handles are *equal*;
section 4 shows what follows. What the program does with the mutex (`functions`, `users`,
`nesting`) is chosen at the start and stays: the properties say under which use they hold.
ConditionVariable is composed in for `WaitConditionVariable` and
`WaitTimeoutConditionVariable` with the mutex (`Wait`, `WaitReturns`, `Notify`, `Timer`), which
release its critical section and leave `owner` and `counter` as they are. `MayWait` restricts
these to programs whose locks do enter the critical section (TryLockMutex, not recursive): once
LockMutex has skipped it, a wait would ask the kernel to release a lock somebody else holds.

**MonitorUser, UserEvent, Barrier** (`os_userevent_api.cpp`, `os_barrier_api.cpp`). MonitorUser is
what the two share: a program counter and the moves of a call over Monitor. Everything a call does
between `Enter` and `Leave` or `Wait` is one step, since every access to the fields is inside
the lock. `is_signaled` is arbitrary at first: no code initialises it.

**Thread** (`os_thread_api.cpp`): one thread object (`Self`), the owner that creates, starts
and destroys it, and other clients that wait for it, change its priority or query it. Each
client obeys the documented preconditions: one start, destruction when nobody else is in a
call. Kernel calls that can fail do: mapping, creation (retried `MaxRetries` times), and the
calls on a thread that was never created, which abort (`aborted`). `starts`, `entered` and
`unmaps` are history variables for the properties. `Granted` are the priorities the kernel lets
the process use. The wait of the entry wrapper for its state (`TestState` with `Sleep`) is in
the model as it is in the code and is never taken, which ThreadProofs proves: whoever starts
the thread holds the lock until the state is set.

**ThreadList** (`init/initialization.cpp`, `os_tls.cpp`, `detail/os_threadlist.*`, and the parts
of `os_thread_api.cpp` that use them): the process from `hs::init::Start` to its end, several
threads that create, name, start and destroy each other and walk the list. It complements
Thread: there one object in full, here many objects and what is shared by all of them. The
pointers of the list are stored one at a time, and the list's lock is entered with the handle
found through the thread's context, garbage before `InitMainThread` or the entry wrapper has
set it. Thread's detail is abstracted: calls on one object do not overlap (the object's own lock
and the documented preconditions), `StartThread` and its kernel call are one step, `EntryExit`
joins setting the state and `svcExitThread`, creation either succeeds, fails or aborts. A name
is its length, and `Names` are the lengths of the two names the library gives and of those of the
clients that fit. The object of the main thread is constructed but never passes through
CreateThread, so its `state` stays `Uninitialized`, and `RemoveThread`'s early return for it is
not reached: DestroyThread would wait for a thread that ends only with the process.

**KernelEvent** (`os_kernelevent_api.cpp`): objects, the kernel's flags and handle table, and
threads between `svcWaitSynchronization` and `svcResetSignal`. A handle is a pair of event and
side. `is_auto_clear` of a loaded object is whatever it was before.

**VirtualMemoryAllocator** (`detail/os_virtualmemory_allocator.cpp`): `Reserve` with
`svcQueryMemory` and the look at its result as separate steps (`QueryMemory`, then `Skip` or `Find`
on `memory_info`), because other threads map and unmap meanwhile, and the caller's later
`svcMapMemory`. Sizes and addresses are in pages.

**IntrusiveListElement, IntrusiveList, OrderedLists** (`util_intrusive_list.hpp`). The first
gives the stores of `LinkPrev`, `LinkNext` and `Unlink` in the code's order, as functions of the
memory: the order matters when the nodes are neighbours or the same. ThreadList interleaves the
same stores. IntrusiveList has all functions of elements, lists and iterators as actions (a
list has no lock of its own: its users hold one), `size` and `clear` as loops, elements whose
constructor has not run yet, and rings without a root that `LinkPrev` moves into a list as a
whole. OrderedLists is what its users expect: each list a sequence, no element in two places,
every call changing and returning what its name says. The refinement maps `content[l]` to the
elements met by following `next` from the root.

Definitions whose comment begins with "Faulty variant" are not part of any specification. They
are the plausible mistakes (a dropped mask, an `if` for a `while`, an early return) with which
`PROJECT.json`'s mutants show that each property can fail.

## 3. Runs

One passing run per component, safety and liveness together, under the fair specification where
one is needed. All instances use model values and no symmetry. CriticalSection and IntrusiveList
are checked for deadlock. `CHECK_DEADLOCK FALSE` appears elsewhere, where the calls of the
clients are bounded, the process may end, or all threads may wait with nobody obliged to signal.

| Run | Instance | Shows |
|---|---|---|
| `cs` | 4 threads, unlimited calls | `MutualExclusion`, `SleepersAreAnnounced` (no lost wake-up), `OwnerIsAccountable`, `HandOverIsNotStolen`, refinement of Monitor; sleepers get in (`SleeperEnters`), the lock never wedges (`SomebodyEnters`) |
| `cv` | 3 threads, unlimited calls, all timeouts | `WokenOwnsTheLock` (exclusion, also after a wait), refinement of Monitor with its condition variable; signalled waiters return; a timed wait returns with the lock once the others stay out (`TimedWaitReturns`) |
| `mutex` | 2 threads; every non-empty set of lock functions and of users, both kinds, nesting 1 to 4; waits on a condition variable; counter of 3 values | TryLockMutex alone excludes, waits included (`TryLockExcludes`); the owner of a mutex that is not recursive is never a stale name (`OwnerFieldIsHonest`); the counter of a single user's recursive mutex follows its locks up, over its range and back (`CounterCountsLocks`) |
| `ue` | 3 threads, 2 calls each, auto-clear or not | one taker per auto-clear signal, no auto-clear signal beside sleepers only, a signal is taken |
| `barrier` | 4 threads, barrier for 3, 6 calls | exactly the first arrivals pass, and all of them return |
| `ke` | 2 threads, 2 objects, 2 kernel events, 4 calls each | every signal is taken once, cleared, or up; one holder per open handle; losers of the reset race get the next signal |
| `thread` | owner and 1 other client, 2 calls each per life, 2 lives, 1 retry, 3 priorities of which the kernel refuses one | life cycle, stack, priorities, aborts only after a failed creation; joins find the thread past its last access (`JoinedMeansExited`); the owner's calls, from CreateThread to DestroyThread, return (`OwnerReturns`) |
| `threads` | main thread and 2 objects, 7 calls, names that fit and that do not, every garbage in the local storage | the list is exact when its lock is free, a walk meets every listed thread, the lock is held in the name of who is inside; start-up and every call come to an end (`CallsReturn`) |
| `vm` | 2 threads, 13 pages with 3 foreign mappings, 4 calls | two threads' pending reservations are different places with a guard page between until the scan starts over, null is returned only when nothing suits, the scan ends |
| `list` | 3 elements, 2 lists, unlimited calls, every garbage in unconstructed elements | rings are closed both ways and lead to constructed nodes only; refinement of OrderedLists |

Why the bounds are enough. *Threads*: the lock protocol has four roles (owner, sleeper, thread
about to announce itself, barging thread); four threads fill them at once, and the proofs remove
the bound. For waiting, a signaller, a waiter that is signalled and one whose timer fires need
three. *Calls*: two per thread let one thread signal and clear, or query and wait, while two
others compete for the signal; for KernelEvent, where creating, popping and loading are calls as
well, four per thread cover a handle's whole way from one object to the other and back, and a
lost race followed by another signal. A barrier for 3 covers early, last and late arrivals and
threads that arrive twice; `arrive_count` cannot wrap, because late arrivals sleep for ever and so
there are at most `number_to_wait` arrivals and one more per thread. In `threads`, seven calls
create, start and destroy both objects and walk the list during any of it, or create an object
anew after it was destroyed. *Counter*: with three values and a single user that nests up to four
locks, the counter passes its range on the way up and 0 on the way down, and UnlockMutex meets the
0 that is not the last lock: it gives the mutex back with three locks left, and the states that follow
are covered. *Retries*: 1 for the code's 8;
nothing but the comparison depends on the number. *Pages*: holes of every size from one page to more
than the largest request plus guard page occur, at both ends of the range and next to foreign
mappings. *List*: three elements give a node, its neighbours on both sides being the same, the root,
or different; what four stores do depends on no other node.

## 4. Where the code and its documentation part

Two runs are expected to find a violation of a property that quotes the repository.

| Run | What happens | Documentation |
|---|---|---|
| `mutex_exclusion` | `operator!=` on handles tests equality (`svc_types.hpp:66`), so LockMutex of a thread that does not own the mutex skips `Enter`: two threads hold it | `os_mutex_api.hpp:22` "API ensuring mutual exclusivity" |
| `vm_hole` | the size is compared with the hole including the guard page | comment `os_virtualmemory_allocator.cpp:69` |

Noticed while modelling, visible in the models' definitions, and without a run of their own:

- `is_signaled_at_init` is stored (`os_userevent_api.cpp:23`) and never read, and `is_signaled` is
  never initialised, although `os_user_event_api.hpp:80` documents the parameter. Hence the
  arbitrary flag in UserEvent's `Init`.
- When svcCreateThread has failed for good, the mirror of the stack is unmapped while the flag says
  it is mapped (`os_thread_api.cpp:160`, documented at `os_thread_api.hpp:117`), and the object is
  listed and stays `Initialized`: starting, joining or destroying it aborts
  (`AbortsOnFailedCreation`).
- `IntrusiveList::erase` (`util_intrusive_list.hpp:428`–`444`) cannot be instantiated: it returns a
  `const_iterator` where an `iterator` is due, and that constructor is explicit.
- A second LockMutex of the owner of a mutex that is not recursive is granted
  (`os_mutex_api.hpp:90` says "it produces a deadlock"), and so is a second TryLockMutex; the first
  UnlockMutex then gives the critical section back. Hence `nesting = 1` in `TryLockExcludes`.
- The owner of a recursive mutex may be a thread without the critical section: TryLockMutex of a
  thread that is not the owner skips `TryEnter` (`Differs`) and then sets `owner`. Hence
  `~is_recursive` in `OwnerFieldIsHonest`, which is therefore about LockMutex's unlocked read only:
  TryLockMutex reads the owner without the lock of recursive mutexes alone.
- The counter of a recursive mutex wraps: with as many locks left as its range (2^32) UnlockMutex takes
  the 0 for the last lock and gives the mutex back (`CounterCountsLocks` says what is left).
- A wait on a condition variable with a mutex releases the critical section and leaves `owner` as it
  is: the field may name a thread that waits, or, when that is back, somebody else or nobody. Hence
  the exception in `OwnerFieldIsHonest`.
- SignalUserEvent wakes one waiter also of a manual-reset event; the others sleep on although it is
  signalled. Hence `is_auto_clear` in `AutoClearSignalHasTaker`.
- IsUserEventSignaled clears an auto-clear event (`os_user_event_api.hpp:56` says "after a wait
  operation").
- ChangeThreadPriority stores a priority the kernel refused (`os_thread_api.hpp:234`). Hence
  `priority \in Granted` in `PrioritiesAgree`.
- VirtualMemoryAllocator::Reserve compares only the start of a reservation with the range (`Find`),
  and leaves a guard page below a reservation but none above.

## 5. Fairness

Nobody is obliged to call anything; fairness concerns threads inside a call.

- Weak fairness of a thread's own steps: the scheduler runs a runnable thread.
- A thread inside a critical section leaves it: every caller in the library does.
- CriticalSection and ConditionVariable: strong fairness of being the sleeper the kernel chooses,
  because the kernel serves equal priorities in arrival order. Nothing is assumed of a thread that
  never sleeps: it may lose the compare-and-swap for ever, so `SomebodyEnters` speaks of the lock,
  `SleeperEnters` only of sleepers.
- ConditionVariable: a finite timer goes off. A thread that timed out enters like a newcomer and may
  lose the compare-and-swap for ever, so `TimedWaitReturns` supposes that the others stay out of the
  lock some time; that they do is a premise of the property, not fairness.
- UserEvent, Barrier: strong fairness of `WaitReturns`, which is what `SignalledReturns` of
  ConditionVariable shows: a signalled waiter gets the lock back.
- KernelEvent: the kernel wakes a waiter of an event that stays signalled, and a thread in the
  reset loop is scheduled.
- Thread: the new thread and the clients in a call are scheduled; the entrypoint returns.
- ThreadList: threads in a call are scheduled, entrypoints return. The lock needs no more: calls
  are bounded, so nobody is overtaken for ever.
- VirtualMemoryAllocator: a thread in Reserve is scheduled; calls and with them changes of the
  memory map are bounded.

## 6. Proofs

Eight modules, each for every value of the constants, from the named assumptions of the modules
they extend: the invalid handle is no thread, counts are natural numbers, and the like. ThreadList
and IntrusiveList need that the threads or elements are finitely many (`FiniteAssumption`: memory is
finite), so that following the pointers as many steps as there are of them passes a whole ring. All modules have the same shape: an inductive
invariant `IInv` of named conjuncts, `InitIInv`, `StepIInv` with a step per action, and the theorems.

| Module | Theorems | The invariant, and why it is needed |
|---|---|---|
| `LockProofs` | `TypeCorrect`, `Exclusion`, `NoLostWakeUp`, `Accountability`, `HandOverHolds`, `SectionRefinement` of CriticalSection; `WokenOwns`, `Refinement` of ConditionVariable | Exclusion follows from the word naming one owner and everyone inside being that owner, so `IInv` relates program counters to the word: who is inside or about to unlock is named by it; who is named while still in `Enter` is awake; sleepers are queued on the owner and announced. With waits: a thread is queued on the key or behind the owner, not both; the owner in the word may also be a waiter whose call has succeeded and who has yet to run. A time-out sends the thread through `Enter` like a newcomer |
| `MutexProofs` | `TryLockIsExclusive`, `OwnerField`, `CounterIsRight`; `TryLockIsClient` (of ConditionVariable), `TryLockIsMonitor` | see below |
| `MonitorUsersProofs` | `OneTaker`, `SignalHasTaker` of UserEvent; `TypeCorrect`, `FirstArrivals`, `OpensForAll` of Barrier | a thread goes to sleep only while the flag is down, and the signals given cover those taken plus the flag. Barrier: tickets of threads in the call are distinct and at most the count; while fewer than `number_to_wait` have arrived everyone past arrival sleeps or is about to; where a waiter may be once the barrier has opened |
| `ThreadListProofs` | `HolderIsRight`, `WalkIsRight`, `ListIsRight` | see below |
| `KernelEventProofs` | `Conservation`, `OneHolder` | a held handle is open, of an event that was created, and in one field only; counted with the cardinality theorems of the library |
| `ThreadProofs` | `EntryOnce`, `UnmapOnce`, `JoinFindsExited`, `PrioritiesKept`, `AbortsExplained` | what the state field, the flags, the kernel's thread and the program counters of owner, clients and new thread say of each other: twelve named conjuncts, the owner's and the new thread's progress the central ones |
| `VirtualMemoryAllocatorProofs` | `Apart`, `NullIsRight` | what is reserved and not mapped lies below the next address; a scan goes up from there, because a run around a page ends behind it and rounding up does not go down. `NullIsRight`: a scan that began at the start of the region (the second pass) has met no run of pages that suits below the address it looks at, if the memory map stood still; at the end of the region there is none. What the query returned ends at the candidate or behind it whatever happens meanwhile (`LookInside`), and is still true if the map stood still (`LookIsRight`) |
| `IntrusiveListProofs` | `TypeCorrect`, `RingsStayClosed`, `PointersImplementSequences` | `next` and `prev` are inverse to each other on constructed nodes and lead to none but those; every node is in a ring with at most one root; see below |

`HandOverHolds` and the refinements are about steps and use the same invariants. The
refinement mapping's `LockHolder` is a CHOOSE, so a lemma first shows that it is the owner in the
word whenever somebody is inside.

**Mutex.** Under the uses that `TryLockExcludes` names, a mutex is a thin layer on a condition
variable. `MutexProofs` makes this precise: it instantiates LockProofs with a program counter
(`ClientPc`) that forgets the steps on the fields, shows that every step of such a mutex is a step of
ConditionVariable or a stutter (`TryLockIsClient`), and takes exclusion from `LockProofs`' theorems
instead of proving it again. `IInv` has four parts: `ProgramOK` (what the program is, and that it
does not change), `WaitIInv` (LockProofs' invariant of the lock word under `ClientPc`), `PlainIInv`
(of a mutex that is not recursive: where the owner field names whom) and `CountIInv` (of a recursive
mutex with a single user: its counter is its nesting modulo the range, and one less or one more
between the load and the store of `counter++` and `counter--`). The bug of section 4 is why exclusion
cannot be proved for LockMutex.

**ThreadList.** `HolderIsCurrent` needs who a thread is (`WhoRuns`, `WhoAmI`: a thread that enters a
lock runs, its context names its own object, and that object its handle), which needs that no
two calls work on one object (`CallsApart`) and where each call is (`WhoIsListed`, `CallsProgress`:
only an object that has not been started is being created, only one whose thread has exited is being
removed). The pointers are described as a ring over the sequence `added` (`Rings`). Between the four
stores of `push_back` or `Unlink` the ring is broken in a known way: `PartlyAdded` and
`PartlyRemoved` say how after each store, in `ListIsLinked`. A walker is in the lock, so the ring is
whole under it, and what it has seen is a prefix of `added` (`WalkersKeepPlace`). The expression
`Listed` follows the pointers as many steps as there are threads: `ListIsRight` shows by a least
counterexample that step `i` gives the first `i` elements, and by the pigeonhole theorem that so many
steps suffice. Lengths of names enter because a walker finds a name that was given and fits
(`Names`).

**IntrusiveList.** That `next` and `prev` mirror each other does not say yet which list an element is
in. The invariant of the refinement, `ListInv`, adds that every node `n` has a finite sequence, the
other nodes of its ring in order, with at most one list's root among them (`Closed`), and how far the
loop of `size` has counted (`Counting`). Each of `LinkPrev`, `LinkNext` and `Unlink` comes down to one
fact about its four stores: two nodes swap successors. The two central lemmas say what a swap does: of
nodes in two rings it joins the rings (`Splicing`), of nodes in one ring it splits it (`Splitting`);
every other ring keeps its sequence (`SpliceStep`, `SplitStep`). The refinement mapping reads the
list off the pointers (`After`); `RingIsAfter` shows that it finds the ring: there is only one such
sequence, it has no more members than there are elements, and each step of the recursive function
extends a prefix of it. From these one lemma per call: it is the call of OrderedLists with the same
name, whose positions are found by `IndexOfPlace`; a ring linked by `LinkPrev` or `LinkNext` is a
sequence of different elements (`PermutationOfSet`), and unlinking a range that has wrapped around the
root is no call the model makes.

The invariants of ThreadProofs, MutexProofs and ThreadListProofs were checked by TLC on their runs'
instances before they were proved.

Only model-checked: all liveness (`SleeperEnters`, `SomebodyEnters`, `CallsReturn` and the like),
which is out of TLAPS' reach.

## 7. Limits

- The kernel is a model of what the callers rely on, not of its source.
- Memory is sequentially consistent: the code's atomics are, and plain fields are only read outside
  locks in Mutex, where every access is a step of its own.
- `LinkPrev(first, last)` and `LinkNext` with a part of a ring are modelled for whole rings, which
  is how the one-argument overloads call them; nothing in the library calls them otherwise.
- The characters of names (`SetThreadName` copies without a lock, `os_thread_api.cpp:265`) are
  not modelled; their lengths are.
- `FinalizeX` functions write a flag nobody reads. Sleeping and yielding are one system call each.
- What runs before `hs::init::Start` (relocation, module headers, `crt0.s`) has no state the library
  uses. svc stubs are assembly. Diagnostics' messages, the vendored printf, the application
  template and the build system are left out.
- What TLAPS cannot do: liveness under fairness, induction over data, RECURSIVE operators. No module
  declares one.

## 8. Plan

Done: the lock layer with its refinements, every component above it, Mutex with condition
variables, lists, the list of threads and start-up; proofs of every safety invariant and action
property that the passing runs check, the refinements included.

Left, in this order:

1. **Event**: an abstract event (flag, takers) that UserEvent and KernelEvent both implement.
2. A check of HorizonKeys' one-step kernel calls against finer steps.
