----------------------- MODULE VirtualMemoryAllocator -----------------------
(***************************************************************************)
(* hs::os::detail::VirtualMemoryAllocator: Reserve looks for a hole in the *)
(* address space of the process, scanning from where it last found one and *)
(* once more from the start.  It only returns an address: the caller maps  *)
(* memory there later, without the allocator's lock, so the memory map     *)
(* changes during a scan and between a scan and the mapping.               *)
(*                                                                         *)
(* Addresses and sizes are counted in pages.  The kernel, external, keeps  *)
(* the mappings and joins adjacent pages that are mapped alike.            *)
(***************************************************************************)
EXTENDS Monitor, Integers, FiniteSets, FiniteSetsExt

CONSTANTS
  SpaceSize,                               \* pages of the process
  address_space_start, address_space_end,  \* the allocator's part of them
  Foreign,           \* pages the program has mapped for other purposes
  guard_page_size,
  Sizes, Alignments, \* what the callers ask for
  MaxCalls           \* bound: calls of Reserve

ASSUME RangeAssumption ==
  /\ {SpaceSize, address_space_start, address_space_end, guard_page_size} \subseteq Nat
  /\ 0 < address_space_start /\ address_space_start < address_space_end
  /\ address_space_end <= SpaceSize /\ Foreign \subseteq 0..(SpaceSize - 1)
ASSUME RequestAssumption == Sizes \cup Alignments \subseteq Nat \ {0}
ASSUME CallsAssumption == MaxCalls \in Nat

VARIABLES
  next_availaible_address,
  address, already_retried,   \* the scan of the thread that has the lock
  memory_info,                \* what svcQueryMemory told it of its candidate
  pc, size, alignement,       \* of each thread's call
  reserved,                   \* reserved[t]: what Reserve returned to t, 0 for null
  mappings,                   \* what callers have mapped: a set of sets of pages
  calls,
  wrapped,                    \* a scan has started over some time
  moved                       \* the memory map has changed since the last scan began

scan == <<address, already_retried, memory_info>>
request == <<size, alignement>>
vars == <<monitorVars, next_availaible_address, scan, pc, request, reserved,
          mappings, calls, wrapped, moved>>

Pages(base, n) == base..(base + n - 1)

Mapped == Foreign \cup UNION mappings

InsideAddressRange(a) == address_space_start <= a /\ a < address_space_end

AlignUp(a, alignment) == ((a + alignment - 1) \div alignment) * alignment

(* What svcQueryMemory tells: the longest run of pages around a that are   *)
(* all mapped or all free.                                                 *)
RunAround(a) ==
  LET others == IF a \in Mapped THEN (0..(SpaceSize - 1)) \ Mapped ELSE Mapped IN
    [first |-> Max({p \in {-1} \cup others : p < a}) + 1,
     last |-> Min({p \in {SpaceSize} \cup others : p > a}) - 1,
     type |-> IF a \in Mapped THEN "mapped" ELSE "free"]

Unasked == [first |-> 0, last |-> 0, type |-> "mapped"]

RunSize(run) == run.last - run.first + 1

-----------------------------------------------------------------------------
Call(t) ==
  /\ pc[t] = "idle" /\ calls < MaxCalls
  /\ pc' = [pc EXCEPT ![t] = "enter"]
  /\ \E n \in Sizes, al \in Alignments :
       /\ size' = [size EXCEPT ![t] = n]
       /\ alignement' = [alignement EXCEPT ![t] = al]
  /\ calls' = calls + 1
  /\ UNCHANGED <<monitorVars, next_availaible_address, scan, reserved, mappings, wrapped, moved>>

(* Enter, and where the scan begins.                                       *)
Begin(t) ==
  /\ pc[t] = "enter"
  /\ Acquire(t)
  /\ next_availaible_address' =
       IF InsideAddressRange(next_availaible_address)
       THEN next_availaible_address ELSE address_space_start
  /\ address' = next_availaible_address'
  /\ already_retried' = FALSE /\ moved' = FALSE
  /\ wrapped' = (wrapped \/ ~InsideAddressRange(next_availaible_address))
  /\ pc' = [pc EXCEPT ![t] = "scan"]
  /\ UNCHANGED <<memory_info, request, reserved, mappings, calls>>

Candidate(t) == AlignUp(address + guard_page_size, alignement[t])

(* The candidate is out of range: start over once, then give up.           *)
StartOver(t) ==
  /\ pc[t] = "scan" /\ ~InsideAddressRange(Candidate(t)) /\ ~already_retried
  /\ address' = address_space_start
  /\ already_retried' = TRUE
  /\ wrapped' = TRUE
  /\ UNCHANGED <<monitorVars, next_availaible_address, memory_info, pc, request,
                 reserved, mappings, calls, moved>>

(* Faulty variant: no second scan from the start.                          *)
GiveUpAtOnce(t) ==
  /\ pc[t] = "scan" /\ ~InsideAddressRange(Candidate(t))
  /\ address' = 0
  /\ pc' = [pc EXCEPT ![t] = "leave"]
  /\ UNCHANGED <<monitorVars, next_availaible_address, already_retried, memory_info,
                 request, reserved, mappings, calls, wrapped, moved>>

GiveUp(t) ==
  /\ pc[t] = "scan" /\ ~InsideAddressRange(Candidate(t)) /\ already_retried
  /\ address' = 0
  /\ pc' = [pc EXCEPT ![t] = "leave"]
  /\ UNCHANGED <<monitorVars, next_availaible_address, already_retried, memory_info,
                 request, reserved, mappings, calls, wrapped, moved>>

(* The map may change between the query and the look at its result.        *)
QueryMemory(t) ==
  /\ pc[t] = "scan" /\ InsideAddressRange(Candidate(t))
  /\ memory_info' = RunAround(Candidate(t))
  /\ pc' = [pc EXCEPT ![t] = "look"]
  /\ UNCHANGED <<monitorVars, next_availaible_address, address, already_retried, request,
                 reserved, mappings, calls, wrapped, moved>>

Suits(t, run) == run.type = "free" /\ size[t] <= RunSize(run)

(* Faulty variant: the scan goes on at the beginning of the run.           *)
SkipNothing(t) ==
  /\ pc[t] = "look" /\ ~Suits(t, memory_info)
  /\ address' = memory_info.first
  /\ memory_info' = Unasked
  /\ pc' = [pc EXCEPT ![t] = "scan"]
  /\ UNCHANGED <<monitorVars, next_availaible_address, already_retried, request,
                 reserved, mappings, calls, wrapped, moved>>

(* The candidate is mapped, or its hole too small: go on behind the run.   *)
Skip(t) ==
  /\ pc[t] = "look" /\ ~Suits(t, memory_info)
  /\ address' = memory_info.last + 1
  /\ memory_info' = Unasked
  /\ pc' = [pc EXCEPT ![t] = "scan"]
  /\ UNCHANGED <<monitorVars, next_availaible_address, already_retried, request,
                 reserved, mappings, calls, wrapped, moved>>

(* Faulty variant: where the next scan begins is not remembered.           *)
FindForgets(t) ==
  /\ pc[t] = "look" /\ Suits(t, memory_info)
  /\ address' = Candidate(t)
  /\ memory_info' = Unasked
  /\ pc' = [pc EXCEPT ![t] = "leave"]
  /\ UNCHANGED <<monitorVars, next_availaible_address, already_retried, request,
                 reserved, mappings, calls, wrapped, moved>>

(* The whole hole is compared with the size, not what is left of it behind *)
(* the candidate.                                                          *)
Find(t) ==
  /\ pc[t] = "look" /\ Suits(t, memory_info)
  /\ address' = Candidate(t)
  /\ memory_info' = Unasked
  /\ next_availaible_address' = Candidate(t) + size[t]
  /\ pc' = [pc EXCEPT ![t] = "leave"]
  /\ UNCHANGED <<monitorVars, already_retried, request, reserved, mappings, calls,
                 wrapped, moved>>

Leave(t) ==
  /\ pc[t] = "leave"
  /\ Release(t)
  /\ reserved' = [reserved EXCEPT ![t] = address]
  /\ pc' = [pc EXCEPT ![t] = IF address = 0 THEN "idle" ELSE "map"]
  /\ UNCHANGED <<next_availaible_address, scan, request, mappings, calls, wrapped, moved>>

Reserve(t) ==
  \/ Begin(t) \/ StartOver(t) \/ GiveUp(t)
  \/ QueryMemory(t) \/ Skip(t) \/ Find(t) \/ Leave(t)

(* svcMapMemory of the caller fails on pages that are mapped already or    *)
(* are not in the region.                                                  *)
Target(t) == Pages(reserved[t], size[t])

Fits(t) ==
  /\ \A p \in Target(t) : InsideAddressRange(p)
  /\ Target(t) \cap Mapped = {}

Map(t) ==
  /\ pc[t] = "map"
  /\ mappings' = IF Fits(t) THEN mappings \cup {Target(t)} ELSE mappings
  /\ moved' = (moved \/ Fits(t))
  /\ pc' = [pc EXCEPT ![t] = "idle"]
  /\ UNCHANGED <<monitorVars, next_availaible_address, scan, request, reserved,
                 calls, wrapped>>

Unmap(t) ==
  /\ pc[t] = "idle"
  /\ \E M \in mappings : mappings' = mappings \ {M}
  /\ moved' = TRUE
  /\ UNCHANGED <<monitorVars, next_availaible_address, scan, pc, request, reserved,
                 calls, wrapped>>

Init ==
  /\ MonitorInit
  /\ next_availaible_address = address_space_start
  /\ address = 0 /\ already_retried = FALSE /\ memory_info = Unasked
  /\ pc = [t \in Threads |-> "idle"]
  /\ size \in [Threads -> {Min(Sizes)}] /\ alignement \in [Threads -> {Min(Alignments)}]
  /\ reserved = [t \in Threads |-> 0]
  /\ mappings = {}
  /\ calls = 0 /\ wrapped = FALSE /\ moved = FALSE

Next == \E t \in Threads : Call(t) \/ Reserve(t) \/ Map(t) \/ Unmap(t)

Spec == Init /\ [][Next]_vars

(* A thread in Reserve is scheduled.                                       *)
FairSpec == Spec /\ \A t \in Threads : WF_vars(Reserve(t))

-----------------------------------------------------------------------------
(* Two threads that have reserved memory and not mapped it yet are told    *)
(* different places, with guard pages between, as long as no scan has      *)
(* started over: Reserve records a reservation only by moving on.          *)
ReservationsApart ==
  \A t, u \in Threads :
    t # u /\ pc[t] = "map" /\ pc[u] = "map" /\ ~wrapped /\ reserved[t] <= reserved[u]
      => reserved[t] + size[t] + guard_page_size <= reserved[u]

(* If the memory map stood still during the scan, null means that no hole  *)
(* of the range, entered as far from its first page as guard pages and     *)
(* alignment ask, would have suited the request.                           *)
NullMeansFull ==
  \A t \in Threads :
    pc[t] = "leave" /\ address = 0 /\ ~moved =>
      \A run \in {RunAround(p) : p \in address_space_start..(address_space_end - 1)} :
        LET first == Max({run.first, address_space_start})
            entry == AlignUp(first + guard_page_size, alignement[t])
        IN ~(InsideAddressRange(entry) /\ entry <= run.last /\ Suits(t, run))

(* Reserve returns, though the memory map changes under its scan.          *)
ReserveReturns == \A t \in Threads : pc[t] = "scan" ~> pc[t] \in {"idle", "map"}

(* "not availaible/enough memory, try next region": there is enough memory *)
(* free at the place that Reserve found.                                   *)
HoleIsLargeEnough ==
  \A t \in Threads :
    pc[t] = "leave" /\ address # 0 => Pages(address, size[t]) \cap Mapped = {}

=============================================================================
