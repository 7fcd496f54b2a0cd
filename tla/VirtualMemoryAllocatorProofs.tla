-------------------- MODULE VirtualMemoryAllocatorProofs --------------------
(***************************************************************************)
(* For any region, mappings, sizes, alignments, guard pages, threads and   *)
(* number of calls: while no scan has started over, threads that have      *)
(* reserved memory and not mapped it yet are told different places; and    *)
(* null from a scan under which the memory map stood still means that no   *)
(* hole of the region suits.                                               *)
(***************************************************************************)
EXTENDS VirtualMemoryAllocator, WellFoundedInduction, TLAPS

USE NobodyAssumption, RangeAssumption, RequestAssumption

(* A set of natural numbers has a least element.                           *)
LEMMA LeastElement ==
  ASSUME NEW S \in SUBSET Nat, S # {}
  PROVE  Min(S) \in S /\ \A x \in S : Min(S) <= x
<1> DEFINE Less == OpToRel(<, Nat)
<1>1. IsWellFoundedOn(Less, Nat)
  BY NatLessThanWellFounded
<1>2. \A x, y \in Nat : x < y => <<x, y>> \in Less
  BY DEF OpToRel
<1> HIDE DEF Less
<1>3. PICK x \in S : \A y \in S : <<y, x>> \notin Less
  BY <1>1, WFMin
<1>4. \A y \in S : ~(y < x)
  BY <1>2, <1>3
<1>5. \A y \in S : x <= y
  BY <1>4
<1> QED BY <1>5 DEF Min

(* A set of integers with an upper bound has a greatest element.           *)
LEMMA GreatestElement ==
  ASSUME NEW b \in Int, NEW S \in SUBSET Int, S # {}, \A x \in S : x <= b
  PROVE  Max(S) \in S /\ \A x \in S : x <= Max(S)
<1> DEFINE D == {b - x : x \in S}
<1>1. D \in SUBSET Nat /\ D # {}
  OBVIOUS
<1> DEFINE m == Min(D)
<1>2. m \in D /\ \A d \in D : m <= d
  BY <1>1, LeastElement
<1>3. PICK x \in S : m = b - x
  BY <1>2
<1>4. \A y \in S : b - y \in D
  OBVIOUS
<1>5. \A y \in S : m <= b - y
  BY <1>2, <1>4
<1> HIDE DEF D, m
<1>6. \A y \in S : x >= y
  BY <1>3, <1>5
<1> QED BY <1>6 DEF Max

(* Rounding up does not round down.                                        *)
LEMMA AlignUpBounds ==
  ASSUME NEW a \in Nat, NEW alignment \in Nat \ {0}
  PROVE  AlignUp(a, alignment) \in Nat /\ AlignUp(a, alignment) >= a
BY DEF AlignUp

(* Rounding up keeps the order.                                            *)
LEMMA AlignUpMonotone ==
  ASSUME NEW a \in Nat, NEW b \in Nat, a <= b, NEW alignment \in Nat \ {0}
  PROVE  AlignUp(a, alignment) <= AlignUp(b, alignment)
<1> DEFINE m == (a + alignment - 1) \div alignment
           n == (b + alignment - 1) \div alignment
<1>1. m \in Nat /\ n \in Nat
  OBVIOUS
<1>2. m <= n
  OBVIOUS
<1>3. m * alignment <= n * alignment
  <2> HIDE DEF m, n
  <2> QED BY <1>1, <1>2
<1> QED BY <1>3 DEF AlignUp

(* The run around a page of the process holds that page, is all mapped or  *)
(* all free, and goes on for as long as it is.                             *)
LEMMA RunShape ==
  ASSUME NEW a \in Nat, a < SpaceSize, Mapped \subseteq 0..(SpaceSize - 1)
  PROVE  LET run == RunAround(a) IN
           /\ run.first \in 0..a /\ run.last \in a..(SpaceSize - 1)
           /\ run.type = "free" <=> a \notin Mapped
           /\ \A p \in run.first..run.last : p \in Mapped <=> a \in Mapped
           /\ run.first # 0 => ~(run.first - 1 \in Mapped <=> a \in Mapped)
           /\ run.last # SpaceSize - 1 => ~(run.last + 1 \in Mapped <=> a \in Mapped)
<1> DEFINE Others == IF a \in Mapped THEN (0..(SpaceSize - 1)) \ Mapped ELSE Mapped
           Before == {p \in {-1} \cup Others : p < a}
           Behind == {p \in {SpaceSize} \cup Others : p > a}
<1>1. SpaceSize \in Nat
  OBVIOUS
<1>2. /\ Others \subseteq 0..(SpaceSize - 1)
      /\ \A p \in 0..(SpaceSize - 1) : p \in Others <=> ~(p \in Mapped <=> a \in Mapped)
  BY Zenon
<1>3. /\ RunAround(a).first = Max(Before) + 1
      /\ RunAround(a).last = Min(Behind) - 1
  BY DEF RunAround
<1> HIDE DEF Others
<1>4. \A p \in Others : p \in Nat /\ p < SpaceSize
  BY <1>1, <1>2
<1>5. Behind \in SUBSET Nat /\ Behind # {}
  BY <1>1, <1>4
<1>6. Min(Behind) \in Behind /\ \A p \in Behind : Min(Behind) <= p
  BY <1>5, LeastElement
<1>7. Before \in SUBSET Int /\ Before # {} /\ \A p \in Before : p <= a
  BY <1>1, <1>4
<1>8. Max(Before) \in Before /\ \A p \in Before : p <= Max(Before)
  <2>1. a \in Int
    OBVIOUS
  <2> HIDE DEF Before
  <2> QED BY <2>1, <1>7, GreatestElement
<1> DEFINE first == Max(Before) + 1
           last == Min(Behind) - 1
<1>9. /\ first - 1 \in {-1} \cup Others /\ first - 1 < a
      /\ \A p \in Others : p < a => p < first
  <2> DEFINE m == Max(Before)
  <2>1. m \in {-1} \cup Others /\ m < a
    BY <1>8
  <2>2. \A p \in Others : p < a => p <= m
    BY <1>8
  <2>3. m \in Int
    BY <2>1, <1>4
  <2> HIDE DEF m
  <2>4. (m + 1) - 1 = m /\ \A p \in Others : p < a => p < m + 1
    BY <2>2, <2>3, <1>4
  <2> QED BY <2>1, <2>4 DEF m
<1>10. /\ last + 1 \in {SpaceSize} \cup Others /\ last + 1 > a
      /\ \A p \in Others : p > a => p > last
  <2> DEFINE m == Min(Behind)
  <2>1. m \in {SpaceSize} \cup Others /\ m > a
    BY <1>6
  <2>2. \A p \in Others : p > a => m <= p
    BY <1>6
  <2>3. m \in Int
    BY <2>1, <1>4, <1>1
  <2> HIDE DEF m
  <2>4. (m - 1) + 1 = m /\ \A p \in Others : p > a => p > m - 1
    BY <2>2, <2>3, <1>4
  <2> QED BY <2>1, <2>4 DEF m
<1>11. first \in Int /\ last \in Int
  <2>1. Max(Before) \in Int /\ Min(Behind) \in Int
    BY <1>5, <1>6, <1>7, <1>8
  <2> QED BY <2>1
<1>12. RunAround(a).first = first /\ RunAround(a).last = last
  BY <1>3
<1> HIDE DEF first, last
<1>13. first \in 0..a /\ last \in a..(SpaceSize - 1)
  BY <1>1, <1>4, <1>9, <1>10, <1>11
<1>14. \A p \in first..last : p \notin Others
  <2>1. a \notin Others
    BY <1>2
  <2> QED BY <2>1, <1>4, <1>9, <1>10, <1>11, <1>13
<1>15. first # 0 => first - 1 \in Others
  BY <1>9, <1>11
<1>16. last # SpaceSize - 1 => last + 1 \in Others
  BY <1>1, <1>10, <1>11
<1>17. RunAround(a).type = "free" <=> a \notin Mapped
  BY DEF RunAround
<1> QED BY <1>2, <1>13, <1>14, <1>15, <1>16, <1>17, <1>12

(* Two runs that meet are the same run.                                    *)
LEMMA RunsApart ==
  ASSUME NEW a \in Nat, NEW b \in Nat, a < SpaceSize, b < SpaceSize,
         Mapped \subseteq 0..(SpaceSize - 1),
         RunAround(a).first <= RunAround(b).last,
         RunAround(b).first <= RunAround(a).last
  PROVE  RunAround(a) = RunAround(b)
<1> DEFINE r == RunAround(a)
           s == RunAround(b)
<1>1. /\ r.first \in 0..a /\ r.last \in a..(SpaceSize - 1)
      /\ \A p \in r.first..r.last : p \in Mapped <=> a \in Mapped
      /\ r.first # 0 => ~(r.first - 1 \in Mapped <=> a \in Mapped)
      /\ r.last # SpaceSize - 1 => ~(r.last + 1 \in Mapped <=> a \in Mapped)
  BY RunShape
<1>2. /\ s.first \in 0..b /\ s.last \in b..(SpaceSize - 1)
      /\ \A p \in s.first..s.last : p \in Mapped <=> b \in Mapped
      /\ s.first # 0 => ~(s.first - 1 \in Mapped <=> b \in Mapped)
      /\ s.last # SpaceSize - 1 => ~(s.last + 1 \in Mapped <=> b \in Mapped)
  BY RunShape
<1>3. /\ r = [first |-> r.first, last |-> r.last, type |-> r.type]
      /\ s = [first |-> s.first, last |-> s.last, type |-> s.type]
      /\ r.type = IF a \in Mapped THEN "mapped" ELSE "free"
      /\ s.type = IF b \in Mapped THEN "mapped" ELSE "free"
  BY DEF RunAround
<1>4. r.first <= s.last /\ s.first <= r.last
  OBVIOUS
<1> HIDE DEF r, s
<1>5. a \in Mapped <=> b \in Mapped
  <2>1. CASE r.first <= s.first
    <3>1. s.first \in r.first..r.last /\ s.first \in s.first..s.last
      BY <1>1, <1>2, <1>4, <2>1
    <3> QED BY <3>1, <1>1, <1>2
  <2>2. CASE s.first <= r.first
    <3>1. r.first \in r.first..r.last /\ r.first \in s.first..s.last
      BY <1>1, <1>2, <1>4, <2>2
    <3> QED BY <3>1, <1>1, <1>2
  <2> QED BY <2>1, <2>2, <1>1, <1>2
<1>6. r.first = s.first
  <2>1. ~(r.first < s.first)
    BY <1>1, <1>2, <1>4, <1>5
  <2>2. ~(s.first < r.first)
    BY <1>1, <1>2, <1>4, <1>5
  <2> QED BY <2>1, <2>2, <1>1, <1>2
<1>7. r.last = s.last
  <2>1. ~(r.last < s.last)
    BY <1>1, <1>2, <1>4, <1>5
  <2>2. ~(s.last < r.last)
    BY <1>1, <1>2, <1>4, <1>5
  <2> QED BY <2>1, <2>2, <1>1, <1>2
<1>8. r = s
  BY <1>3, <1>5, <1>6, <1>7
<1> QED BY <1>8 DEF r, s

-----------------------------------------------------------------------------
TypeOK ==
  /\ holder \in Threads \cup {InvalidHandle}
  /\ next_availaible_address \in Nat
  /\ address \in Nat
  /\ pc \in [Threads -> {"idle", "enter", "scan", "look", "leave", "map"}]
  /\ reserved \in [Threads -> Nat]
  /\ wrapped \in BOOLEAN
  /\ Mapped \subseteq 0..(SpaceSize - 1)

RequestsOK ==
  /\ size = [t \in Threads |-> size[t]]
  /\ alignement = [t \in Threads |-> alignement[t]]
  /\ \A t \in Threads :
       pc[t] # "idle" => size[t] \in Nat \ {0} /\ alignement[t] \in Nat \ {0}

InsideHolds == \A t \in Threads : pc[t] \in {"scan", "look", "leave"} => holder = t

(* The run that the query returned ends at the candidate or behind it,     *)
(* also when the map has changed since.                                    *)
LookInside ==
  \A t \in Threads : pc[t] = "look" =>
    /\ InsideAddressRange(Candidate(t))
    /\ memory_info.last \in Nat /\ Candidate(t) <= memory_info.last

(* What is reserved lies below the address at which the next scan begins.  *)
PendingBelow ==
  ~wrapped =>
    \A t \in Threads :
      pc[t] = "map" => reserved[t] + size[t] <= next_availaible_address

(* A scan goes up from there, and what it finds is a guard page above the  *)
(* reservations before it.                                                 *)
ScanAbove ==
  ~wrapped =>
    /\ \A t \in Threads :
         pc[t] \in {"scan", "look"} => next_availaible_address <= address
    /\ \A t, u \in Threads :
         /\ pc[t] = "leave" /\ address # 0 =>
              next_availaible_address = address + size[t]
         /\ pc[t] = "leave" /\ address # 0 /\ pc[u] = "map" =>
              reserved[u] + size[u] + guard_page_size <= address

Region == address_space_start..(address_space_end - 1)

(* What Reserve has to go by in a run: its first page in the region, and   *)
(* where it enters the run if it comes from there.                         *)
FirstPage(run) == Max({run.first, address_space_start})

Entry(t, run) == AlignUp(FirstPage(run) + guard_page_size, alignement[t])

Useful(t, run) ==
  InsideAddressRange(Entry(t, run)) /\ Entry(t, run) <= run.last /\ Suits(t, run)

(* A scan that began at the start of the region has met no useful run, if  *)
(* the memory map stood still.                                             *)
ScanMissesNothing ==
  \A t \in Threads : pc[t] \in {"scan", "look"} =>
    /\ address >= address_space_start
    /\ already_retried /\ ~moved =>
         \A p \in Region :
           FirstPage(RunAround(p)) < address => ~Useful(t, RunAround(p))

(* What svcQueryMemory returned is still so, if the memory map stood still.*)
LookIsRight ==
  \A t \in Threads : pc[t] = "look" /\ ~moved => memory_info = RunAround(Candidate(t))

ApartIInv ==
  /\ TypeOK /\ RequestsOK /\ InsideHolds /\ LookInside /\ PendingBelow /\ ScanAbove
  /\ ReservationsApart

IInv == ApartIInv /\ ScanMissesNothing /\ LookIsRight /\ NullMeansFull

LEMMA InitIInv == Init => IInv
<1> SUFFICES ASSUME Init PROVE IInv
  OBVIOUS
<1>1. Mapped \subseteq 0..(SpaceSize - 1)
  BY DEF Init, Mapped
<1>2. /\ holder = InvalidHandle /\ address = 0 /\ wrapped = FALSE
      /\ next_availaible_address = address_space_start
      /\ pc = [t \in Threads |-> "idle"] /\ reserved = [t \in Threads |-> 0]
  BY DEF Init, MonitorInit
<1>3. TypeOK
  BY <1>1, <1>2 DEF TypeOK
<1>4. RequestsOK
  BY <1>2 DEF Init, RequestsOK
<1>5. InsideHolds /\ LookInside /\ PendingBelow /\ ScanAbove /\ ReservationsApart
  BY <1>2 DEF InsideHolds, LookInside, PendingBelow, ScanAbove, ReservationsApart
<1>6. ScanMissesNothing /\ LookIsRight /\ NullMeansFull
  BY <1>2 DEF ScanMissesNothing, LookIsRight, NullMeansFull
<1> QED BY <1>3, <1>4, <1>5, <1>6 DEF IInv, ApartIInv

(* The candidate is a guard page or more above the address of the scan.    *)
LEMMA CandidateAbove ==
  ASSUME ApartIInv, NEW t \in Threads, pc[t] \in {"scan", "look"}
  PROVE  Candidate(t) \in Nat /\ Candidate(t) >= address + guard_page_size
BY AlignUpBounds DEF ApartIInv, TypeOK, RequestsOK, Candidate

(* The first page of a run and the place where it is entered.              *)
LEMMA EntryBounds ==
  ASSUME IInv, NEW t \in Threads, pc[t] # "idle", NEW p \in Region
  PROVE  /\ FirstPage(RunAround(p)) \in address_space_start..p
         /\ RunAround(p).first <= FirstPage(RunAround(p))
         /\ Entry(t, RunAround(p)) \in Nat
         /\ \A a \in Nat : a <= FirstPage(RunAround(p)) =>
              AlignUp(a + guard_page_size, alignement[t]) <= Entry(t, RunAround(p))
<1>1. p \in Nat /\ p < SpaceSize /\ p >= address_space_start /\ alignement[t] \in Nat \ {0}
  BY DEF Region, IInv, ApartIInv, RequestsOK
<1>2. RunAround(p).first \in 0..p
  BY <1>1, RunShape DEF IInv, ApartIInv, TypeOK
<1> DEFINE S == {RunAround(p).first, address_space_start}
<1>3. FirstPage(RunAround(p)) \in S /\ \A x \in S : x <= FirstPage(RunAround(p))
  <2>1. p \in Int /\ S \in SUBSET Int /\ S # {} /\ \A x \in S : x <= p
    BY <1>1, <1>2
  <2> QED BY <2>1, GreatestElement DEF FirstPage
<1>4. /\ FirstPage(RunAround(p)) \in address_space_start..p
      /\ RunAround(p).first <= FirstPage(RunAround(p))
  BY <1>1, <1>2, <1>3
<1>5. FirstPage(RunAround(p)) + guard_page_size \in Nat
  BY <1>1, <1>4
<1>6. Entry(t, RunAround(p)) \in Nat
  BY <1>1, <1>5, AlignUpBounds DEF Entry
<1>7. ASSUME NEW a \in Nat, a <= FirstPage(RunAround(p))
      PROVE  AlignUp(a + guard_page_size, alignement[t]) <= Entry(t, RunAround(p))
  BY <1>1, <1>4, <1>5, <1>7, AlignUpMonotone DEF Entry
<1> QED BY <1>4, <1>6, <1>7

(* Reserve does not go past a useful run: one that begins at the address   *)
(* of the scan or behind it is entered at the candidate or behind it.      *)
LEMMA SkipMissesNothing ==
  ASSUME IInv, NEW t \in Threads, Skip(t), already_retried, ~moved, NEW p \in Region,
         FirstPage(RunAround(p)) < address'
  PROVE  ~Useful(t, RunAround(p))
<1> DEFINE c == Candidate(t)
<1>1. /\ pc[t] = "look" /\ InsideAddressRange(c)
      /\ ~Suits(t, RunAround(c)) /\ address' = RunAround(c).last + 1
  BY DEF Skip, IInv, ApartIInv, LookInside, LookIsRight
<1>2. c \in Nat /\ c < SpaceSize /\ address \in Nat /\ guard_page_size \in Nat
  BY <1>1, CandidateAbove DEF InsideAddressRange, IInv, ApartIInv, TypeOK
<1>3. CASE FirstPage(RunAround(p)) < address
  BY <1>1, <1>3 DEF IInv, ApartIInv, ScanMissesNothing
<1>4. CASE address <= FirstPage(RunAround(p))
  <2>1. c <= Entry(t, RunAround(p)) /\ Entry(t, RunAround(p)) \in Nat
    BY <1>1, <1>2, <1>4, EntryBounds DEF Candidate
  <2>2. CASE RunAround(p).last < c
    <3>1. RunAround(p).last \in Nat
      BY RunShape DEF Region, IInv, ApartIInv, TypeOK
    <3> QED BY <1>2, <2>1, <2>2, <3>1 DEF Useful
  <2>3. CASE c <= RunAround(p).last
    <3>1. RunAround(p) = RunAround(c)
      <4>1. p \in Nat /\ p < SpaceSize /\ Mapped \subseteq 0..(SpaceSize - 1)
        BY DEF Region, IInv, ApartIInv, TypeOK
      <4>2. RunAround(c).first <= c /\ RunAround(c).first \in Nat /\ RunAround(c).last \in Nat
        BY <1>2, <4>1, RunShape
      <4>3. /\ RunAround(p).first \in Nat /\ RunAround(p).last \in Nat
        BY <4>1, RunShape
      <4>4. FirstPage(RunAround(p)) \in Nat /\ RunAround(p).first <= FirstPage(RunAround(p))
        BY <1>1, EntryBounds
      <4>5. RunAround(p).first <= RunAround(c).last
        BY <1>1, <4>2, <4>3, <4>4
      <4>6. RunAround(c).first <= RunAround(p).last
        BY <1>2, <2>3, <4>2, <4>3
      <4> QED BY <1>2, <4>1, <4>5, <4>6, RunsApart
    <3> QED BY <1>1, <3>1 DEF Useful
  <2> QED
    <3>1. RunAround(p).last \in Nat
      BY RunShape DEF Region, IInv, ApartIInv, TypeOK
    <3> QED BY <1>2, <2>2, <2>3, <3>1
<1>5. FirstPage(RunAround(p)) \in Nat
  BY <1>1, EntryBounds
<1> QED BY <1>2, <1>3, <1>4, <1>5

(* When a scan that began at the start gives up, no run is useful.         *)
LEMMA GiveUpMissesNothing ==
  ASSUME IInv, NEW t \in Threads, GiveUp(t), ~moved, NEW p \in Region
  PROVE  ~Useful(t, RunAround(p))
<1>1. /\ pc[t] = "scan" /\ ~InsideAddressRange(Candidate(t)) /\ already_retried
  BY DEF GiveUp
<1>2. /\ Candidate(t) \in Nat /\ Candidate(t) >= address + guard_page_size
      /\ address \in Nat /\ guard_page_size \in Nat /\ address >= address_space_start
  BY <1>1, CandidateAbove DEF IInv, ApartIInv, TypeOK, ScanMissesNothing
<1>3. Candidate(t) >= address_space_end
  BY <1>1, <1>2 DEF InsideAddressRange
<1>4. CASE FirstPage(RunAround(p)) < address
  BY <1>1, <1>4 DEF IInv, ApartIInv, ScanMissesNothing
<1>5. CASE address <= FirstPage(RunAround(p))
  <2>1. Candidate(t) <= Entry(t, RunAround(p)) /\ Entry(t, RunAround(p)) \in Nat
    BY <1>1, <1>2, <1>5, EntryBounds DEF Candidate
  <2> QED BY <1>2, <1>3, <2>1 DEF Useful, InsideAddressRange
<1>6. FirstPage(RunAround(p)) \in Nat
  BY <1>1, EntryBounds
<1> QED BY <1>2, <1>4, <1>5, <1>6

(* NullMeansFull says that no run of the region is useful.                 *)
LEMMA NullMeansNoneUseful ==
  NullMeansFull <=>
    \A t \in Threads :
      pc[t] = "leave" /\ address = 0 /\ ~moved =>
        \A p \in Region : ~Useful(t, RunAround(p))
BY Zenon DEF NullMeansFull, Useful, Entry, FirstPage, Region

LEMMA StepLook == ApartIInv /\ [Next]_vars => LookInside'
<1> SUFFICES ASSUME ApartIInv, [Next]_vars, NEW u \in Threads, pc'[u] = "look"
             PROVE  /\ InsideAddressRange(Candidate(u)')
                    /\ memory_info'.last \in Nat /\ Candidate(u)' <= memory_info'.last
  BY DEF LookInside, InsideAddressRange
<1>1. CASE QueryMemory(u)
  <2>1. /\ pc[u] = "scan" /\ InsideAddressRange(Candidate(u))
        /\ memory_info' = RunAround(Candidate(u)) /\ Candidate(u)' = Candidate(u)
    BY <1>1 DEF QueryMemory, Candidate, request
  <2>2. Candidate(u) \in Nat /\ Candidate(u) < SpaceSize
    BY <2>1, CandidateAbove DEF InsideAddressRange
  <2>3. /\ RunAround(Candidate(u)).last \in Nat
        /\ Candidate(u) <= RunAround(Candidate(u)).last
    BY <2>2, RunShape DEF ApartIInv, TypeOK
  <2> QED BY <2>1, <2>3
<1>2. CASE ~QueryMemory(u)
  <2> DEFINE Kept == /\ pc[u] = "look" /\ alignement'[u] = alignement[u]
                     /\ address' = address /\ memory_info' = memory_info
  <2>1. Kept
    <3>1. ASSUME NEW t \in Threads, Call(t) \/ Map(t) \/ Unmap(t) \/ Leave(t) PROVE Kept
      BY <3>1, <1>2 DEF Call, Map, Unmap, Leave, scan, request, ApartIInv, TypeOK, RequestsOK,
                        InsideHolds
    <3>2. ASSUME NEW t \in Threads,
                 Begin(t) \/ StartOver(t) \/ GiveUp(t) \/ QueryMemory(t) \/ Skip(t) \/ Find(t)
          PROVE  Kept
      BY <3>2, <1>2 DEF Begin, Acquire, StartOver, GiveUp, QueryMemory, Skip, Find, ApartIInv,
                        TypeOK, InsideHolds
    <3> QED BY <3>1, <3>2 DEF Next, Reserve, vars, scan, request
  <2>2. Candidate(u)' = Candidate(u)
    BY <2>1 DEF Candidate
  <2> QED BY <2>1, <2>2 DEF ApartIInv, LookInside
<1> QED BY <1>1, <1>2

LEMMA StepApart == ApartIInv /\ [Next]_vars => ApartIInv'
<1> SUFFICES ASSUME ApartIInv, [Next]_vars, LookInside' PROVE ApartIInv'
  BY StepLook
<1> USE DEF ApartIInv, TypeOK, RequestsOK, InsideHolds, PendingBelow, ScanAbove,
        ReservationsApart, monitorVars, scan, request
<1>1. ASSUME NEW t \in Threads, Call(t) PROVE ApartIInv'
  BY <1>1 DEF Call, Mapped
<1>2. ASSUME NEW t \in Threads, Begin(t) PROVE ApartIInv'
  <2>1. CASE InsideAddressRange(next_availaible_address)
    BY <1>2, <2>1 DEF Begin, Acquire, Mapped
  <2>2. CASE ~InsideAddressRange(next_availaible_address)
    BY <1>2, <2>2 DEF Begin, Acquire, Mapped
  <2> QED BY <2>1, <2>2
<1>3. ASSUME NEW t \in Threads, StartOver(t) PROVE ApartIInv'
  BY <1>3 DEF StartOver, Mapped
<1>4. ASSUME NEW t \in Threads, GiveUp(t) PROVE ApartIInv'
  BY <1>4 DEF GiveUp, Mapped
<1>5. ASSUME NEW t \in Threads, Skip(t) PROVE ApartIInv'
  <2>1. /\ pc[t] = "look" /\ pc' = [pc EXCEPT ![t] = "scan"]
        /\ address' = memory_info.last + 1
        /\ UNCHANGED <<monitorVars, next_availaible_address, request, reserved, wrapped>>
        /\ Mapped' = Mapped
    BY <1>5 DEF Skip, Mapped
  <2>2. Candidate(t) \in Nat /\ Candidate(t) >= address + guard_page_size
    BY <2>1, CandidateAbove
  <2>3. memory_info.last \in Nat /\ memory_info.last >= Candidate(t)
    BY <2>1 DEF LookInside
  <2>4. address' \in Nat /\ address' >= address
    BY <2>1, <2>2, <2>3
  <2> QED BY <2>1, <2>4
<1>6. ASSUME NEW t \in Threads, Find(t) PROVE ApartIInv'
  <2>1. /\ pc[t] = "look" /\ pc' = [pc EXCEPT ![t] = "leave"]
        /\ address' = Candidate(t)
        /\ next_availaible_address' = Candidate(t) + size[t]
        /\ UNCHANGED <<monitorVars, request, reserved, wrapped>>
        /\ Mapped' = Mapped
    BY <1>6 DEF Find, Mapped
  <2>2. Candidate(t) \in Nat /\ Candidate(t) >= address + guard_page_size
    BY <2>1, CandidateAbove
  <2> QED BY <2>1, <2>2
<1>7. ASSUME NEW t \in Threads, Leave(t) PROVE ApartIInv'
  BY <1>7 DEF Leave, Release, Mapped
<1>8. ASSUME NEW t \in Threads, Map(t) PROVE ApartIInv'
  <2>1. Mapped' \subseteq 0..(SpaceSize - 1)
    <3>1. CASE Fits(t)
      <4>1. Target(t) \subseteq Int
        BY DEF Target, Pages
      <4>2. \A p \in Target(t) : p \in 0..(SpaceSize - 1)
        BY <3>1, <4>1 DEF Fits, InsideAddressRange
      <4>3. mappings' = mappings \cup {Target(t)}
        BY <1>8, <3>1 DEF Map
      <4>4. Mapped' = Mapped \cup Target(t)
        BY <4>3 DEF Mapped
      <4> QED BY <4>2, <4>4
    <3>2. CASE ~Fits(t)
      BY <1>8, <3>2 DEF Map, Mapped
    <3> QED BY <3>1, <3>2
  <2> QED BY <1>8, <2>1 DEF Map
<1>9. ASSUME NEW t \in Threads, Unmap(t) PROVE ApartIInv'
  <2>1. Mapped' \subseteq 0..(SpaceSize - 1)
    BY <1>9 DEF Unmap, Mapped
  <2> QED BY <1>9, <2>1 DEF Unmap
<1>10. ASSUME NEW t \in Threads, QueryMemory(t) PROVE ApartIInv'
  BY <1>10 DEF QueryMemory, Mapped
<1>11. CASE UNCHANGED vars
  BY <1>11 DEF vars, Mapped
<1> QED
  BY <1>1, <1>2, <1>3, <1>4, <1>5, <1>6, <1>7, <1>8, <1>9, <1>10, <1>11 DEF Next, Reserve

LEMMA StepNull == IInv /\ [Next]_vars => ScanMissesNothing' /\ NullMeansFull'
<1> SUFFICES ASSUME IInv, [Next]_vars PROVE ScanMissesNothing' /\ NullMeansFull'
  OBVIOUS
<1> DEFINE NoneUseful ==
             \A t \in Threads :
               pc[t] = "leave" /\ address = 0 /\ ~moved =>
                 \A p \in Region : ~Useful(t, RunAround(p))
<1>1. NoneUseful
  BY NullMeansNoneUseful DEF IInv
<1>2. SUFFICES ScanMissesNothing' /\ NoneUseful'
  <2>1. NullMeansFull' <=> NoneUseful'
    BY NullMeansNoneUseful, PTL
  <2> QED BY <2>1
<1> USE DEF ApartIInv, monitorVars, scan, request
<1>3. ASSUME UNCHANGED mappings, NEW u \in Threads,
             size'[u] = size[u], alignement'[u] = alignement[u], NEW p \in Region
      PROVE  /\ FirstPage(RunAround(p))' = FirstPage(RunAround(p))
             /\ Useful(u, RunAround(p))' <=> Useful(u, RunAround(p))
  <2>1. Mapped' = Mapped
    BY <1>3 DEF Mapped
  <2>2. RunAround(p)' = RunAround(p)
    BY Zenon, <2>1 DEF RunAround
  <2>3. FirstPage(RunAround(p))' = FirstPage(RunAround(p))
    BY Zenon, <2>2 DEF FirstPage
  <2>4. Entry(u, RunAround(p))' = Entry(u, RunAround(p))
    BY Zenon, <1>3, <2>3 DEF Entry
  <2>5. Suits(u, RunAround(p))' <=> Suits(u, RunAround(p))
    BY Zenon, <1>3, <2>2 DEF Suits, RunSize
  <2> QED BY Zenon, <2>2, <2>3, <2>4, <2>5 DEF Useful, InsideAddressRange
<1>4. Region \subseteq Nat /\ Region' = Region
  BY DEF Region
<1>5. ASSUME NEW t \in Threads, Call(t) PROVE ScanMissesNothing' /\ NoneUseful'
  <2>1. /\ UNCHANGED <<mappings, address, already_retried, moved>>
        /\ \A u \in Threads : pc'[u] \in {"scan", "look", "leave"} =>
             pc'[u] = pc[u] /\ size'[u] = size[u] /\ alignement'[u] = alignement[u]
    BY <1>5 DEF Call, IInv, TypeOK, RequestsOK
  <2> QED BY Zenon, <2>1, <1>1, <1>3 DEF IInv, ScanMissesNothing, Region
<1>6. ASSUME NEW t \in Threads, Begin(t) PROVE ScanMissesNothing' /\ NoneUseful'
  <2>1. /\ already_retried' = FALSE /\ pc' = [pc EXCEPT ![t] = "scan"]
        /\ address' >= address_space_start
    BY <1>6 DEF Begin, InsideAddressRange, IInv, TypeOK
  <2>2. \A u \in Threads : pc'[u] # "leave"
    BY <1>6, <2>1 DEF Begin, Acquire, IInv, InsideHolds, TypeOK
  <2>3. \A u \in Threads : pc'[u] \in {"scan", "look"} => u = t
    BY <1>6, <2>1 DEF Begin, Acquire, IInv, InsideHolds, TypeOK
  <2> QED BY <2>1, <2>2, <2>3 DEF ScanMissesNothing
<1>7. ASSUME NEW t \in Threads, StartOver(t) PROVE ScanMissesNothing' /\ NoneUseful'
  <2>1. /\ address' = address_space_start /\ pc' = pc /\ pc[t] = "scan"
        /\ UNCHANGED <<mappings, request>>
    BY <1>7 DEF StartOver
  <2>2. \A u \in Threads : pc'[u] # "leave"
    BY <2>1 DEF IInv, InsideHolds
  <2>3. \A p \in Region : ~(FirstPage(RunAround(p))' < address')
    <3>1. \A p \in Region :
            FirstPage(RunAround(p)) \in Nat /\ address_space_start <= FirstPage(RunAround(p))
      BY <2>1, EntryBounds
    <3>2. \A p \in Region : FirstPage(RunAround(p))' = FirstPage(RunAround(p))
      BY <2>1, <1>3
    <3> QED BY <2>1, <3>1, <3>2
  <2> QED BY <2>1, <2>2, <2>3 DEF ScanMissesNothing, Region
<1>8. ASSUME NEW t \in Threads, GiveUp(t) PROVE ScanMissesNothing' /\ NoneUseful'
  <2>1. /\ pc[t] = "scan" /\ pc' = [pc EXCEPT ![t] = "leave"]
        /\ UNCHANGED <<mappings, request, moved>>
    BY <1>8 DEF GiveUp
  <2>2. \A u \in Threads : pc'[u] \notin {"scan", "look"} /\ (pc'[u] = "leave" => u = t)
    BY <2>1 DEF IInv, InsideHolds, TypeOK
  <2>3. ~moved => \A p \in Region : ~Useful(t, RunAround(p))
    BY <1>8, GiveUpMissesNothing
  <2> QED BY Zenon, <2>1, <2>2, <2>3, <1>3 DEF ScanMissesNothing, Region
<1>9. ASSUME NEW t \in Threads, Skip(t) PROVE ScanMissesNothing' /\ NoneUseful'
  <2>1. /\ pc[t] = "look" /\ pc' = [pc EXCEPT ![t] = "scan"]
        /\ already_retried' = already_retried
        /\ address' = memory_info.last + 1
        /\ UNCHANGED <<mappings, request, moved>>
    BY <1>9 DEF Skip
  <2>2. \A u \in Threads : pc'[u] # "leave" /\ (pc'[u] \in {"scan", "look"} => u = t)
    BY <2>1 DEF IInv, InsideHolds, TypeOK
  <2>3. already_retried /\ ~moved =>
          \A p \in Region :
            FirstPage(RunAround(p)) < address' => ~Useful(t, RunAround(p))
    BY <1>9, SkipMissesNothing
  <2>4. address' >= address_space_start
    <3>1. Candidate(t) \in Nat /\ Candidate(t) >= address_space_start
      BY <2>1, CandidateAbove DEF IInv, LookInside, InsideAddressRange
    <3>2. memory_info.last \in Nat /\ memory_info.last >= Candidate(t)
      BY <2>1 DEF IInv, LookInside
    <3> QED BY <2>1, <3>1, <3>2
  <2>5. already_retried' /\ ~moved' =>
          \A p \in Region :
            FirstPage(RunAround(p))' < address' => ~Useful(t, RunAround(p))'
    BY Zenon, <2>1, <2>3, <1>3
  <2> QED BY Zenon, <2>2, <2>4, <2>5 DEF ScanMissesNothing, Region
<1>10. ASSUME NEW t \in Threads, Find(t) PROVE ScanMissesNothing' /\ NoneUseful'
  <2>1. /\ pc[t] = "look" /\ pc' = [pc EXCEPT ![t] = "leave"]
        /\ InsideAddressRange(Candidate(t)) /\ address' = Candidate(t)
    BY <1>10 DEF Find, IInv, LookInside
  <2>2. \A u \in Threads : pc'[u] \notin {"scan", "look"}
    BY <2>1 DEF IInv, InsideHolds, TypeOK
  <2>3. address' # 0
    BY <2>1, CandidateAbove DEF InsideAddressRange, IInv
  <2> QED BY Zenon, <2>2, <2>3 DEF ScanMissesNothing
<1>11. ASSUME NEW t \in Threads, Leave(t) PROVE ScanMissesNothing' /\ NoneUseful'
  <2>1. /\ pc[t] = "leave"
        /\ pc' = [pc EXCEPT ![t] = IF address = 0 THEN "idle" ELSE "map"]
    BY <1>11 DEF Leave
  <2>2. \A u \in Threads : pc'[u] \notin {"scan", "look", "leave"}
    BY <2>1 DEF IInv, InsideHolds, TypeOK
  <2> QED BY Zenon, <2>2 DEF ScanMissesNothing
<1>12. ASSUME NEW t \in Threads, Map(t) PROVE ScanMissesNothing' /\ NoneUseful'
  <2>1. /\ UNCHANGED <<address, already_retried, request>>
        /\ ~moved' => ~moved /\ UNCHANGED mappings
        /\ \A u \in Threads : pc'[u] \in {"scan", "look", "leave"} => pc'[u] = pc[u]
    BY <1>12 DEF Map, IInv, TypeOK
  <2>2. UNCHANGED request => size' = size /\ alignement' = alignement
    OBVIOUS
  <2> QED BY Zenon, <2>1, <2>2, <1>1, <1>3 DEF IInv, ScanMissesNothing, Region
<1>13. ASSUME NEW t \in Threads, Unmap(t) PROVE ScanMissesNothing' /\ NoneUseful'
  <2>1. UNCHANGED <<address, pc>> /\ moved'
    BY <1>13 DEF Unmap
  <2> QED BY <2>1 DEF IInv, ScanMissesNothing, Region
<1>14. CASE UNCHANGED vars
  <2>1. UNCHANGED <<address, already_retried, moved, pc, size, alignement, mappings>>
    BY <1>14 DEF vars
  <2> QED BY Zenon, <2>1, <1>1, <1>3 DEF IInv, ScanMissesNothing, Region
<1>15. ASSUME NEW t \in Threads, QueryMemory(t) PROVE ScanMissesNothing' /\ NoneUseful'
  <2>1. /\ pc[t] = "scan" /\ pc' = [pc EXCEPT ![t] = "look"]
        /\ UNCHANGED <<mappings, request, address, already_retried, moved>>
    BY <1>15 DEF QueryMemory
  <2>2. \A u \in Threads : pc'[u] # "leave" /\ (pc'[u] \in {"scan", "look"} => u = t)
    BY <2>1 DEF IInv, InsideHolds, TypeOK
  <2> QED BY Zenon, <2>1, <2>2, <1>3 DEF IInv, ScanMissesNothing, Region
<1> QED
  BY <1>2, <1>5, <1>6, <1>7, <1>8, <1>9, <1>10, <1>11, <1>12, <1>13, <1>14,
     <1>15 DEF Next, Reserve

LEMMA StepLookIsRight == IInv /\ [Next]_vars => LookIsRight'
<1> SUFFICES ASSUME IInv, [Next]_vars, NEW u \in Threads, pc'[u] = "look", ~moved'
             PROVE  memory_info' = RunAround(Candidate(u))'
  BY DEF LookIsRight
<1> USE DEF scan, request
<1>1. CASE QueryMemory(u)
  <2>1. memory_info' = RunAround(Candidate(u)) /\ Candidate(u)' = Candidate(u)
    BY <1>1 DEF QueryMemory, Candidate
  <2>2. Mapped' = Mapped
    BY <1>1 DEF QueryMemory, Mapped
  <2> QED BY Zenon, <2>1, <2>2 DEF RunAround
<1>2. CASE ~QueryMemory(u)
  <2> DEFINE Kept == /\ pc[u] = "look" /\ alignement'[u] = alignement[u] /\ ~moved
                     /\ UNCHANGED <<address, memory_info, mappings>>
  <2>1. Kept
    <3>1. ASSUME NEW t \in Threads, Call(t) \/ Leave(t) PROVE Kept
      BY <3>1, <1>2 DEF Call, Leave, IInv, ApartIInv, TypeOK, RequestsOK, InsideHolds
    <3>2. ASSUME NEW t \in Threads, Map(t) PROVE Kept
      <4>1. ~moved /\ UNCHANGED mappings
        BY <3>2 DEF Map
      <4> QED BY <3>2, <4>1 DEF Map, IInv, ApartIInv, TypeOK
    <3>3. ASSUME NEW t \in Threads, Unmap(t) PROVE Kept
      BY <3>3 DEF Unmap
    <3>4. ASSUME NEW t \in Threads,
                 Begin(t) \/ StartOver(t) \/ GiveUp(t) \/ QueryMemory(t) \/ Skip(t) \/ Find(t)
          PROVE  Kept
      BY <3>4, <1>2 DEF Begin, Acquire, StartOver, GiveUp, QueryMemory, Skip, Find, IInv,
                        ApartIInv, TypeOK, InsideHolds
    <3> QED BY <3>1, <3>2, <3>3, <3>4 DEF Next, Reserve, vars
  <2>2. memory_info = RunAround(Candidate(u))
    BY <2>1 DEF IInv, LookIsRight
  <2>3. Candidate(u)' = Candidate(u)
    BY <2>1 DEF Candidate
  <2>4. Mapped' = Mapped
    BY <2>1 DEF Mapped
  <2> QED BY Zenon, <2>1, <2>2, <2>3, <2>4 DEF RunAround
<1> QED BY <1>1, <1>2

LEMMA StepIInv == IInv /\ [Next]_vars => IInv'
BY StepApart, StepNull, StepLookIsRight DEF IInv

LEMMA Invariance == Spec => []IInv
BY InitIInv, StepIInv, PTL DEF Spec

(* Reserve tells no two callers overlapping places until a scan of the     *)
(* region has started over, though it records nothing but where it stopped.*)
THEOREM Apart == Spec => []ReservationsApart
<1>1. IInv => ReservationsApart
  BY DEF IInv, ApartIInv
<1> QED BY <1>1, Invariance, PTL

(* If nothing was mapped or unmapped while Reserve scanned, it returns null *)
(* only if no hole of the region would have suited the request: neither its *)
(* steps from run to run nor the start in the middle lose one.              *)
THEOREM NullIsRight == Spec => []NullMeansFull
<1>1. IInv => NullMeansFull
  BY DEF IInv
<1> QED BY <1>1, Invariance, PTL

=============================================================================
