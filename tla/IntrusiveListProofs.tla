------------------------ MODULE IntrusiveListProofs -------------------------
(***************************************************************************)
(* For any elements and lists: whatever calls are made, every node is in   *)
(* one ring that reads the same in both directions, and the rings of the   *)
(* lists implement the sequences of OrderedLists.                          *)
(*                                                                         *)
(*  1. The memory: one lemma for each of the element's functions.  Written *)
(*     out, its four stores swap the successors of two nodes, whether or   *)
(*     not these are neighbours.                                           *)
(*  2. Rings as sequences: a swap joins two rings, or splits one.          *)
(*  3. Types and mirrored pointers are invariants.                         *)
(*  4. After, which the refinement mapping is made of, returns the ring.   *)
(*  5. Each call does to its list what its name says, and no more.         *)
(*  6. The invariant of the refinement, and the refinement.                *)
(***************************************************************************)
EXTENDS IntrusiveList, FiniteSetTheorems, WellFoundedInduction, TLAPS

-----------------------------------------------------------------------------
(* 1. THE MEMORY                                                           *)

Memory == [prev : [Nodes -> Nodes], next : [Nodes -> Nodes]]

(* The nodes of S are linked among themselves, the same in both directions.*)
Mirror(m, S) ==
  \A n \in S :
    /\ m.next[n] \in S /\ m.prev[m.next[n]] = n
    /\ m.prev[n] \in S /\ m.next[m.prev[n]] = n

(* Two nodes get each other's successor.                                   *)
Swapped(m, w, S, a, b) ==
  \A y \in S : w.next[y] = IF y = a THEN m.next[b] ELSE IF y = b THEN m.next[a] ELSE m.next[y]

(* One store, and nothing else.                                            *)
LEMMA PrevStored ==
  ASSUME NEW m \in Memory, NEW node \in Nodes, NEW value \in Nodes
  PROVE  /\ SetPrev(m, node, value) \in Memory
         /\ SetPrev(m, node, value).next = m.next
         /\ SetPrev(m, node, value).prev = [m.prev EXCEPT ![node] = value]
BY DEF SetPrev, Memory

LEMMA NextStored ==
  ASSUME NEW m \in Memory, NEW node \in Nodes, NEW value \in Nodes
  PROVE  /\ SetNext(m, node, value) \in Memory
         /\ SetNext(m, node, value).prev = m.prev
         /\ SetNext(m, node, value).next = [m.next EXCEPT ![node] = value]
BY DEF SetNext, Memory

(* In a mirrored memory LinkPrev swaps the predecessors of two nodes.      *)
LEMMA LinkPrevMirrors ==
  ASSUME NEW m \in Memory, NEW S \in SUBSET Nodes, Mirror(m, S),
         NEW this \in S, NEW x \in S
  PROVE  /\ LinkPrev(m, this, x, x) \in Memory /\ Mirror(LinkPrev(m, this, x, x), S)
         /\ Swapped(m, LinkPrev(m, this, x, x), S, m.prev[this], m.prev[x])
<1> DEFINE p == m.prev[this]
           link == m.prev[x]
           m1 == SetPrev(m, x, p)
           m2 == SetNext(m1, link, this)
           m3 == SetNext(m2, m2.prev[this], x)
           m4 == SetPrev(m3, this, link)
<1>1. LinkPrev(m, this, x, x) = m4
  BY DEF LinkPrev, LinkPrevStore
<1>2. p \in S /\ link \in S /\ x \in Nodes /\ this \in Nodes /\ p \in Nodes /\ link \in Nodes
  BY DEF Mirror
<1>3. m1 \in Memory /\ m1.next = m.next /\ m1.prev = [m.prev EXCEPT ![x] = p]
  BY <1>2, PrevStored
<1>4. m2 \in Memory /\ m2.prev = m1.prev /\ m2.next = [m1.next EXCEPT ![link] = this]
  <2> HIDE DEF m1
  <2> QED BY <1>2, <1>3, NextStored
<1>5. m2.prev[this] = p
  BY <1>2, <1>3, <1>4 DEF Memory
<1>6. m3 \in Memory /\ m3.prev = m2.prev /\ m3.next = [m2.next EXCEPT ![p] = x]
  <2> HIDE DEF m2
  <2> QED BY <1>2, <1>4, <1>5, NextStored
<1>7. m4 \in Memory /\ m4.next = m3.next /\ m4.prev = [m3.prev EXCEPT ![this] = link]
  <2> HIDE DEF m3
  <2> QED BY <1>2, <1>6, PrevStored
<1> HIDE DEF m1, m2, m3, m4
<1>8. m4.next = [[m.next EXCEPT ![link] = this] EXCEPT ![p] = x]
  BY <1>3, <1>4, <1>6, <1>7
<1>9. m4.prev = [[m.prev EXCEPT ![x] = p] EXCEPT ![this] = link]
  BY <1>3, <1>4, <1>6, <1>7
<1>10. Mirror(m4, S)
  <2> SUFFICES ASSUME NEW n \in S
               PROVE  /\ m4.next[n] \in S /\ m4.prev[m4.next[n]] = n
                      /\ m4.prev[n] \in S /\ m4.next[m4.prev[n]] = n
    BY DEF Mirror
  <2> QED BY <1>2, <1>8, <1>9 DEF Mirror, Memory
<1>11. Swapped(m, m4, S, p, link)
  BY <1>2, <1>8 DEF Swapped, Mirror, Memory
<1> QED BY <1>1, <1>7, <1>10, <1>11

(* LinkNext does so with the nodes after them.                             *)
LEMMA LinkNextMirrors ==
  ASSUME NEW m \in Memory, NEW S \in SUBSET Nodes, Mirror(m, S),
         NEW this \in S, NEW x \in S
  PROVE  /\ LinkNext(m, this, x, x) \in Memory /\ Mirror(LinkNext(m, this, x, x), S)
         /\ Swapped(m, LinkNext(m, this, x, x), S, this, m.prev[x])
<1> DEFINE q == m.next[this]
           link == m.prev[x]
           m1 == SetPrev(m, x, this)
           m2 == SetNext(m1, link, m1.next[this])
           m3 == SetPrev(m2, m2.next[this], link)
           m4 == SetNext(m3, this, x)
<1>1. LinkNext(m, this, x, x) = m4
  BY DEF LinkNext
<1>2. q \in S /\ link \in S /\ x \in Nodes /\ this \in Nodes /\ q \in Nodes /\ link \in Nodes
  BY DEF Mirror
<1>3. m1 \in Memory /\ m1.next = m.next /\ m1.prev = [m.prev EXCEPT ![x] = this]
  BY <1>2, PrevStored
<1>4. m2 \in Memory /\ m2.prev = m1.prev /\ m2.next = [m1.next EXCEPT ![link] = q]
  <2> HIDE DEF m1
  <2> QED BY <1>2, <1>3, NextStored
<1>5. m2.next[this] = q
  BY <1>2, <1>3, <1>4 DEF Memory
<1>6. m3 \in Memory /\ m3.next = m2.next /\ m3.prev = [m2.prev EXCEPT ![q] = link]
  <2> HIDE DEF m2
  <2> QED BY <1>2, <1>4, <1>5, PrevStored
<1>7. m4 \in Memory /\ m4.prev = m3.prev /\ m4.next = [m3.next EXCEPT ![this] = x]
  <2> HIDE DEF m3
  <2> QED BY <1>2, <1>6, NextStored
<1> HIDE DEF m1, m2, m3, m4
<1>8. m4.next = [[m.next EXCEPT ![link] = q] EXCEPT ![this] = x]
  BY <1>3, <1>4, <1>6, <1>7
<1>9. m4.prev = [[m.prev EXCEPT ![x] = this] EXCEPT ![q] = link]
  BY <1>3, <1>4, <1>6, <1>7
<1>10. Mirror(m4, S)
  <2> SUFFICES ASSUME NEW n \in S
               PROVE  /\ m4.next[n] \in S /\ m4.prev[m4.next[n]] = n
                      /\ m4.prev[n] \in S /\ m4.next[m4.prev[n]] = n
    BY DEF Mirror
  <2> QED BY <1>2, <1>8, <1>9 DEF Mirror, Memory
<1>11. Swapped(m, m4, S, this, link)
  BY <1>2, <1>8 DEF Swapped, Mirror, Memory
<1> QED BY <1>1, <1>7, <1>10, <1>11

(* Unlink swaps the predecessors of this and past, too.                    *)
LEMMA UnlinkMirrors ==
  ASSUME NEW m \in Memory, NEW S \in SUBSET Nodes, Mirror(m, S),
         NEW this \in S, NEW past \in S
  PROVE  /\ Unlink(m, this, past) \in Memory /\ Mirror(Unlink(m, this, past), S)
         /\ Swapped(m, Unlink(m, this, past), S, m.prev[this], m.prev[past])
<1> DEFINE p == m.prev[this]
           link == m.prev[past]
           m1 == SetNext(m, p, past)
           m2 == SetPrev(m1, past, m1.prev[this])
           m3 == SetNext(m2, link, this)
           m4 == SetPrev(m3, this, link)
<1>1. Unlink(m, this, past) = m4
  BY DEF Unlink, UnlinkStore
<1>2. /\ p \in S /\ link \in S
      /\ past \in Nodes /\ this \in Nodes /\ p \in Nodes /\ link \in Nodes
  BY DEF Mirror
<1>3. m1 \in Memory /\ m1.prev = m.prev /\ m1.next = [m.next EXCEPT ![p] = past]
  BY <1>2, NextStored
<1>4. m2 \in Memory /\ m2.next = m1.next /\ m2.prev = [m1.prev EXCEPT ![past] = p]
  <2> HIDE DEF m1
  <2> QED BY <1>2, <1>3, PrevStored
<1>5. m3 \in Memory /\ m3.prev = m2.prev /\ m3.next = [m2.next EXCEPT ![link] = this]
  <2> HIDE DEF m2
  <2> QED BY <1>2, <1>4, NextStored
<1>6. m4 \in Memory /\ m4.next = m3.next /\ m4.prev = [m3.prev EXCEPT ![this] = link]
  <2> HIDE DEF m3
  <2> QED BY <1>2, <1>5, PrevStored
<1> HIDE DEF m1, m2, m3, m4
<1>7. m4.next = [[m.next EXCEPT ![p] = past] EXCEPT ![link] = this]
  BY <1>3, <1>4, <1>5, <1>6
<1>8. m4.prev = [[m.prev EXCEPT ![past] = p] EXCEPT ![this] = link]
  BY <1>3, <1>4, <1>5, <1>6
<1>9. Mirror(m4, S)
  <2> SUFFICES ASSUME NEW n \in S
               PROVE  /\ m4.next[n] \in S /\ m4.prev[m4.next[n]] = n
                      /\ m4.prev[n] \in S /\ m4.next[m4.prev[n]] = n
    BY DEF Mirror
  <2> QED BY <1>2, <1>7, <1>8 DEF Mirror, Memory
<1>10. Swapped(m, m4, S, p, link)
  BY <1>2, <1>7 DEF Swapped, Mirror, Memory
<1> QED BY <1>1, <1>6, <1>9, <1>10

(* A constructed element becomes a ring of its own.                        *)
LEMMA ConstructMirrors ==
  ASSUME NEW m \in Memory, NEW S \in SUBSET Nodes, Mirror(m, S), NEW x \in Nodes \ S
  PROVE  Construct(m, x) \in Memory /\ Mirror(Construct(m, x), S \cup {x})
<1> DEFINE m1 == SetPrev(m, x, x)
           m2 == SetNext(m1, x, x)
<1>1. m1 \in Memory /\ m1.next = m.next /\ m1.prev = [m.prev EXCEPT ![x] = x]
  BY PrevStored
<1>2. m2 \in Memory /\ m2.prev = m1.prev /\ m2.next = [m1.next EXCEPT ![x] = x]
  <2> HIDE DEF m1
  <2> QED BY <1>1, NextStored
<1>3. Construct(m, x) = m2
  BY DEF Construct
<1> HIDE DEF m1, m2
<1> QED BY <1>1, <1>2, <1>3 DEF Mirror, Memory

-----------------------------------------------------------------------------
(* 2. RINGS AS SEQUENCES                                                   *)

(* A ring, seen from one of its nodes n, is the sequence s of the other    *)
(* nodes. At counts its places: n is at 0 and again past the end.          *)
At(n, s, i) == IF i \in 1..Len(s) THEN s[i] ELSE n

Ring(m, n, s) ==
  /\ \A i, j \in 1..Len(s) : s[i] = s[j] => i = j
  /\ \A i \in 1..Len(s) : s[i] # n
  /\ \A i \in 0..Len(s) : m.next[At(n, s, i)] = At(n, s, i + 1)

(* The lists that share memory do not share rings.                         *)
OneRoot(n, s) ==
  \A i, j \in 0..Len(s) : At(n, s, i) \in Lists /\ At(n, s, j) \in Lists => i = j

(* A whole ring: all of its nodes are in S, and at most one is a list's.   *)
Whole(m, S, n, s) == s \in Seq(S) /\ Ring(m, n, s) /\ OneRoot(n, s)

(* The nodes of a ring, wherever it is seen from.                          *)
Circle(n, s) == {At(n, s, i) : i \in 0..Len(s)}

(* Counting up to n.                                                       *)
LEMMA UpTo ==
  ASSUME NEW n \in Nat, NEW S, 0 \in S, \A i \in 1..n : i - 1 \in S => i \in S
  PROVE  0..n \subseteq S
<1> DEFINE Less == OpToRel(<, Nat)
           Rest == {i \in 0..n : i \notin S}
<1>1. IsWellFoundedOn(Less, Nat)
  BY NatLessThanWellFounded
<1>2. \A x, y \in Nat : x < y => <<x, y>> \in Less
  BY DEF OpToRel
<1>3. Rest \in SUBSET Nat
  OBVIOUS
<1>4. ASSUME Rest # {} PROVE FALSE
  <2> HIDE DEF Less, Rest
  <2>1. PICK x \in Rest : \A y \in Rest : <<y, x>> \notin Less
    BY <1>1, <1>3, <1>4, WFMin
  <2>2. \A y \in Rest : ~(y < x)
    BY <1>2, <1>3, <2>1
  <2> USE DEF Rest
  <2>3. x \in 1..n /\ x - 1 \in 0..n
    BY <2>1
  <2>4. x - 1 \in S
    BY <2>2, <2>3
  <2> QED BY <2>1, <2>3, <2>4
<1> QED BY <1>4

(* How many places there are.                                              *)
LEMMA CountUpTo ==
  ASSUME NEW k \in Nat
  PROVE  IsFiniteSet(1..k) /\ Cardinality(1..k) = k
BY FS_Interval

LEMMA Concat ==
  ASSUME NEW S, NEW s \in Seq(S), NEW t \in Seq(S)
  PROVE  /\ s \o t \in Seq(S) /\ Len(s \o t) = Len(s) + Len(t)
         /\ \A i \in 1..Len(s) : (s \o t)[i] = s[i]
         /\ \A i \in 1..Len(t) : (s \o t)[Len(s) + i] = t[i]
OBVIOUS

(* A ring is a sequence of different nodes each of which leads to the next.*)
LEMMA RingByNodes ==
  ASSUME NEW m, NEW S, NEW n, NEW s \in Seq(S),
         \A a, b \in 0..Len(s) : At(n, s, a) = At(n, s, b) => a = b,
         \A a \in 0..Len(s) : m.next[At(n, s, a)] = At(n, s, a + 1)
  PROVE  Ring(m, n, s)
<1>1. \A a \in 1..Len(s) : s[a] = At(n, s, a) /\ At(n, s, 0) = n /\ a \in 0..Len(s) /\ a # 0
  BY DEF At
<1>2. 0 \in 0..Len(s)
  OBVIOUS
<1> QED BY <1>1, <1>2 DEF Ring

(* What is used of a ring most often.                                      *)
Unrolled(m, S, n, s) ==
  /\ s \in Seq(S) /\ Len(s) \in Nat
  /\ \A a \in Int : At(n, s, a) \in S
  /\ At(n, s, 0) = n /\ At(n, s, Len(s) + 1) = n
  /\ \A a \in 1..Len(s) : At(n, s, a) = s[a]
  /\ \A a, b \in 0..Len(s) : At(n, s, a) = At(n, s, b) => a = b
  /\ \A a \in 0..Len(s) : m.next[At(n, s, a)] = At(n, s, a + 1)
  /\ \A a \in 0..Len(s) : At(n, s, a) \in Circle(n, s)

LEMMA NodesOfRing ==
  ASSUME NEW m, NEW S, NEW n \in S, NEW s, Whole(m, S, n, s)
  PROVE  Unrolled(m, S, n, s)
<1>1. s \in Seq(S) /\ Len(s) \in Nat /\ Ring(m, n, s)
  BY DEF Whole
<1>2. \A a \in 1..Len(s) : At(n, s, a) = s[a] /\ s[a] \in S /\ s[a] # n
  BY <1>1 DEF At, Ring
<1>3. At(n, s, 0) = n /\ At(n, s, Len(s) + 1) = n
  BY <1>1 DEF At
<1>4. \A a \in Int : At(n, s, a) \in S
  BY <1>1 DEF At
<1>5. \A a, b \in 0..Len(s) : At(n, s, a) = At(n, s, b) => a = b
  <2>1. \A a \in 0..Len(s) : a = 0 \/ a \in 1..Len(s)
    BY <1>1
  <2>2. \A a, b \in 1..Len(s) : s[a] = s[b] => a = b
    BY <1>1 DEF Ring
  <2> QED BY <1>2, <1>3, <2>1, <2>2
<1>6. \A a \in 0..Len(s) : m.next[At(n, s, a)] = At(n, s, a + 1)
  BY <1>1 DEF Ring
<1>7. \A a \in 0..Len(s) : At(n, s, a) \in Circle(n, s)
  BY <1>1 DEF Circle, At
<1> QED BY <1>1, <1>2, <1>3, <1>4, <1>5, <1>6, <1>7 DEF Unrolled

LEMMA OnCircle ==
  ASSUME NEW m, NEW S, NEW n \in S, NEW s, Whole(m, S, n, s)
  PROVE  n \in Circle(n, s)
<1>1. Unrolled(m, S, n, s)
  BY NodesOfRing
<1>2. 0 \in 0..Len(s)
  BY <1>1 DEF Unrolled
<1> QED BY <1>1, <1>2 DEF Unrolled

(* The nodes of a ring as a set.                                           *)
LEMMA CircleIs ==
  ASSUME NEW S, NEW n \in S, NEW s \in Seq(S)
  PROVE  Circle(n, s) = ToSet(s) \cup {n}
<1>1. ToSet(s) = {s[i] : i \in 1..Len(s)}
  BY DEF ToSet
<1>2. Circle(n, s) = {At(n, s, i) : i \in 0..Len(s)}
  BY DEF Circle
<1>3. At(n, s, 0) = n /\ \A i \in 1..Len(s) : At(n, s, i) = s[i]
  BY DEF At
<1>4. Len(s) \in Nat
  OBVIOUS
<1>5. 0..Len(s) = {0} \cup 1..Len(s)
  BY <1>4
<1> QED BY <1>1, <1>2, <1>3, <1>5

(* There are not more nodes in a circle than elements, and one root.       *)
LEMMA CirclesAreSmall ==
  ASSUME NEW m, NEW S \in SUBSET Nodes, NEW n \in S, NEW s, Whole(m, S, n, s)
  PROVE  Cardinality(Elements) \in Nat /\ Len(s) <= Cardinality(Elements)
<1> DEFINE f == [j \in 1..Len(s) |-> IF s[j] \in Lists THEN n ELSE s[j]]
<1>1. Cardinality(Elements) \in Nat
  BY FS_CardinalityType, FiniteAssumption
<1>2. IsFiniteSet(1..Len(s)) /\ Cardinality(1..Len(s)) = Len(s)
  <2>1. Len(s) \in Nat
    BY DEF Whole
  <2> HIDE DEF f
  <2> QED BY <2>1, CountUpTo
<1>3. \A i, j \in 0..Len(s) : At(n, s, i) \in Lists /\ At(n, s, j) \in Lists => i = j
  BY DEF Whole, OneRoot
<1>4. s \in Seq(S) /\ \A i \in 1..Len(s) : s[i] \in S /\ At(n, s, i) = s[i] /\ s[i] # n
  BY DEF At, Whole, Ring
<1>5. At(n, s, 0) = n
  BY DEF At
<1>6. \A i \in 1..Len(s) : s[i] \in Lists => n \notin Lists
  BY <1>3, <1>4, <1>5
<1>7. f \in [1..Len(s) -> Elements]
  BY <1>4, <1>6 DEF Nodes
<1>8. \A i, j \in 1..Len(s) : f[i] = f[j] => i = j
  BY <1>3, <1>4 DEF Whole, Ring
<1>9. ASSUME Cardinality(Elements) < Len(s) PROVE FALSE
  <2>1. \E i, j \in 1..Len(s) : i # j /\ f[i] = f[j]
    <3> HIDE DEF f
    <3> QED BY <1>2, <1>7, <1>9, FiniteAssumption, FS_PigeonHole
  <2> QED BY <1>8, <2>1
<1> QED BY <1>1, <1>4, <1>9

(* A node is in one ring.                                                  *)
LEMMA RingIsUnique ==
  ASSUME NEW m, NEW S, NEW n, NEW s \in Seq(S), NEW u \in Seq(S), Ring(m, n, s), Ring(m, n, u)
  PROVE  s = u
<1> SUFFICES ASSUME NEW a \in Seq(S), NEW b \in Seq(S), Ring(m, n, a), Ring(m, n, b),
                    Len(a) <= Len(b)
             PROVE  a = b
  <2>1. Len(s) <= Len(u) \/ Len(u) <= Len(s)
    OBVIOUS
  <2> QED BY <2>1
<1> DEFINE T == {i \in 0..Len(a) : At(n, a, i) = At(n, b, i)}
<1>1. Len(a) \in Nat /\ Len(b) \in Nat
  OBVIOUS
<1>2. 0 \in T
  BY <1>1 DEF At
<1>3. ASSUME NEW i \in 1..Len(a), i - 1 \in T PROVE i \in T
  <2>1. i - 1 \in 0..Len(a) /\ i - 1 \in 0..Len(b) /\ (i - 1) + 1 = i
    BY <1>1
  <2>2. m.next[At(n, a, i - 1)] = At(n, a, i)
    BY <2>1 DEF Ring
  <2>3. m.next[At(n, b, i - 1)] = At(n, b, i)
    BY <2>1 DEF Ring
  <2> QED BY <1>3, <2>2, <2>3
<1>4. 0..Len(a) \subseteq T
  <2> HIDE DEF T
  <2> QED BY <1>1, <1>2, <1>3, UpTo
<1>5. \A i \in 0..Len(a) : At(n, a, i) = At(n, b, i)
  BY <1>4
<1>6. Len(a) = Len(b)
  <2> SUFFICES ASSUME Len(a) < Len(b) PROVE FALSE
    BY <1>1
  <2>1. At(n, a, Len(a) + 1) = n /\ At(n, b, Len(a) + 1) # n
    BY <1>1 DEF At, Ring
  <2>2. Len(a) \in 0..Len(a) /\ Len(a) \in 0..Len(b)
    BY <1>1
  <2>3. m.next[At(n, a, Len(a))] = At(n, a, Len(a) + 1)
    BY <2>2 DEF Ring
  <2>4. m.next[At(n, b, Len(a))] = At(n, b, Len(a) + 1)
    BY <2>2 DEF Ring
  <2> QED BY <1>5, <2>1, <2>2, <2>3, <2>4
<1>7. \A i \in 1..Len(a) : a[i] = b[i]
  BY <1>1, <1>5, <1>6 DEF At
<1> QED BY <1>1, <1>6, <1>7

(* The same ring, seen from another of its nodes.                          *)
Turned(n, s, i) ==
  [j \in 1..Len(s) |-> IF i + j <= Len(s) THEN s[i + j] ELSE At(n, s, i + j - Len(s) - 1)]

LEMMA RingTurned ==
  ASSUME NEW m, NEW S, NEW n \in S, NEW s, Whole(m, S, n, s), NEW i \in 1..Len(s)
  PROVE  /\ Whole(m, S, s[i], Turned(n, s, i))
         /\ Circle(s[i], Turned(n, s, i)) = Circle(n, s)
<1> DEFINE u == Turned(n, s, i)
           k == Len(s)
<1>1. k \in Nat /\ s \in Seq(S) /\ i \in 1..k
  BY DEF Whole
<1>2. \A j \in Int : At(n, s, j) \in S
  BY <1>1 DEF At
<1>3. u \in [1..k -> S]
  BY <1>1, <1>2 DEF Turned
<1>4. u \in Seq(S) /\ Len(u) = k
  BY <1>1, <1>3
<1>5. \A j \in 1..k : u[j] = IF i + j <= k THEN s[i + j] ELSE At(n, s, i + j - k - 1)
  BY DEF Turned
<1> HIDE DEF u
<1>6. \A j \in 0 .. k + 1 :
        At(s[i], u, j) = IF i + j <= k THEN At(n, s, i + j) ELSE At(n, s, i + j - k - 1)
  BY <1>1, <1>4, <1>5 DEF At
<1>7. \A a, b \in 0..k : At(n, s, a) = At(n, s, b) => a = b
  BY <1>1 DEF Whole, Ring, At
<1>8. \A a, b \in 0..k : At(s[i], u, a) = At(s[i], u, b) => a = b
  <2> SUFFICES ASSUME NEW a \in 0..k, NEW b \in 0..k, At(s[i], u, a) = At(s[i], u, b)
               PROVE  a = b
    OBVIOUS
  <2> DEFINE P(j) == IF i + j <= k THEN i + j ELSE i + j - k - 1
  <2>1. \A j \in 0..k : P(j) \in 0..k /\ At(s[i], u, j) = At(n, s, P(j))
    BY <1>1, <1>6
  <2>2. P(a) = P(b)
    BY <1>7, <2>1
  <2> QED BY <1>1, <2>2
<1>9. \A j \in 0..k : m.next[At(s[i], u, j)] = At(s[i], u, j + 1)
  <2> SUFFICES ASSUME NEW j \in 0..k PROVE m.next[At(s[i], u, j)] = At(s[i], u, j + 1)
    OBVIOUS
  <2>1. \A a \in 0..k : m.next[At(n, s, a)] = At(n, s, a + 1)
    BY DEF Whole, Ring
  <2>2. CASE i + j < k
    <3>1. /\ i + j \in 0..k /\ j \in 0 .. k + 1 /\ j + 1 \in 0 .. k + 1
          /\ i + j <= k /\ i + (j + 1) <= k /\ i + (j + 1) = (i + j) + 1
      BY <1>1, <2>2
    <3>2. At(s[i], u, j) = At(n, s, i + j) /\ At(s[i], u, j + 1) = At(n, s, (i + j) + 1)
      BY <1>6, <3>1
    <3> QED BY <2>1, <3>1, <3>2
  <2>3. CASE i + j = k
    <3>1. At(s[i], u, j) = At(n, s, k) /\ At(s[i], u, j + 1) = At(n, s, 0)
      <4>1. /\ j \in 0 .. k + 1 /\ j + 1 \in 0 .. k + 1 /\ i + j <= k /\ ~(i + (j + 1) <= k)
            /\ i + (j + 1) - k - 1 = 0
        BY <1>1, <2>3
      <4> QED BY <1>6, <2>3, <4>1
    <3>2. At(n, s, 0) = n /\ At(n, s, k + 1) = n
      BY <1>1 DEF At
    <3> QED BY <1>1, <2>1, <3>1, <3>2
  <2>4. CASE i + j > k
    <3>1. /\ i + j - k - 1 \in 0..k /\ j \in 0 .. k + 1 /\ j + 1 \in 0 .. k + 1
          /\ ~(i + j <= k) /\ ~(i + (j + 1) <= k)
          /\ i + (j + 1) - k - 1 = (i + j - k - 1) + 1
      BY <1>1, <2>4
    <3>2. /\ At(s[i], u, j) = At(n, s, i + j - k - 1)
          /\ At(s[i], u, j + 1) = At(n, s, (i + j - k - 1) + 1)
      BY <1>6, <3>1
    <3> QED BY <2>1, <3>1, <3>2
  <2> QED BY <1>1, <2>2, <2>3, <2>4
<1>10. Ring(m, s[i], u)
  <2>1. \A a \in 1..k : u[a] = At(s[i], u, a) /\ At(s[i], u, 0) = s[i]
    BY <1>1, <1>4 DEF At
  <2>2. \A a, b \in 1..k : u[a] = u[b] => a = b
    BY <1>1, <1>8, <2>1
  <2>3. \A a \in 1..k : u[a] # s[i]
    BY <1>1, <1>8, <2>1
  <2> QED BY <1>4, <1>9, <2>2, <2>3 DEF Ring
<1>11. Circle(s[i], u) = Circle(n, s)
  <2>1. ASSUME NEW a \in 0..k PROVE \E b \in 0..k : At(s[i], u, a) = At(n, s, b)
    <3>1. CASE i + a <= k
      BY <1>1, <1>6, <3>1
    <3>2. CASE i + a > k
      <4>1. i + a - k - 1 \in 0..k
        BY <1>1, <3>2
      <4> QED BY <1>1, <1>6, <3>2, <4>1
    <3> QED BY <1>1, <3>1, <3>2
  <2>2. ASSUME NEW b \in 0..k PROVE \E a \in 0..k : At(s[i], u, a) = At(n, s, b)
    <3>1. CASE b >= i
      <4>1. b - i \in 0..k /\ b - i \in 0 .. k + 1 /\ i + (b - i) = b /\ b <= k
        BY <1>1, <3>1
      <4>2. At(s[i], u, b - i) = At(n, s, b)
        BY <1>6, <4>1
      <4> QED BY <4>1, <4>2
    <3>2. CASE b < i
      <4>1. b + k + 1 - i \in 0..k /\ i + (b + k + 1 - i) = b + k + 1
        BY <1>1, <3>2
      <4>2. At(s[i], u, b + k + 1 - i) = At(n, s, b)
        BY <1>1, <1>6, <4>1
      <4> QED BY <4>1, <4>2
    <3> QED BY <1>1, <3>1, <3>2
  <2>3. Circle(s[i], u) = {At(s[i], u, a) : a \in 0..k} /\ Circle(n, s) = {At(n, s, b) : b \in 0..k}
    BY <1>4 DEF Circle
  <2>4. \A y \in Circle(s[i], u) : y \in Circle(n, s)
    BY <2>1, <2>3
  <2>5. \A y \in Circle(n, s) : y \in Circle(s[i], u)
    BY <2>2, <2>3
  <2> QED BY <2>4, <2>5
<1>12. OneRoot(s[i], u)
  <2> SUFFICES ASSUME NEW a \in 0..k, NEW b \in 0..k,
                      At(s[i], u, a) \in Lists, At(s[i], u, b) \in Lists
               PROVE  a = b
    BY <1>4 DEF OneRoot
  <2> DEFINE P(j) == IF i + j <= k THEN i + j ELSE i + j - k - 1
  <2>1. \A j \in 0..k : P(j) \in 0..k /\ At(s[i], u, j) = At(n, s, P(j))
    BY <1>1, <1>6
  <2>2. P(a) = P(b)
    BY <2>1 DEF Whole, OneRoot
  <2> QED BY <1>1, <2>2
<1> QED BY <1>4, <1>10, <1>11, <1>12 DEF Whole, u

(* Each of its nodes sees the ring as a sequence of its own.               *)
LEMMA RingFromNode ==
  ASSUME NEW m, NEW S, NEW n \in S, NEW s, Whole(m, S, n, s), NEW y \in Circle(n, s)
  PROVE  y \in S /\ \E c : Whole(m, S, y, c) /\ Circle(y, c) = Circle(n, s)
<1>1. PICK i \in 0..Len(s) : y = At(n, s, i)
  BY DEF Circle
<1>2. s \in Seq(S)
  BY DEF Whole
<1>3. CASE i = 0
  BY <1>1, <1>3 DEF At
<1>4. CASE i \in 1..Len(s)
  <2>1. y = s[i] /\ y \in S
    BY <1>1, <1>2, <1>4 DEF At
  <2>2. Whole(m, S, s[i], Turned(n, s, i)) /\ Circle(s[i], Turned(n, s, i)) = Circle(n, s)
    BY <1>4, RingTurned
  <2> QED BY <2>1, <2>2
<1> QED BY <1>2, <1>3, <1>4

(* Rings without a common node.                                            *)
Apart(A, B) == A \cap B = {}

(* Two circles with a node in common are one.                              *)
LEMMA CirclesApart ==
  ASSUME NEW m, NEW S, NEW n \in S, NEW s, Whole(m, S, n, s),
         NEW o \in S, NEW t, Whole(m, S, o, t),
         NEW y, y \in Circle(n, s), y \in Circle(o, t)
  PROVE  Circle(n, s) = Circle(o, t)
<1>1. PICK c : Whole(m, S, y, c) /\ Circle(y, c) = Circle(n, s)
  BY RingFromNode
<1>2. PICK d : Whole(m, S, y, d) /\ Circle(y, d) = Circle(o, t)
  BY RingFromNode
<1>3. c = d
  BY <1>1, <1>2, RingIsUnique DEF Whole
<1> QED BY <1>1, <1>2, <1>3

(* A ring none of whose nodes got another successor.                       *)
LEMMA RingUntouched ==
  ASSUME NEW m, NEW w, NEW S, NEW n, NEW s, Whole(m, S, n, s),
         \A y \in Circle(n, s) : w.next[y] = m.next[y]
  PROVE  Whole(w, S, n, s)
BY DEF Whole, Ring, Circle

-----------------------------------------------------------------------------
(* A ring is put into another one before the k-th node.                    *)
Spliced(s, k, x, u) == SubSeq(s, 1, k - 1) \o <<x>> \o u \o SubSeq(s, k, Len(s))

(* Where the nodes of both rings are in the new one.                       *)
NodesOfSplice(S, n, s, k, x, u, r) ==
  /\ r \in Seq(S) /\ Len(r) = Len(s) + Len(u) + 1
  /\ \A a \in 0 .. k - 1 : At(n, r, a) = At(n, s, a)
  /\ \A a \in 0..Len(u) : At(n, r, k + a) = At(x, u, a)
  /\ \A a \in k .. Len(s) + 1 : At(n, r, Len(u) + 1 + a) = At(n, s, a)

LEMMA SplicedNodes ==
  ASSUME NEW S, NEW n \in S, NEW x \in S, NEW s \in Seq(S), NEW u \in Seq(S),
         NEW k \in 1 .. Len(s) + 1
  PROVE  NodesOfSplice(S, n, s, k, x, u, Spliced(s, k, x, u))
<1> DEFINE p == Len(s)
           q == Len(u)
           s1 == SubSeq(s, 1, k - 1)
           s2 == SubSeq(s, k, p)
           r1 == s1 \o <<x>>
           r2 == r1 \o u
           r == r2 \o s2
<1>1. p \in Nat /\ q \in Nat /\ k \in 1 .. p + 1
  OBVIOUS
<1>2. s1 \in Seq(S) /\ Len(s1) = k - 1 /\ \A i \in 1 .. k - 1 : s1[i] = s[i]
  BY <1>1
<1>3. s2 \in Seq(S) /\ Len(s2) = p - k + 1 /\ \A i \in 1 .. p - k + 1 : s2[i] = s[k + i - 1]
  BY <1>1
<1> HIDE DEF s1, s2
<1>4. r1 \in Seq(S) /\ Len(r1) = k /\ r1[k] = x /\ \A i \in 1 .. k - 1 : r1[i] = s[i]
  <2>1. <<x>> \in Seq(S) /\ Len(<<x>>) = 1 /\ <<x>>[1] = x /\ 1 \in 1..Len(<<x>>)
    OBVIOUS
  <2>2. /\ r1 \in Seq(S) /\ Len(r1) = Len(s1) + 1
        /\ \A i \in 1..Len(s1) : r1[i] = s1[i]
        /\ r1[Len(s1) + 1] = x
    BY <1>2, <2>1, Concat
  <2>3. Len(s1) + 1 = k
    BY <1>1, <1>2
  <2> HIDE DEF r1
  <2> QED BY <1>2, <2>2, <2>3
<1> HIDE DEF r1
<1>5. /\ r2 \in Seq(S) /\ Len(r2) = k + q
      /\ \A i \in 1..k : r2[i] = r1[i]
      /\ \A i \in 1..q : r2[k + i] = u[i]
  BY <1>1, <1>4
<1> HIDE DEF r2
<1>6. /\ r \in Seq(S) /\ Len(r) = p + q + 1
      /\ \A i \in 1 .. k + q : r[i] = r2[i]
      /\ \A i \in 1 .. p - k + 1 : r[k + q + i] = s2[i]
  <2>1. /\ r \in Seq(S) /\ Len(r) = Len(r2) + Len(s2)
        /\ \A i \in 1..Len(r2) : r[i] = r2[i]
        /\ \A i \in 1..Len(s2) : r[Len(r2) + i] = s2[i]
    <3>1. r2 \in Seq(S) /\ s2 \in Seq(S)
      BY <1>3, <1>5
    <3> QED BY <3>1, Concat
  <2> HIDE DEF r
  <2> QED BY <1>1, <1>3, <1>5, <2>1
<1> HIDE DEF r
<1>7. ASSUME NEW a \in 0 .. k - 1 PROVE At(n, r, a) = At(n, s, a)
  <2>1. CASE a = 0
    BY <1>6, <2>1 DEF At
  <2>2. CASE a \in 1 .. k - 1
    BY <1>1, <1>4, <1>5, <1>6, <2>2 DEF At
  <2> QED BY <1>1, <2>1, <2>2
<1>8. ASSUME NEW a \in 0..q PROVE At(n, r, k + a) = At(x, u, a)
  <2>1. CASE a = 0
    BY <1>1, <1>4, <1>5, <1>6, <2>1 DEF At
  <2>2. CASE a \in 1..q
    BY <1>1, <1>5, <1>6, <2>2 DEF At
  <2> QED BY <1>1, <2>1, <2>2
<1>9. ASSUME NEW a \in k .. p + 1 PROVE At(n, r, q + 1 + a) = At(n, s, a)
  <2>1. CASE a = p + 1
    BY <1>1, <1>6, <2>1 DEF At
  <2>2. CASE a \in k..p
    <3>1. a - k + 1 \in 1 .. p - k + 1 /\ k + q + (a - k + 1) = q + 1 + a /\ k + (a - k + 1) - 1 = a
      BY <1>1, <2>2
    <3>2. r[q + 1 + a] = s[a]
      BY <1>3, <1>6, <3>1
    <3> QED BY <1>1, <1>6, <2>2, <3>2 DEF At
  <2> QED BY <1>1, <2>1, <2>2
<1> QED BY <1>6, <1>7, <1>8, <1>9 DEF NodesOfSplice, Spliced, r, r2, r1, s1, s2

(* When the node before the k-th place of one ring and the last one of the *)
(* other swap successors, the rings become one.                            *)
LEMMA Splicing ==
  ASSUME NEW m, NEW w, NEW S, NEW n \in S, NEW s, Whole(m, S, n, s),
         NEW x \in S, NEW u, Whole(m, S, x, u),
         Apart(Circle(n, s), Circle(x, u)), Apart(Circle(x, u), Lists),
         NEW k \in 1 .. Len(s) + 1,
         Swapped(m, w, S, At(n, s, k - 1), At(x, u, Len(u)))
  PROVE  /\ Whole(w, S, n, Spliced(s, k, x, u))
         /\ Circle(n, Spliced(s, k, x, u)) = Circle(n, s) \cup Circle(x, u)
<1> DEFINE r == Spliced(s, k, x, u)
           p == Len(s)
           q == Len(u)
<1>1. /\ s \in Seq(S) /\ p \in Nat
      /\ \A a \in Int : At(n, s, a) \in S
      /\ At(n, s, 0) = n /\ At(n, s, p + 1) = n
      /\ \A a, b \in 0..p : At(n, s, a) = At(n, s, b) => a = b
      /\ \A a \in 0..p : m.next[At(n, s, a)] = At(n, s, a + 1)
      /\ \A a \in 0..p : At(n, s, a) \in Circle(n, s)
  <2>1. Unrolled(m, S, n, s)
    BY NodesOfRing
  <2> QED BY <2>1 DEF Unrolled
<1>2. /\ u \in Seq(S) /\ q \in Nat
      /\ \A a \in Int : At(x, u, a) \in S
      /\ At(x, u, 0) = x /\ At(x, u, q + 1) = x
      /\ \A a, b \in 0..q : At(x, u, a) = At(x, u, b) => a = b
      /\ \A a \in 0..q : m.next[At(x, u, a)] = At(x, u, a + 1)
      /\ \A a \in 0..q : At(x, u, a) \in Circle(x, u)
  <2>1. Unrolled(m, S, x, u)
    BY NodesOfRing
  <2> QED BY <2>1 DEF Unrolled
<1>3. /\ r \in Seq(S) /\ Len(r) = p + q + 1
      /\ \A a \in 0 .. k - 1 : At(n, r, a) = At(n, s, a)
      /\ \A a \in 0..q : At(n, r, k + a) = At(x, u, a)
      /\ \A a \in k .. p + 1 : At(n, r, q + 1 + a) = At(n, s, a)
  <2>1. s \in Seq(S) /\ u \in Seq(S)
    BY <1>1, <1>2
  <2>2. NodesOfSplice(S, n, s, k, x, u, Spliced(s, k, x, u))
    BY <2>1, SplicedNodes
  <2> QED BY <2>2 DEF NodesOfSplice
<1> HIDE DEF r
<1>4. k \in 1 .. p + 1 /\ Circle(n, s) \cap Circle(x, u) = {} /\ Circle(x, u) \cap Lists = {}
  BY DEF Apart
<1>5. \A y \in S : w.next[y] = IF y = At(n, s, k - 1) THEN x
                               ELSE IF y = At(x, u, q) THEN At(n, s, k) ELSE m.next[y]
  <2>1. k - 1 \in 0..p /\ q \in 0..q /\ (k - 1) + 1 = k
    BY <1>1, <1>2, <1>4
  <2>2. m.next[At(n, s, k - 1)] = At(n, s, k) /\ m.next[At(x, u, q)] = x
    BY <1>1, <1>2, <2>1
  <2> QED BY <2>2 DEF Swapped
<1> HIDE DEF p, q
(* Every place in the new ring comes from one in the old ones.             *)
<1>6. ASSUME NEW a \in 0 .. p + q + 1
      PROVE  \/ a \in 0 .. k - 1
             \/ \E b \in 0..q : a = k + b
             \/ \E b \in k..p : a = q + 1 + b
  <2>1. CASE a < k
    BY <1>1, <1>2, <1>4, <2>1
  <2>2. CASE a >= k /\ a <= k + q
    <3>1. a - k \in 0..q /\ a = k + (a - k)
      BY <1>1, <1>2, <1>4, <2>2
    <3> QED BY <3>1
  <2>3. CASE a > k + q
    <3>1. a - q - 1 \in k..p /\ a = q + 1 + (a - q - 1)
      BY <1>1, <1>2, <1>4, <2>3
    <3> QED BY <3>1
  <2> QED BY <1>1, <1>2, <1>4, <2>1, <2>2, <2>3
<1>7. \A a, b \in 0 .. p + q + 1 : At(n, r, a) = At(n, r, b) => a = b
  <2> SUFFICES ASSUME NEW a \in 0 .. p + q + 1, NEW b \in 0 .. p + q + 1, At(n, r, a) = At(n, r, b)
               PROVE  a = b
    OBVIOUS
  <2>0. \A i \in 0..p, j \in 0..q : At(n, s, i) # At(x, u, j)
    BY <1>1, <1>2, <1>4
  <2>1. CASE a \in 0 .. k - 1
    <3>1. CASE b \in 0 .. k - 1
      BY <1>1, <1>3, <1>4, <2>1, <3>1
    <3>2. ASSUME NEW c \in 0..q, b = k + c PROVE FALSE
      BY <1>1, <1>3, <1>4, <2>0, <2>1, <3>2
    <3>3. ASSUME NEW c \in k..p, b = q + 1 + c PROVE FALSE
      BY <1>1, <1>3, <1>4, <2>1, <3>3
    <3> QED BY <1>6, <3>1, <3>2, <3>3
  <2>2. ASSUME NEW d \in 0..q, a = k + d PROVE a = b
    <3>1. CASE b \in 0 .. k - 1
      BY <1>1, <1>3, <1>4, <2>0, <2>2, <3>1
    <3>2. ASSUME NEW c \in 0..q, b = k + c PROVE a = b
      <4>1. At(x, u, d) = At(x, u, c)
        BY <1>3, <2>2, <3>2
      <4> QED BY <1>2, <2>2, <3>2, <4>1
    <3>3. ASSUME NEW c \in k..p, b = q + 1 + c PROVE FALSE
      BY <1>1, <1>3, <1>4, <2>0, <2>2, <3>3
    <3> QED BY <1>6, <3>1, <3>2, <3>3
  <2>3. ASSUME NEW d \in k..p, a = q + 1 + d PROVE a = b
    <3>1. CASE b \in 0 .. k - 1
      BY <1>1, <1>3, <1>4, <2>3, <3>1
    <3>2. ASSUME NEW c \in 0..q, b = k + c PROVE FALSE
      <4>1. At(n, r, a) = At(n, s, d) /\ At(n, r, b) = At(x, u, c) /\ d \in 0..p
        BY <1>1, <1>3, <1>4, <2>3, <3>2
      <4> QED BY <2>0, <4>1
    <3>3. ASSUME NEW c \in k..p, b = q + 1 + c PROVE a = b
      BY <1>1, <1>3, <1>4, <2>3, <3>3
    <3> QED BY <1>6, <3>1, <3>2, <3>3
  <2> QED BY <1>6, <2>1, <2>2, <2>3
<1>8. \A a \in 0 .. p + q + 1 : w.next[At(n, r, a)] = At(n, r, a + 1)
  <2> SUFFICES ASSUME NEW a \in 0 .. p + q + 1 PROVE w.next[At(n, r, a)] = At(n, r, a + 1)
    OBVIOUS
  <2>0. /\ \A i \in 0..p, j \in 0..q : At(n, s, i) # At(x, u, j)
        /\ k - 1 \in 0..p /\ q \in 0..q
    BY <1>1, <1>2, <1>4
  <2>1. CASE a \in 0 .. k - 1
    <3>1. CASE a = k - 1
      <4>1. At(n, r, a) = At(n, s, k - 1) /\ w.next[At(n, s, k - 1)] = x
        BY <1>5, <1>1, <1>3, <1>4, <3>1
      <4>2. At(n, r, k + 0) = x /\ k + 0 = a + 1
        BY <1>2, <1>3, <1>4, <3>1
      <4> QED BY <4>1, <4>2
    <3>2. CASE a < k - 1
      <4>1. a \in 0..p /\ a # k - 1 /\ a + 1 \in 0 .. k - 1
        BY <1>1, <1>4, <2>1, <3>2
      <4>2. At(n, s, a) # At(n, s, k - 1) /\ At(n, s, a) # At(x, u, q) /\ At(n, s, a) \in S
        BY <1>1, <2>0, <4>1
      <4>3. w.next[At(n, s, a)] = At(n, s, a + 1)
        BY <1>1, <4>1, <4>2, <1>5
      <4> QED BY <1>3, <2>1, <4>1, <4>3
    <3> QED BY <1>4, <2>1, <3>1, <3>2
  <2>2. ASSUME NEW d \in 0..q, a = k + d PROVE w.next[At(n, r, a)] = At(n, r, a + 1)
    <3>1. At(n, r, a) = At(x, u, d) /\ At(x, u, d) \in S /\ At(x, u, d) # At(n, s, k - 1)
      BY <1>2, <1>3, <2>0, <2>2
    <3>2. CASE d = q
      <4>1. w.next[At(x, u, d)] = At(n, s, k)
        BY <3>1, <3>2, <1>5
      <4>2. k \in k .. p + 1 /\ a + 1 = q + 1 + k
        <5>1. p \in Nat /\ q \in Nat /\ k \in 1 .. p + 1
          BY <1>1, <1>2, <1>4
        <5> QED BY <5>1, <2>2, <3>2
      <4>3. At(n, r, a + 1) = At(n, s, k)
        BY <1>3, <4>2
      <4> QED BY <3>1, <4>1, <4>3
    <3>3. CASE d < q
      <4>1. d + 1 \in 0..q /\ d # q /\ a + 1 = k + (d + 1)
        BY <1>2, <1>4, <2>2, <3>3
      <4>2. w.next[At(x, u, d)] = At(x, u, d + 1)
        BY <1>2, <2>0, <3>1, <4>1, <1>5
      <4> QED BY <1>3, <3>1, <4>1, <4>2
    <3> QED BY <1>2, <2>2, <3>2, <3>3
  <2>3. ASSUME NEW d \in k..p, a = q + 1 + d PROVE w.next[At(n, r, a)] = At(n, r, a + 1)
    <3>1. /\ d \in 0..p /\ d \in k .. p + 1 /\ d + 1 \in k .. p + 1 /\ d # k - 1
          /\ a + 1 = q + 1 + (d + 1)
      BY <1>1, <1>2, <1>4, <2>3
    <3>2. At(n, r, a) = At(n, s, d) /\ At(n, r, a + 1) = At(n, s, d + 1)
      BY <1>3, <2>3, <3>1
    <3>3. At(n, s, d) # At(n, s, k - 1) /\ At(n, s, d) # At(x, u, q) /\ At(n, s, d) \in S
      BY <1>1, <2>0, <3>1
    <3>4. w.next[At(n, s, d)] = At(n, s, d + 1)
      BY <1>1, <3>1, <3>3, <1>5
    <3> QED BY <3>2, <3>4
  <2> QED BY <1>6, <2>1, <2>2, <2>3
<1>9. Ring(w, n, r)
  BY <1>3, <1>7, <1>8, RingByNodes
<1>10. Circle(n, r) = Circle(n, s) \cup Circle(x, u)
  <2>1. /\ Circle(n, r) = {At(n, r, a) : a \in 0 .. p + q + 1}
        /\ Circle(n, s) = {At(n, s, a) : a \in 0..p}
        /\ Circle(x, u) = {At(x, u, a) : a \in 0..q}
    BY <1>3 DEF Circle, p, q
  <2>2. ASSUME NEW y \in Circle(n, r) PROVE y \in Circle(n, s) \cup Circle(x, u)
    <3>1. PICK a \in 0 .. p + q + 1 : y = At(n, r, a)
      BY <2>1
    <3>2. CASE a \in 0 .. k - 1
      BY <1>1, <1>3, <1>4, <3>1, <3>2
    <3>3. ASSUME NEW d \in 0..q, a = k + d PROVE y \in Circle(x, u)
      BY <1>2, <1>3, <3>1, <3>3
    <3>4. ASSUME NEW d \in k..p, a = q + 1 + d PROVE y \in Circle(n, s)
      BY <1>1, <1>3, <1>4, <3>1, <3>4
    <3> QED BY <1>6, <3>2, <3>3, <3>4
  <2>3. ASSUME NEW y \in Circle(n, s) PROVE y \in Circle(n, r)
    <3>1. PICK a \in 0..p : y = At(n, s, a)
      BY <2>1
    <3>2. CASE a < k
      <4>1. a \in 0 .. k - 1 /\ a \in 0 .. p + q + 1
        BY <1>1, <1>2, <1>4, <3>2
      <4> QED BY <1>3, <2>1, <3>1, <4>1
    <3>3. CASE a >= k
      <4>1. a \in k .. p + 1 /\ q + 1 + a \in 0 .. p + q + 1
        BY <1>1, <1>2, <1>4, <3>3
      <4> QED BY <1>3, <2>1, <3>1, <4>1
    <3> QED BY <1>1, <1>4, <3>2, <3>3
  <2>4. ASSUME NEW y \in Circle(x, u) PROVE y \in Circle(n, r)
    <3>1. PICK a \in 0..q : y = At(x, u, a)
      BY <2>1
    <3>2. k + a \in 0 .. p + q + 1
      BY <1>1, <1>2, <1>4
    <3> QED BY <1>3, <2>1, <3>1, <3>2
  <2> QED BY <2>2, <2>3, <2>4
<1>11. OneRoot(n, r)
  <2> SUFFICES ASSUME NEW a \in 0 .. p + q + 1, NEW b \in 0 .. p + q + 1,
                      At(n, r, a) \in Lists, At(n, r, b) \in Lists
               PROVE  a = b
    BY <1>3 DEF OneRoot
  <2>0. \A i, j \in 0..p : At(n, s, i) \in Lists /\ At(n, s, j) \in Lists => i = j
    BY DEF Whole, OneRoot, p
  <2>1. \A c \in 0..q : At(x, u, c) \notin Lists
    BY <1>2, <1>4
  <2>2. ASSUME NEW c \in 0 .. p + q + 1, At(n, r, c) \in Lists
        PROVE  \E d \in 0..p : At(n, r, c) = At(n, s, d)
    <3>1. CASE c \in 0 .. k - 1
      BY <1>1, <1>3, <1>4, <3>1
    <3>2. ASSUME NEW d \in 0..q, c = k + d PROVE FALSE
      BY <1>3, <2>1, <2>2, <3>2
    <3>3. ASSUME NEW d \in k..p, c = q + 1 + d PROVE d \in 0..p /\ At(n, r, c) = At(n, s, d)
      BY <1>1, <1>3, <1>4, <3>3
    <3> QED BY <1>6, <3>1, <3>2, <3>3
  <2>3. At(n, r, a) = At(n, r, b)
    BY <2>0, <2>2
  <2> QED BY <1>7, <2>3
<1> QED BY <1>3, <1>9, <1>10, <1>11 DEF Whole, r

(* The elements from the i-th to before the j-th node leave a ring and are *)
(* one of their own.                                                       *)
Cut(s, i, j) == SubSeq(s, 1, i - 1) \o SubSeq(s, j, Len(s))

Part(s, i, j) == SubSeq(s, i + 1, j - 1)

(* Where the nodes of the ring are in the two new ones.                    *)
NodesOfCut(S, n, s, i, j, r) ==
  /\ r \in Seq(S) /\ Len(r) = Len(s) - (j - i)
  /\ \A a \in 0 .. i - 1 : At(n, r, a) = At(n, s, a)
  /\ \A a \in j .. Len(s) + 1 : At(n, r, a - (j - i)) = At(n, s, a)

NodesOfPart(S, n, s, i, j, t) ==
  /\ t \in Seq(S) /\ Len(t) = j - 1 - i
  /\ \A a \in 0 .. j - 1 - i : At(s[i], t, a) = At(n, s, i + a)

LEMMA CutNodes ==
  ASSUME NEW S, NEW n \in S, NEW s \in Seq(S),
         NEW i \in 1..Len(s), NEW j \in i + 1 .. Len(s) + 1
  PROVE  NodesOfCut(S, n, s, i, j, Cut(s, i, j))
<1> DEFINE p == Len(s)
           s1 == SubSeq(s, 1, i - 1)
           s2 == SubSeq(s, j, p)
           r == s1 \o s2
<1>1. p \in Nat /\ i \in 1..p /\ j \in i + 1 .. p + 1
  OBVIOUS
<1>2. s1 \in Seq(S) /\ Len(s1) = i - 1 /\ \A a \in 1 .. i - 1 : s1[a] = s[a]
  BY <1>1
<1>3. s2 \in Seq(S) /\ Len(s2) = p - j + 1 /\ \A a \in 1 .. p - j + 1 : s2[a] = s[j + a - 1]
  BY <1>1
<1> HIDE DEF s1, s2
<1>4. /\ r \in Seq(S) /\ Len(r) = Len(s1) + Len(s2)
      /\ \A a \in 1..Len(s1) : r[a] = s1[a]
      /\ \A a \in 1..Len(s2) : r[Len(s1) + a] = s2[a]
  <2>1. s1 \in Seq(S) /\ s2 \in Seq(S)
    BY <1>2, <1>3
  <2> QED BY <2>1, Concat
<1> HIDE DEF r
<1>5. /\ r \in Seq(S) /\ Len(r) = p - (j - i)
      /\ \A a \in 1 .. i - 1 : r[a] = s[a]
      /\ \A a \in 1 .. p - j + 1 : r[i - 1 + a] = s[j + a - 1]
  <2>1. Len(s1) = i - 1 /\ Len(s2) = p - j + 1 /\ i - 1 + (p - j + 1) = p - (j - i)
    BY <1>1, <1>2, <1>3
  <2>2. \A a \in 1 .. i - 1 : r[a] = s[a]
    BY <1>2, <1>4, <2>1
  <2>3. \A a \in 1 .. p - j + 1 : r[i - 1 + a] = s[j + a - 1]
    BY <1>3, <1>4, <2>1
  <2> QED BY <1>4, <2>1, <2>2, <2>3
<1>6. ASSUME NEW a \in 0 .. i - 1 PROVE At(n, r, a) = At(n, s, a)
  BY <1>1, <1>5 DEF At
<1>7. ASSUME NEW a \in j .. p + 1 PROVE At(n, r, a - (j - i)) = At(n, s, a)
  <2>1. CASE a = p + 1
    BY <1>1, <1>5, <2>1 DEF At
  <2>2. CASE a \in j..p
    <3>1. /\ a - j + 1 \in 1 .. p - j + 1 /\ i - 1 + (a - j + 1) = a - (j - i)
          /\ j + (a - j + 1) - 1 = a
      BY <1>1, <2>2
    <3>2. r[a - (j - i)] = s[a]
      BY <1>5, <3>1
    <3> QED BY <1>1, <1>5, <2>2, <3>2 DEF At
  <2> QED BY <1>1, <2>1, <2>2
<1> QED BY <1>5, <1>6, <1>7 DEF NodesOfCut, Cut, r, s1, s2

LEMMA PartNodes ==
  ASSUME NEW S, NEW n \in S, NEW s \in Seq(S),
         NEW i \in 1..Len(s), NEW j \in i + 1 .. Len(s) + 1
  PROVE  NodesOfPart(S, n, s, i, j, Part(s, i, j))
<1> DEFINE t == Part(s, i, j)
<1>1. Len(s) \in Nat /\ i \in 1..Len(s) /\ j \in i + 1 .. Len(s) + 1
  OBVIOUS
<1>2. /\ t \in Seq(S) /\ Len(t) = j - 1 - i
      /\ \A a \in 1 .. j - 1 - i : t[a] = s[i + a]
  BY <1>1 DEF Part
<1> HIDE DEF t
<1>3. ASSUME NEW a \in 0 .. j - 1 - i PROVE At(s[i], t, a) = At(n, s, i + a)
  BY <1>1, <1>2 DEF At
<1> QED BY <1>2, <1>3 DEF NodesOfPart, t

(* When the nodes before the i-th and the j-th place of a ring swap        *)
(* successors, it becomes two.                                             *)
LEMMA Splitting ==
  ASSUME NEW m, NEW w, NEW S, NEW n \in S, NEW s, Whole(m, S, n, s),
         NEW i \in 1..Len(s), NEW j \in i + 1 .. Len(s) + 1,
         Swapped(m, w, S, At(n, s, i - 1), At(n, s, j - 1))
  PROVE  /\ Whole(w, S, n, Cut(s, i, j)) /\ Whole(w, S, s[i], Part(s, i, j))
         /\ Circle(n, s) = Circle(n, Cut(s, i, j)) \cup Circle(s[i], Part(s, i, j))
<1> DEFINE r == Cut(s, i, j)
           t == Part(s, i, j)
           p == Len(s)
<1>1. /\ s \in Seq(S) /\ p \in Nat
      /\ \A a \in Int : At(n, s, a) \in S
      /\ At(n, s, 0) = n /\ At(n, s, p + 1) = n
      /\ \A a \in 1..p : At(n, s, a) = s[a]
      /\ \A a, b \in 0..p : At(n, s, a) = At(n, s, b) => a = b
      /\ \A a \in 0..p : m.next[At(n, s, a)] = At(n, s, a + 1)
      /\ \A a \in 0..p : At(n, s, a) \in Circle(n, s)
  <2>1. Unrolled(m, S, n, s)
    BY NodesOfRing
  <2> QED BY <2>1 DEF Unrolled
<1>2. p \in Nat /\ i \in 1..p /\ j \in i + 1 .. p + 1
  BY <1>1
<1>3. /\ r \in Seq(S) /\ Len(r) = p - (j - i)
      /\ \A a \in 0 .. i - 1 : At(n, r, a) = At(n, s, a)
      /\ \A a \in j .. p + 1 : At(n, r, a - (j - i)) = At(n, s, a)
  <2>1. NodesOfCut(S, n, s, i, j, Cut(s, i, j))
    BY <1>1, CutNodes
  <2> QED BY <2>1 DEF NodesOfCut
<1>4. /\ t \in Seq(S) /\ Len(t) = j - 1 - i
      /\ \A a \in 0 .. j - 1 - i : At(s[i], t, a) = At(n, s, i + a)
  <2>1. NodesOfPart(S, n, s, i, j, Part(s, i, j))
    BY <1>1, PartNodes
  <2> QED BY <2>1 DEF NodesOfPart
<1>5. \A y \in S : w.next[y] = IF y = At(n, s, i - 1) THEN At(n, s, j)
                               ELSE IF y = At(n, s, j - 1) THEN s[i] ELSE m.next[y]
  <2>1. /\ i - 1 \in 0..p /\ j - 1 \in 0..p /\ (i - 1) + 1 = i /\ (j - 1) + 1 = j
        /\ At(n, s, i) = s[i]
    BY <1>1, <1>2
  <2>2. m.next[At(n, s, i - 1)] = s[i] /\ m.next[At(n, s, j - 1)] = At(n, s, j)
    BY <1>1, <2>1
  <2> QED BY <2>2 DEF Swapped
<1> HIDE DEF r, t, p
<1>6. /\ w.next[At(n, s, i - 1)] = At(n, s, j)
      /\ w.next[At(n, s, j - 1)] = s[i]
      /\ \A a \in 0..p : a # i - 1 /\ a # j - 1 => w.next[At(n, s, a)] = At(n, s, a + 1)
  <2>1. i - 1 \in 0..p /\ j - 1 \in 0..p /\ i - 1 # j - 1
    BY <1>2
  <2>2. At(n, s, i - 1) # At(n, s, j - 1)
    BY <1>1, <2>1
  <2>3. \A a \in 0..p : At(n, s, a) \in S
    BY <1>1
  <2>4. w.next[At(n, s, i - 1)] = At(n, s, j) /\ w.next[At(n, s, j - 1)] = s[i]
    BY <1>5, <2>1, <2>2, <2>3
  <2>5. ASSUME NEW a \in 0..p, a # i - 1, a # j - 1
        PROVE  w.next[At(n, s, a)] = At(n, s, a + 1)
    <3>1. At(n, s, a) # At(n, s, i - 1) /\ At(n, s, a) # At(n, s, j - 1)
      BY <1>1, <2>1, <2>5
    <3>2. w.next[At(n, s, a)] = m.next[At(n, s, a)]
      BY <1>5, <2>3, <3>1
    <3> QED BY <1>1, <3>2
  <2> QED BY <2>4, <2>5
(* The places of what stays.                                               *)
<1> DEFINE c == p - (j - i)
<1>7. ASSUME NEW a \in 0..c
      PROVE  \/ a \in 0 .. i - 1
             \/ \E b \in j..p : a = b - (j - i)
  <2>1. CASE a >= i
    <3>1. a + (j - i) \in j..p /\ a = (a + (j - i)) - (j - i)
      BY <1>1, <1>2, <2>1
    <3> QED BY <3>1
  <2> QED BY <1>1, <1>2, <2>1
<1>8. Ring(w, n, r)
  <2>1. ASSUME NEW a \in 0..c, NEW b \in 0..c, At(n, r, a) = At(n, r, b) PROVE a = b
    <3>1. CASE a \in 0 .. i - 1
      <4>1. CASE b \in 0 .. i - 1
        BY <1>1, <1>2, <1>3, <2>1, <3>1, <4>1
      <4>2. ASSUME NEW d \in j..p, b = d - (j - i) PROVE FALSE
        <5>1. a \in 0..p /\ d \in 0..p /\ d \in j .. p + 1 /\ a # d
          BY <1>2, <3>1, <4>2
        <5>2. At(n, s, a) = At(n, s, d)
          BY <1>3, <2>1, <3>1, <4>2, <5>1
        <5> QED BY <1>1, <5>1, <5>2
      <4> QED BY <1>7, <4>1, <4>2
    <3>2. ASSUME NEW e \in j..p, a = e - (j - i) PROVE a = b
      <4>1. CASE b \in 0 .. i - 1
        <5>1. b \in 0..p /\ e \in 0..p /\ e \in j .. p + 1 /\ b # e
          BY <1>2, <3>2, <4>1
        <5>2. At(n, s, b) = At(n, s, e)
          BY <1>3, <2>1, <3>2, <4>1, <5>1
        <5> QED BY <1>1, <5>1, <5>2
      <4>2. ASSUME NEW d \in j..p, b = d - (j - i) PROVE a = b
        <5>1. e \in 0..p /\ d \in 0..p /\ e \in j .. p + 1 /\ d \in j .. p + 1
          BY <1>2
        <5>2. At(n, s, e) = At(n, s, d)
          BY <1>3, <2>1, <3>2, <4>2, <5>1
        <5>3. e = d
          BY <1>1, <5>1, <5>2
        <5> QED BY <3>2, <4>2, <5>3
      <4> QED BY <1>7, <4>1, <4>2
    <3> QED BY <1>7, <3>1, <3>2
  <2>2. ASSUME NEW a \in 0..c PROVE w.next[At(n, r, a)] = At(n, r, a + 1)
    <3>1. CASE a \in 0 .. i - 1
      <4>1. CASE a = i - 1
        <5>1. At(n, r, a) = At(n, s, i - 1) /\ j \in j .. p + 1 /\ a + 1 = j - (j - i)
          BY <1>1, <1>2, <1>3, <3>1, <4>1
        <5>2. At(n, r, a + 1) = At(n, s, j)
          BY <1>3, <5>1
        <5> QED BY <1>6, <5>1, <5>2
      <4>2. CASE a # i - 1
        <5>1. a \in 0..p /\ a # j - 1 /\ a + 1 \in 0 .. i - 1
          BY <1>2, <3>1, <4>2
        <5> QED BY <1>3, <1>6, <3>1, <4>2, <5>1
      <4> QED BY <4>1, <4>2
    <3>2. ASSUME NEW e \in j..p, a = e - (j - i) PROVE w.next[At(n, r, a)] = At(n, r, a + 1)
      <4>1. /\ e \in 0..p /\ e # j - 1 /\ e # i - 1 /\ e \in j .. p + 1 /\ e + 1 \in j .. p + 1
            /\ a + 1 = (e + 1) - (j - i)
        BY <1>2, <3>2
      <4>2. At(n, r, a) = At(n, s, e) /\ At(n, r, a + 1) = At(n, s, e + 1)
        BY <1>3, <3>2, <4>1
      <4> QED BY <1>6, <4>1, <4>2
    <3> QED BY <1>7, <3>1, <3>2
  <2> HIDE DEF c
  <2> QED BY <1>3, <2>1, <2>2, RingByNodes DEF c
(* The places of what leaves.                                              *)
<1> DEFINE d == j - 1 - i
<1>9. ASSUME NEW a \in 0..d
      PROVE  /\ i + a \in 0..p /\ i + a # i - 1 /\ (i + a = j - 1 <=> a = d)
             /\ At(s[i], t, a) = At(n, s, i + a)
  <2>1. i + a \in 0..p /\ i + a # i - 1 /\ (i + a = j - 1 <=> a = d)
    BY <1>2
  <2> QED BY <1>4, <2>1
<1>10. Ring(w, s[i], t)
  <2>1. ASSUME NEW a \in 0..d, NEW b \in 0..d, At(s[i], t, a) = At(s[i], t, b) PROVE a = b
    <3>1. At(n, s, i + a) = At(n, s, i + b) /\ i + a \in 0..p /\ i + b \in 0..p
      BY <1>9, <2>1
    <3>2. i + a = i + b
      BY <1>1, <3>1
    <3> QED BY <1>2, <3>2
  <2>2. ASSUME NEW a \in 0..d PROVE w.next[At(s[i], t, a)] = At(s[i], t, a + 1)
    <3>1. At(s[i], t, a) = At(n, s, i + a) /\ i + a \in 0..p /\ i + a # i - 1
      BY <1>9
    <3>2. CASE a = d
      <4>1. i + a = j - 1 /\ At(s[i], t, a + 1) = s[i]
        BY <1>1, <1>2, <1>4, <3>2 DEF At
      <4> QED BY <1>6, <3>1, <4>1
    <3>3. CASE a # d
      <4>1. i + a # j - 1 /\ a + 1 \in 0..d /\ i + (a + 1) = (i + a) + 1
        BY <1>2, <1>9, <3>3
      <4> QED BY <1>4, <1>6, <3>1, <4>1
    <3> QED BY <3>2, <3>3
  <2>3. s[i] \in S
    BY <1>1, <1>2
  <2> HIDE DEF d
  <2> QED BY <1>4, <2>1, <2>2, <2>3, RingByNodes DEF d
<1>11. Circle(n, s) = Circle(n, r) \cup Circle(s[i], t)
  <2>1. /\ Circle(n, r) = {At(n, r, a) : a \in 0..c}
        /\ Circle(n, s) = {At(n, s, a) : a \in 0..p}
        /\ Circle(s[i], t) = {At(s[i], t, a) : a \in 0..d}
    BY <1>3, <1>4 DEF Circle, p
  <2>2. ASSUME NEW y \in Circle(n, r) PROVE y \in Circle(n, s)
    <3>1. PICK a \in 0..c : y = At(n, r, a)
      BY <2>1
    <3>2. CASE a \in 0 .. i - 1
      BY <1>1, <1>2, <1>3, <3>1, <3>2
    <3>3. ASSUME NEW b \in j..p, a = b - (j - i) PROVE y \in Circle(n, s)
      <4>1. b \in 0..p /\ b \in j .. p + 1
        BY <1>2, <3>3
      <4>2. y = At(n, s, b)
        BY <1>3, <3>1, <3>3, <4>1
      <4> QED BY <1>1, <4>1, <4>2
    <3> QED BY <1>7, <3>2, <3>3
  <2>3. ASSUME NEW y \in Circle(s[i], t) PROVE y \in Circle(n, s)
    <3>1. PICK a \in 0..d : y = At(s[i], t, a)
      BY <2>1
    <3>2. i + a \in 0..p /\ y = At(n, s, i + a)
      BY <1>9, <3>1
    <3> QED BY <1>1, <3>2
  <2>4. ASSUME NEW y \in Circle(n, s) PROVE y \in Circle(n, r) \cup Circle(s[i], t)
    <3>1. PICK a \in 0..p : y = At(n, s, a)
      BY <2>1
    <3>2. CASE a < i
      <4>1. a \in 0 .. i - 1 /\ a \in 0..c
        BY <1>2, <3>2
      <4> QED BY <1>3, <2>1, <3>1, <4>1
    <3>3. CASE a \in i .. j - 1
      <4>1. a - i \in 0..d /\ i + (a - i) = a
        BY <1>2, <3>3
      <4> QED BY <1>4, <2>1, <3>1, <4>1
    <3>4. CASE a >= j
      <4>1. a \in j .. p + 1
        BY <1>2, <3>4
      <4>2. a - (j - i) \in 0..c
        BY <1>2, <3>4
      <4> QED BY <1>3, <2>1, <3>1, <4>1, <4>2
    <3> QED BY <1>1, <1>2, <3>2, <3>3, <3>4
  <2> QED BY <2>2, <2>3, <2>4
<1>12. \A a, b \in 0..p : At(n, s, a) \in Lists /\ At(n, s, b) \in Lists => a = b
  BY DEF Whole, OneRoot, p
<1>13. OneRoot(n, r)
  <2>1. ASSUME NEW a \in 0..c
        PROVE  \E b \in 0..p : At(n, r, a) = At(n, s, b) /\ b = IF a < i THEN a ELSE a + (j - i)
    <3>1. CASE a \in 0 .. i - 1
      <4>1. a \in 0..p /\ a < i
        BY <1>2, <3>1
      <4> QED BY <1>3, <3>1, <4>1
    <3>2. ASSUME NEW b \in j..p, a = b - (j - i)
          PROVE  b \in 0..p /\ At(n, r, a) = At(n, s, b) /\ b = IF a < i THEN a ELSE a + (j - i)
      BY <1>1, <1>2, <1>3, <3>2
    <3> QED BY <1>7, <3>1, <3>2
  <2>2. ASSUME NEW a \in 0..c, NEW b \in 0..c, At(n, r, a) \in Lists, At(n, r, b) \in Lists
        PROVE  a = b
    <3>1. (IF a < i THEN a ELSE a + (j - i)) = IF b < i THEN b ELSE b + (j - i)
      BY <1>12, <2>1, <2>2
    <3> QED BY <1>2, <3>1
  <2> QED BY <1>3, <2>2 DEF OneRoot
<1>14. OneRoot(s[i], t)
  <2>1. ASSUME NEW a \in 0..d, NEW b \in 0..d, At(s[i], t, a) \in Lists, At(s[i], t, b) \in Lists
        PROVE  a = b
    <3>1. i + a = i + b
      <4>1. /\ i + a \in 0..p /\ i + b \in 0..p
            /\ At(n, s, i + a) \in Lists /\ At(n, s, i + b) \in Lists
        BY <1>9, <2>1
      <4> QED BY <1>12, <4>1
    <3> QED BY <1>2, <3>1
  <2> QED BY <1>4, <2>1 DEF OneRoot
<1> QED BY <1>3, <1>4, <1>8, <1>10, <1>11, <1>13, <1>14 DEF Whole, r, t

-----------------------------------------------------------------------------
(* 3. MIRRORED POINTERS                                                    *)

(* The inductive invariant: LinksMirror needs to know of the pointers that *)
(* functions read that they lead to constructed nodes, which is part of it.*)
IInv == TypeOK /\ Mirror(links, Live)

LEMMA InitIInv == Init => IInv
BY NamesApart DEF Init, IInv, TypeOK, Mirror, Nodes, Live, Loops, NoLoop

(* Where a call may point to is a constructed node.                        *)
LEMMA PlacesAreLive ==
  ASSUME IInv, NEW x \in Live
  PROVE  links.next[x] \in Live /\ links.prev[x] \in Live
BY DEF IInv, Mirror

LEMMA UnlinkOneMirrors ==
  ASSUME IInv, NEW x \in Live
  PROVE  UnlinkOne(x) \in Memory /\ Mirror(UnlinkOne(x), Live)
BY PlacesAreLive, UnlinkMirrors DEF UnlinkOne, IInv, TypeOK, Memory, Live, Nodes

LEMMA StepIInv == IInv /\ [Next]_vars => IInv'
<1> SUFFICES ASSUME IInv, [Next]_vars PROVE IInv'
  OBVIOUS
<1>1. /\ links \in Memory /\ Live \in SUBSET Nodes /\ Mirror(links, Live)
      /\ Lists \subseteq Live /\ alive \subseteq Live /\ alive \subseteq Elements
  BY DEF IInv, TypeOK, Memory, Live, Nodes
<1>2. ASSUME NEW m \in Memory, NEW call, Mirror(m, Live), Links(m, call)
      PROVE  IInv'
  BY <1>2 DEF Links, IInv, TypeOK, Memory, Live
<1>3. ASSUME NEW x \in Elements, IntrusiveListElementCtor(x)
      PROVE  IInv'
  <2>1. x \in Nodes \ Live /\ Live' = Live \cup {x} /\ links' = Construct(links, x)
    BY <1>3, NamesApart DEF IntrusiveListElementCtor, Live, Nodes
  <2>2. links' \in Memory /\ Mirror(links', Live')
    BY <1>1, <2>1, ConstructMirrors
  <2> QED BY <1>3, <2>2 DEF IntrusiveListElementCtor, IInv, TypeOK, Memory
<1>4. ASSUME NEW l \in Lists,
             \/ pop_front(l) \/ pop_back(l) \/ CallSize(l) \/ CallClear(l)
             \/ Emptiness(l) \/ Begin(l) \/ front(l) \/ back(l)
             \/ \E x \in Elements : push_front(l, x) \/ push_back(l, x)
      PROVE  IInv'
  <2>1. links.next[l] \in Live /\ links.prev[l] \in Live
    BY <1>1, PlacesAreLive
  <2>2. CASE pop_front(l)
    BY <1>2, <2>1, <2>2, UnlinkOneMirrors DEF pop_front
  <2>3. CASE pop_back(l)
    BY <1>2, <2>1, <2>3, UnlinkOneMirrors DEF pop_back
  <2>4. CASE CallSize(l)
    BY <2>1, <2>4 DEF CallSize, begin, IInv, TypeOK, Loops, Live, Nodes
  <2>5. CASE CallClear(l)
    BY <2>5 DEF CallClear, IInv, TypeOK, Loops, Live
  <2>6. CASE Emptiness(l) \/ Begin(l) \/ front(l) \/ back(l)
    BY <1>1, <1>2, <2>6 DEF Emptiness, Begin, front, back, Query
  <2>7. ASSUME NEW x \in Elements, push_front(l, x)
        PROVE  IInv'
    BY <1>1, <1>2, <2>7, LinkNextMirrors DEF push_front, Alone
  <2>8. ASSUME NEW x \in Elements, push_back(l, x)
        PROVE  IInv'
    BY <1>1, <1>2, <2>8, LinkPrevMirrors DEF push_back, Alone
  <2> QED BY <1>4, <2>2, <2>3, <2>4, <2>5, <2>6, <2>7, <2>8
<1>5. ASSUME NEW x \in Elements, ElementUnlink(x)
      PROVE  IInv'
  BY <1>1, <1>2, <1>5, UnlinkOneMirrors DEF ElementUnlink
<1>6. ASSUME NEW position \in Nodes,
             \/ Forward(position) \/ Backward(position)
             \/ \E x \in Elements :
                  \/ insert(position, x) \/ ElementUnlinkRange(x, position)
                  \/ ElementLinkPrev(position, x) \/ ElementLinkNext(position, x)
      PROVE  IInv'
  <2>1. CASE Forward(position) \/ Backward(position)
    BY <1>1, <1>2, <2>1 DEF Forward, Backward, Query
  <2>2. ASSUME NEW x \in Elements, insert(position, x) \/ ElementLinkPrev(position, x)
        PROVE  IInv'
    BY <1>1, <1>2, <2>2, LinkPrevMirrors DEF insert, ElementLinkPrev, Alone, Loose, Positions
  <2>3. ASSUME NEW x \in Elements, ElementLinkNext(position, x)
        PROVE  IInv'
    BY <1>1, <1>2, <2>3, LinkNextMirrors DEF ElementLinkNext, Loose, Positions
  <2>4. ASSUME NEW x \in Elements, ElementUnlinkRange(x, position)
        PROVE  IInv'
    BY <1>1, <1>2, <2>4, UnlinkMirrors DEF ElementUnlinkRange
  <2> QED BY <1>6, <2>1, <2>2, <2>3, <2>4
<1>7. CASE SizeRound
  <2>1. /\ loop \in [what : {"size"}, list : Lists, temp : Nodes, result : Nat]
        /\ links.next[loop.temp] \in Nodes
    BY <1>7 DEF SizeRound, IInv, TypeOK, Loops, NoLoop
  <2>2. loop' = [what |-> "size", list |-> loop.list, temp |-> links.next[loop.temp],
                 result |-> loop.result + 1]
    BY <1>7, <2>1 DEF SizeRound, increment
  <2>3. loop' \in Loops
    BY <2>1, <2>2 DEF Loops
  <2> QED BY <1>7, <2>3 DEF SizeRound, IInv, TypeOK, Live
<1>8. CASE SizeReturns \/ ClearReturns
  BY <1>8 DEF SizeReturns, ClearReturns, IInv, TypeOK, Loops, Live
<1>9. CASE ClearRound
  <2>1. loop.list \in Lists
    BY <1>9 DEF ClearRound, IInv, TypeOK, Loops, NoLoop
  <2>2. links' \in Memory /\ Mirror(links', Live)
    BY <1>1, <1>9, <2>1, PlacesAreLive, UnlinkOneMirrors DEF ClearRound
  <2> QED BY <1>9, <2>2 DEF ClearRound, IInv, TypeOK, Memory, Live
<1>10. CASE UNCHANGED vars
  BY <1>10 DEF vars, IInv, TypeOK, Live
<1> QED BY <1>3, <1>4, <1>5, <1>6, <1>7, <1>8, <1>9, <1>10 DEF Next

(* After any sequence of calls, on any number of lists and elements, the   *)
(* pointers of every node agree with those of its neighbours, and none of  *)
(* them leads to an element whose constructor has not run.                 *)
THEOREM RingsStayClosed == Spec => []LinksMirror
<1>1. IInv => LinksMirror
  BY DEF IInv, Mirror, LinksMirror
<1> QED BY <1>1, InitIInv, StepIInv, PTL DEF Spec

(* Every state has the declared types.                                     *)
THEOREM TypeCorrect == Spec => []TypeOK
<1>1. IInv => TypeOK
  BY DEF IInv
<1> QED BY <1>1, InitIInv, StepIInv, PTL DEF Spec

-----------------------------------------------------------------------------
(* 4. AFTER                                                                *)

(* After follows the pointers as often as there are elements. What it has  *)
(* found after i steps is a prefix of the ring.                            *)
Prefix(s, i) == IF i <= Len(s) THEN SubSeq(s, 1, i) ELSE s

StepFrom(node, s) ==
  LET n == links.next[IF s = <<>> THEN node ELSE Last(s)]
  IN IF n = node THEN s ELSE Append(s, n)

LEMMA PrefixGrows ==
  ASSUME NEW S, NEW node, NEW s \in Seq(S), Ring(links, node, s), NEW i \in Nat \ {0}
  PROVE  Prefix(s, i) = StepFrom(node, Prefix(s, i - 1))
<1> DEFINE before == Prefix(s, i - 1)
           n == links.next[IF before = <<>> THEN node ELSE Last(before)]
<1>1. CASE i <= Len(s)
  <2>1. before = SubSeq(s, 1, i - 1) /\ Prefix(s, i) = SubSeq(s, 1, i)
    BY <1>1 DEF Prefix
  <2>2. Len(before) = i - 1 /\ (\A j \in 1 .. i - 1 : before[j] = s[j]) /\ before \in Seq(S)
    <3> HIDE DEF before
    <3>1. i - 1 \in 0..Len(s) /\ (\A j \in 1 .. i - 1 : j \in 1..Len(s))
      BY <1>1
    <3>2. SubSeq(s, 1, i - 1) \in Seq(S)
      BY <1>1, <3>1
    <3>3. Len(SubSeq(s, 1, i - 1)) = i - 1
      BY <1>1, <3>1
    <3>4. \A j \in 1 .. i - 1 : SubSeq(s, 1, i - 1)[j] = s[j]
      BY <1>1, <3>1
    <3> QED BY <2>1, <3>2, <3>3, <3>4
  <2>3. (IF before = <<>> THEN node ELSE Last(before)) = At(node, s, i - 1)
    BY <1>1, <2>2 DEF At, Last
  <2>4. n = s[i] /\ s[i] \in S /\ s[i] # node
    BY <1>1, <2>3 DEF Ring, At
  <2>5. SubSeq(s, 1, i) = Append(before, s[i])
    BY <1>1, <2>1
  <2>6. StepFrom(node, before) = IF n = node THEN before ELSE Append(before, n)
    BY DEF StepFrom
  <2>7. Prefix(s, i) = StepFrom(node, before)
    <3> HIDE DEF before, n
    <3> QED BY <2>1, <2>4, <2>5, <2>6
  <2> QED BY <2>7
<1>2. CASE i > Len(s)
  <2>1. before = s /\ Prefix(s, i) = s
    BY <1>2 DEF Prefix
  <2>2. (IF s = <<>> THEN node ELSE Last(s)) = At(node, s, Len(s))
    BY DEF At, Last
  <2>3. links.next[At(node, s, Len(s))] = node
    BY DEF Ring, At
  <2> QED BY <2>1, <2>2, <2>3 DEF StepFrom
<1> QED BY <1>1, <1>2

(* So it finds the ring, if there is one that is not too long.             *)
LEMMA RingIsAfter ==
  ASSUME NEW S, NEW node, NEW s \in Seq(S), Ring(links, node, s),
         Len(s) <= Cardinality(Elements), Cardinality(Elements) \in Nat
  PROVE  After(node) = s
<1> DEFINE c == Cardinality(Elements)
           W == [i \in 0..c |-> Prefix(s, i)]
           F(g) == [i \in 0..c |-> IF i = 0 THEN <<>> ELSE StepFrom(node, g[i - 1])]
           Steps == CHOOSE g : g = F(g)
<1>1. c \in Nat /\ Len(s) <= c
  OBVIOUS
<1>2. After(node) = Steps[c]
  BY DEF After, StepFrom
<1> HIDE DEF c
<1>3. Prefix(s, 0) = <<>>
  BY DEF Prefix
<1>4. W = F(W)
  BY <1>1, <1>3, PrefixGrows
<1>5. Steps = F(Steps)
  BY <1>4
<1> HIDE DEF Steps
<1>6. Steps[0] = <<>> /\ \A i \in 1..c : Steps[i] = StepFrom(node, Steps[i - 1])
  BY <1>1, <1>5
<1>7. \A i \in 1..c : Prefix(s, i) = StepFrom(node, Prefix(s, i - 1))
  BY <1>1, PrefixGrows
<1> DEFINE S1 == {i \in 0..c : Steps[i] = Prefix(s, i)}
<1>8. c \in S1
  <2> HIDE DEF S1
  <2>1. 0..c \subseteq S1
    <3>1. 0 \in S1
      BY <1>1, <1>3, <1>6 DEF S1
    <3>2. \A i \in 1..c : i - 1 \in S1 => i \in S1
      BY <1>1, <1>6, <1>7 DEF S1
    <3> QED BY <1>1, <3>1, <3>2, UpTo
  <2> QED BY <1>1, <2>1
<1>9. Prefix(s, c) = s
  BY <1>1 DEF Prefix
<1> QED BY <1>2, <1>8, <1>9

(* All rings of live nodes are short enough; the same in the next state.   *)
AfterIsRing ==
  alive \subseteq Elements =>
    \A n \in Live : \A s : Whole(links, Live, n, s) => After(n) = s

LEMMA RingAfter == AfterIsRing
<1> SUFFICES ASSUME alive \subseteq Elements, NEW n \in Live, NEW s, Whole(links, Live, n, s)
             PROVE  After(n) = s
  BY DEF AfterIsRing
<1>1. Live \in SUBSET Nodes
  BY DEF Live, Nodes
<1>2. Cardinality(Elements) \in Nat /\ Len(s) <= Cardinality(Elements)
  BY <1>1, CirclesAreSmall
<1>3. s \in Seq(Live) /\ Ring(links, n, s)
  BY DEF Whole
<1> QED BY <1>2, <1>3, RingIsAfter

LEMMA RingAfterLater == AfterIsRing'
BY RingAfter, PTL

(* Every live node is in a whole ring. This is what LinksMirror means for  *)
(* all the lists at once, and what an ordered list is made of.             *)
Closed == \A n \in Live : \E s : Whole(links, Live, n, s)

(* The ring of a node is what After returns.                               *)
LEMMA RingsAfter ==
  ASSUME alive \subseteq Elements, Closed, NEW n \in Live
  PROVE  Whole(links, Live, n, After(n))
BY RingAfter DEF AfterIsRing, Closed

(* Two rings become one, and all others stay as they are.                  *)
LEMMA SpliceStep ==
  ASSUME alive \subseteq Elements, Closed, NEW l \in Lists, NEW x \in Live,
         Apart(Circle(x, After(x)), Lists), NEW k \in 1 .. Len(After(l)) + 1,
         UNCHANGED alive,
         Swapped(links, links', Live, At(l, After(l), k - 1), At(x, After(x), Len(After(x))))
  PROVE  /\ Closed'
         /\ After(l)' = Spliced(After(l), k, x, After(x))
         /\ \A o \in Lists : o # l => After(o)' = After(o)
<1> DEFINE s == After(l)
           u == After(x)
           r == Spliced(s, k, x, u)
           w == links'
<1>1. l \in Live /\ Live' = Live /\ Live \in SUBSET Nodes /\ Lists \subseteq Live
  BY DEF Live, Nodes
<1>2. Whole(links, Live, l, s) /\ Whole(links, Live, x, u)
  BY <1>1, RingsAfter
<1>3. Apart(Circle(l, s), Circle(x, u))
  <2>1. l \in Circle(l, s)
    BY <1>1, <1>2, OnCircle
  <2>2. ASSUME NEW y \in Circle(l, s), y \in Circle(x, u) PROVE FALSE
    <3>1. Circle(l, s) = Circle(x, u)
      <4> HIDE DEF s, u
      <4> QED BY <1>1, <1>2, <2>2, CirclesApart
    <3> QED BY <2>1, <3>1 DEF Apart
  <2> QED BY <2>2 DEF Apart
<1> HIDE DEF s, u, w
<1>4. k \in 1 .. Len(s) + 1 /\ Apart(Circle(x, u), Lists)
  BY DEF s, u
<1>5. Swapped(links, w, Live, At(l, s, k - 1), At(x, u, Len(u)))
  BY DEF s, u, w
<1>6. Whole(w, Live, l, r) /\ Circle(l, r) = Circle(l, s) \cup Circle(x, u)
  BY <1>1, <1>2, <1>3, <1>4, <1>5, Splicing
<1> HIDE DEF r
<1>7. ASSUME NEW n \in Live, n \notin Circle(l, r) PROVE Whole(w, Live, n, After(n))
  <2> DEFINE t == After(n)
  <2>1. Whole(links, Live, n, t) /\ n \in Circle(n, t)
    BY <1>1, RingsAfter, OnCircle
  <2> HIDE DEF t
  <2>2. Circle(n, t) \cap Circle(l, s) = {} /\ Circle(n, t) \cap Circle(x, u) = {}
    BY <1>1, <1>2, <1>6, <1>7, <2>1, CirclesApart
  <2>3. At(l, s, k - 1) \in Circle(l, s) /\ At(x, u, Len(u)) \in Circle(x, u)
    <3>1. s \in Seq(Live) /\ u \in Seq(Live)
      BY <1>2 DEF Whole
    <3>2. k - 1 \in 0..Len(s) /\ Len(u) \in 0..Len(u)
      BY <1>4, <3>1
    <3> QED BY <3>2 DEF Circle
  <2>4. \A y \in Circle(n, t) : y \in Live
    BY <1>1, <2>1, RingFromNode
  <2>5. \A y \in Circle(n, t) : w.next[y] = links.next[y]
    BY <1>5, <2>2, <2>3, <2>4 DEF Swapped
  <2> QED BY <2>1, <2>5, RingUntouched DEF t
<1>8. \A n \in Live : \A v : Whole(w, Live, n, v) => After(n)' = v
  <2>1. alive' \subseteq Elements
    OBVIOUS
  <2> QED BY <1>1, <2>1, RingAfterLater DEF AfterIsRing, w
<1>9. Closed'
  <2>1. ASSUME NEW n \in Live PROVE \E v : Whole(w, Live, n, v)
    <3>1. CASE n \in Circle(l, r)
      BY <1>1, <1>6, <3>1, RingFromNode
    <3> QED BY <1>7, <3>1
  <2> QED BY <1>1, <2>1 DEF Closed, w
<1>10. ASSUME NEW o \in Lists, o # l PROVE After(o)' = After(o)
  <2>1. o \notin Circle(l, r)
    <3>1. r \in Seq(Live) /\ OneRoot(l, r)
      BY <1>6 DEF Whole
    <3>2. At(l, r, 0) = l /\ 0 \in 0..Len(r)
      BY <3>1 DEF At
    <3>3. ASSUME NEW i \in 0..Len(r), o = At(l, r, i) PROVE FALSE
      BY <1>10, <3>1, <3>2, <3>3 DEF OneRoot
    <3> QED BY <3>3 DEF Circle
  <2> QED BY <1>1, <1>7, <1>8, <2>1
<1> QED BY <1>1, <1>6, <1>8, <1>9, <1>10 DEF s, u, r

(* One ring becomes two, and all others stay as they are.                  *)
LEMMA SplitStep ==
  ASSUME alive \subseteq Elements, Closed, NEW n \in Live,
         NEW i \in 1..Len(After(n)), NEW j \in i + 1 .. Len(After(n)) + 1,
         UNCHANGED alive,
         Swapped(links, links', Live, At(n, After(n), i - 1), At(n, After(n), j - 1))
  PROVE  /\ Closed'
         /\ After(n)' = Cut(After(n), i, j)
         /\ \A o \in Live : o \notin Circle(n, After(n)) => After(o)' = After(o)
<1> DEFINE s == After(n)
           r == Cut(s, i, j)
           t == Part(s, i, j)
           w == links'
<1>1. Live' = Live /\ Live \in SUBSET Nodes /\ Lists \subseteq Live
  BY DEF Live, Nodes
<1>2. Whole(links, Live, n, s)
  BY <1>1, RingsAfter
<1> HIDE DEF s, w
<1>3. i \in 1..Len(s) /\ j \in i + 1 .. Len(s) + 1 /\ s[i] \in Live
  <2>1. i \in 1..Len(s) /\ j \in i + 1 .. Len(s) + 1
    BY DEF s
  <2> QED BY <1>2, <2>1 DEF Whole
<1>4. Swapped(links, w, Live, At(n, s, i - 1), At(n, s, j - 1))
  BY DEF s, w
<1>5. /\ Whole(w, Live, n, r) /\ Whole(w, Live, s[i], t)
      /\ Circle(n, s) = Circle(n, r) \cup Circle(s[i], t)
  BY <1>2, <1>3, <1>4, Splitting
<1> HIDE DEF r, t
<1>6. ASSUME NEW o \in Live, o \notin Circle(n, s) PROVE Whole(w, Live, o, After(o))
  <2> DEFINE v == After(o)
  <2>1. Whole(links, Live, o, v) /\ o \in Circle(o, v)
    BY <1>1, RingsAfter, OnCircle
  <2> HIDE DEF v
  <2>2. Circle(o, v) \cap Circle(n, s) = {}
    BY <1>1, <1>2, <1>6, <2>1, CirclesApart
  <2>3. At(n, s, i - 1) \in Circle(n, s) /\ At(n, s, j - 1) \in Circle(n, s)
    <3>1. s \in Seq(Live)
      BY <1>2 DEF Whole
    <3>2. i - 1 \in 0..Len(s) /\ j - 1 \in 0..Len(s)
      BY <1>3, <3>1
    <3> QED BY <3>2 DEF Circle
  <2>4. \A y \in Circle(o, v) : y \in Live
    BY <1>1, <2>1, RingFromNode
  <2>5. \A y \in Circle(o, v) : w.next[y] = links.next[y]
    BY <1>4, <2>2, <2>3, <2>4 DEF Swapped
  <2> QED BY <2>1, <2>5, RingUntouched DEF v
<1>7. \A o \in Live : \A v : Whole(w, Live, o, v) => After(o)' = v
  <2>1. alive' \subseteq Elements
    OBVIOUS
  <2> QED BY <1>1, <2>1, RingAfterLater DEF AfterIsRing, w
<1>8. Closed'
  <2>1. ASSUME NEW o \in Live PROVE \E v : Whole(w, Live, o, v)
    <3>1. CASE o \in Circle(n, r)
      BY <1>1, <1>5, <3>1, RingFromNode
    <3>2. CASE o \in Circle(s[i], t)
      BY <1>1, <1>3, <1>5, <3>2, RingFromNode
    <3> QED BY <1>5, <1>6, <3>1, <3>2
  <2> QED BY <1>1, <2>1 DEF Closed, w
<1> QED BY <1>5, <1>6, <1>7, <1>8 DEF s, r

-----------------------------------------------------------------------------
(* 5. CALLS                                                                *)

(* What holds between any two calls.                                       *)
InRings == IInv /\ Closed

(* The parts of it, one by one.                                            *)
LEMMA LiveNodes ==
  ASSUME InRings
  PROVE  /\ links \in Memory /\ Live \in SUBSET Nodes /\ Mirror(links, Live) /\ Closed
         /\ Lists \subseteq Live /\ alive \subseteq Live /\ alive \subseteq Elements
         /\ Live \ Lists \subseteq alive
BY DEF InRings, IInv, TypeOK, Memory, Live, Nodes

(* The pointers back, which mirror the ones forward.                       *)
LEMMA RingSides ==
  ASSUME InRings, NEW n \in Live
  PROVE  /\ Unrolled(links, Live, n, After(n))
         /\ \A a \in 0..Len(After(n)) :
              links.prev[At(n, After(n), a + 1)] = At(n, After(n), a)
<1>1. Whole(links, Live, n, After(n))
  BY LiveNodes, RingsAfter
<1>2. Unrolled(links, Live, n, After(n))
  BY <1>1, NodesOfRing
<1>3. ASSUME NEW a \in 0..Len(After(n))
      PROVE  links.prev[At(n, After(n), a + 1)] = At(n, After(n), a)
  <2>1. At(n, After(n), a) \in Live /\ links.next[At(n, After(n), a)] = At(n, After(n), a + 1)
    BY <1>2 DEF Unrolled
  <2> QED BY <2>1, LiveNodes DEF Mirror
<1> QED BY <1>2, <1>3

(* The ring of a list's root.                                              *)
LEMMA ListRing ==
  ASSUME InRings, NEW l \in Lists
  PROVE  /\ l \in Live /\ After(l) \in Seq(Live) /\ Len(After(l)) \in Nat
         /\ 0 \in 0..Len(After(l)) /\ At(l, After(l), 0) = l
         /\ At(l, After(l), Len(After(l)) + 1) = l
         /\ \A a \in 1..Len(After(l)) : At(l, After(l), a) = After(l)[a]
<1>1. l \in Live
  BY LiveNodes
<1> QED BY <1>1, RingSides DEF Unrolled

(* The neighbours of a node, which is on its own when they are itself.     *)
LEMMA Emptied ==
  ASSUME InRings, NEW n \in Live
  PROVE  /\ After(n) = <<>> <=> links.next[n] = n
         /\ Len(After(n)) = 0 <=> links.next[n] = n
         /\ links.next[n] = At(n, After(n), 1) /\ links.prev[n] = At(n, After(n), Len(After(n)))
<1> DEFINE s == After(n)
<1>1. /\ Unrolled(links, Live, n, s)
      /\ \A a \in 0..Len(s) : links.prev[At(n, s, a + 1)] = At(n, s, a)
  BY RingSides
<1> HIDE DEF s
<1>2. /\ s \in Seq(Live) /\ Len(s) \in Nat /\ At(n, s, 0) = n /\ At(n, s, Len(s) + 1) = n
      /\ \A a, b \in 0..Len(s) : At(n, s, a) = At(n, s, b) => a = b
      /\ \A a \in 0..Len(s) : links.next[At(n, s, a)] = At(n, s, a + 1)
  BY <1>1 DEF Unrolled
<1>3. links.next[n] = At(n, s, 1) /\ links.prev[n] = At(n, s, Len(s))
  <2>1. 0 \in 0..Len(s) /\ Len(s) \in 0..Len(s) /\ 0 + 1 = 1
    BY <1>2
  <2> QED BY <1>1, <1>2, <2>1
<1>4. Len(s) = 0 <=> links.next[n] = n
  <2>1. CASE Len(s) = 0
    BY <1>2, <1>3, <2>1
  <2>2. CASE Len(s) # 0
    <3>1. 1 \in 0..Len(s) /\ 0 \in 0..Len(s)
      BY <1>2, <2>2
    <3>2. At(n, s, 1) # At(n, s, 0)
      BY <1>2, <3>1
    <3> QED BY <1>2, <1>3, <2>2, <3>2
  <2> QED BY <2>1, <2>2
<1>5. s = <<>> <=> Len(s) = 0
  BY <1>2
<1> QED BY <1>3, <1>4, <1>5 DEF s

(* An element is in one list at most, and in one place of it.              *)
LEMMA ListsApart ==
  ASSUME InRings, NEW l \in Lists, NEW y \in Circle(l, After(l)), NEW n \in Live,
         y \in Circle(n, After(n))
  PROVE  Circle(n, After(n)) = Circle(l, After(l))
<1>1. l \in Live /\ n \in Live
  BY LiveNodes
<1>2. Whole(links, Live, l, After(l)) /\ Whole(links, Live, n, After(n))
  BY <1>1, LiveNodes, RingsAfter
<1> QED BY <1>1, <1>2, CirclesApart

(* Where an iterator may point to.                                         *)
LEMMA PlaceInList ==
  ASSUME InRings, NEW position \in Positions
  PROVE  \E l \in Lists : \E a \in 0..Len(After(l)) : position = At(l, After(l), a)
<1>1. position \in Live /\ (ToSet(After(position)) \cup {position}) \cap Lists # {}
  BY DEF Positions
<1>2. Whole(links, Live, position, After(position))
  BY <1>1, LiveNodes, RingsAfter
<1>3. Circle(position, After(position)) = ToSet(After(position)) \cup {position}
  BY <1>1, <1>2, CircleIs DEF Whole
<1>4. PICK l \in Lists : l \in Circle(position, After(position))
  BY <1>1, <1>3
<1>5. l \in Live /\ position \in Circle(position, After(position))
  BY <1>1, <1>2, OnCircle, LiveNodes
<1>6. l \in Circle(l, After(l))
  BY <1>5, LiveNodes, RingsAfter, OnCircle
<1>7. Circle(position, After(position)) = Circle(l, After(l))
  BY <1>1, <1>4, <1>6, ListsApart
<1>8. position \in Circle(l, After(l))
  BY <1>5, <1>7
<1> QED BY <1>8 DEF Circle

(* What another node of the ring says of its list, if it has one.          *)
LEMMA RootOfRing ==
  ASSUME InRings, NEW x \in Live, ~Apart(Circle(x, After(x)), Lists)
  PROVE  \E l \in Lists : \E a \in 0..Len(After(l)) : x = At(l, After(l), a)
<1>1. PICK l \in Lists : l \in Circle(x, After(x))
  BY DEF Apart
<1>2. l \in Live /\ x \in Circle(x, After(x))
  BY LiveNodes, RingsAfter, OnCircle
<1>3. l \in Circle(l, After(l))
  BY <1>2, LiveNodes, RingsAfter, OnCircle
<1>4. Circle(x, After(x)) = Circle(l, After(l))
  BY <1>1, <1>3, ListsApart
<1>5. x \in Circle(l, After(l))
  BY <1>2, <1>4
<1> QED BY <1>5 DEF Circle

(* The list that the abstract module sees.                                 *)
LEMMA ContentIs ==
  ASSUME NEW l \in Lists
  PROVE  [k \in Lists |-> Members(k)][l] = After(l)
BY DEF Members

(* The abstract module finds an iterator's place by searching.             *)
LEMMA IndexOfPlace ==
  ASSUME InRings, NEW l \in Lists, NEW a \in 0..Len(After(l))
  PROVE  Abstract!Index(l, At(l, After(l), a)) = IF a = 0 THEN Len(After(l)) + 1 ELSE a
<1> DEFINE s == After(l)
           position == At(l, s, a)
           I == {i \in 1..Len(s) : s[i] = position}
<1>1. l \in Live
  BY LiveNodes
<1>2. Unrolled(links, Live, l, s)
  BY <1>1, RingSides
<1>3. Abstract!Index(l, position) = IF position = l THEN Len(s) + 1
                                    ELSE IF I # {} THEN Abstract!Min(I) ELSE 0
  BY DEF Abstract!Index, Abstract!SelectInSeq, Members
<1> HIDE DEF s
<1>4. Len(s) \in Nat /\ a \in 0..Len(s)
  BY <1>2 DEF Unrolled, s
<1>5. CASE a = 0
  BY <1>2, <1>3, <1>5 DEF Unrolled, s
<1>6. CASE a # 0
  <2>1. a \in 1..Len(s) /\ 0 \in 0..Len(s)
    BY <1>4, <1>6
  <2>2. /\ \A i, j \in 0..Len(s) : At(l, s, i) = At(l, s, j) => i = j
        /\ \A i \in 1..Len(s) : At(l, s, i) = s[i]
        /\ At(l, s, 0) = l
    BY <1>2 DEF Unrolled
  <2>3. position # l
    BY <1>4, <1>6, <2>1, <2>2
  <2>4. I = {a}
    BY <1>4, <2>1, <2>2
  <2>5. Abstract!Min(I) = a
    BY <2>1, <2>4 DEF Abstract!Min
  <2> HIDE DEF I, position
  <2>6. I # {}
    BY <2>4
  <2> QED BY <1>3, <1>6, <2>3, <2>5, <2>6 DEF s, position
<1> QED BY <1>5, <1>6

(* An iterator's place in a list that the abstract module sees.            *)
LEMMA PlaceIsPlace ==
  ASSUME InRings, NEW l \in Lists, NEW i \in Int
  PROVE  Abstract!At(l, i) = At(l, After(l), i)
<1>1. After(l) \in Seq(Live)
  BY ListRing
<1>2. DOMAIN After(l) = 1..Len(After(l))
  BY <1>1
<1> QED BY <1>2, ContentIs DEF Abstract!At, At

(* Nothing of a ring without a root is in a list.                          *)
LEMMA RingIsUnlisted ==
  ASSUME InRings, NEW x \in Live, Apart(Circle(x, After(x)), Lists)
  PROVE  Circle(x, After(x)) \cap Abstract!Listed = {}
<1>1. Abstract!Listed = UNION {ToSet(After(l)) : l \in Lists}
  BY DEF Abstract!Listed, Abstract!ToSet, ToSet, Members
<1>2. ASSUME NEW l \in Lists, NEW y \in ToSet(After(l)), y \in Circle(x, After(x)) PROVE FALSE
  <2>1. l \in Live
    BY LiveNodes
  <2>2. Whole(links, Live, l, After(l)) /\ l \in Circle(l, After(l))
    BY <2>1, LiveNodes, RingsAfter, OnCircle
  <2>3. Circle(l, After(l)) = ToSet(After(l)) \cup {l}
    BY <2>1, <2>2, CircleIs DEF Whole
  <2>4. Circle(x, After(x)) = Circle(l, After(l))
    BY <1>2, <2>3, ListsApart
  <2> QED BY <2>2, <2>4 DEF Apart
<1> QED BY <1>1, <1>2

(* The ring that begins with a node, written as one sequence.              *)
Chain(x) == <<x>> \o After(x)

(* An element on its own.                                                  *)
LEMMA AloneIs ==
  ASSUME InRings, NEW x \in Elements, Alone(x)
  PROVE  /\ x \in Live /\ After(x) = <<>> /\ Chain(x) = <<x>>
         /\ Apart(Circle(x, After(x)), Lists)
<1>1. x \in Live /\ links.next[x] = x
  BY LiveNodes DEF Alone, HasNext
<1>2. After(x) = <<>>
  BY <1>1, Emptied
<1>3. <<x>> \o <<>> = <<x>>
  OBVIOUS
<1>4. Circle(x, <<>>) = {x}
  BY DEF Circle, At
<1>5. {x} \cap Lists = {}
  BY NamesApart
<1> QED BY <1>1, <1>2, <1>3, <1>4, <1>5 DEF Chain, Apart

(* An element on its own is in no list.                                    *)
LEMMA UnlistedElement ==
  ASSUME InRings, NEW x \in Elements, Alone(x)
  PROVE  x \notin Abstract!Listed
<1>1. x \in Live /\ Apart(Circle(x, After(x)), Lists)
  BY AloneIs
<1>2. x \in Circle(x, After(x))
  BY <1>1, LiveNodes, RingsAfter, OnCircle
<1> QED BY <1>1, <1>2, RingIsUnlisted

(* A ring without a root.                                                  *)
LEMMA LooseIs ==
  ASSUME InRings, NEW x \in Elements, Loose(x)
  PROVE  x \in Live /\ Apart(Circle(x, After(x)), Lists)
<1>1. x \in Live /\ ToSet(After(x)) \cap Lists = {}
  BY LiveNodes DEF Loose
<1>2. Circle(x, After(x)) = ToSet(After(x)) \cup {x}
  BY <1>1, LiveNodes, RingsAfter, CircleIs DEF Whole
<1> QED BY <1>1, <1>2, NamesApart DEF Apart

(* The abstract module changes one list at a time.                         *)
LEMMA ChangeStep ==
  ASSUME NEW l \in Lists, NEW v, After(l)' = v, \A o \in Lists : o # l => After(o)' = After(o)
  PROVE  Abstract!Change(l, v)
<1>1. \A o \in Lists :
        [k \in Lists |-> Members(k)]'[o] = [[k \in Lists |-> Members(k)] EXCEPT ![l] = v][o]
  BY DEF Members
<1>2. [k \in Lists |-> Members(k)]' = [[k \in Lists |-> Members(k)] EXCEPT ![l] = v]
  BY <1>1
<1> QED BY <1>2 DEF Abstract!Change

(* Without a new pointer forward, no list changes.                         *)
LEMMA SameNext ==
  ASSUME InRings, UNCHANGED alive, \A y \in Live : links'.next[y] = links.next[y]
  PROVE  /\ Closed' /\ \A n \in Live : After(n)' = After(n)
         /\ UNCHANGED [l \in Lists |-> Members(l)]
<1>1. /\ Live' = Live /\ Live \in SUBSET Nodes /\ Lists \subseteq Live /\ alive \subseteq Elements
      /\ Closed
  BY LiveNodes DEF Live
<1>2. ASSUME NEW n \in Live PROVE Whole(links', Live, n, After(n))
  <2> DEFINE s == After(n)
             w == links'
  <2>1. Whole(links, Live, n, s)
    BY <1>1, RingsAfter
  <2> HIDE DEF s, w
  <2>2. \A y \in Circle(n, s) : y \in Live
    BY <2>1, RingFromNode
  <2>3. \A y \in Circle(n, s) : w.next[y] = links.next[y]
    BY <2>2 DEF w
  <2>4. Whole(w, Live, n, s)
    BY <2>1, <2>3, RingUntouched
  <2> QED BY <2>4 DEF s, w
<1>3. \A n \in Live : After(n)' = After(n)
  <2>1. alive' \subseteq Elements
    BY <1>1
  <2> QED BY <1>1, <1>2, <2>1, RingAfterLater DEF AfterIsRing
<1>4. Closed'
  BY <1>1, <1>2 DEF Closed
<1>5. UNCHANGED [l \in Lists |-> Members(l)]
  BY <1>1, <1>3 DEF Members
<1> QED BY <1>3, <1>4, <1>5

(* A step that stores nothing.                                             *)
LEMMA Unmoved ==
  ASSUME InRings, UNCHANGED <<links, alive>>
  PROVE  /\ Closed' /\ UNCHANGED [l \in Lists |-> Members(l)]
         /\ \A l \in Lists : After(l)' = After(l)
BY SameNext, LiveNodes

-----------------------------------------------------------------------------
(* It has each node of the ring once.                                      *)
LEMMA ChainOfRing ==
  ASSUME InRings, NEW x \in Live
  PROVE  /\ Chain(x) \in Seq(Live) /\ Len(Chain(x)) = Len(After(x)) + 1
         /\ Chain(x)[1] = x /\ Chain(x) # <<>>
         /\ \A i, j \in 1..Len(Chain(x)) : Chain(x)[i] = Chain(x)[j] => i = j
         /\ ToSet(Chain(x)) = Circle(x, After(x))
<1> DEFINE s == After(x)
           c == Chain(x)
<1>1. Unrolled(links, Live, x, s)
  BY RingSides
<1> HIDE DEF s
<1>2. /\ s \in Seq(Live) /\ Len(s) \in Nat
      /\ \A i, j \in 0..Len(s) : At(x, s, i) = At(x, s, j) => i = j
  BY <1>1 DEF Unrolled
<1>3. /\ c \in Seq(Live) /\ Len(c) = Len(s) + 1
      /\ c[1] = x /\ \A i \in 1..Len(s) : c[i + 1] = s[i]
  <2>1. <<x>> \in Seq(Live) /\ Len(<<x>>) = 1 /\ <<x>>[1] = x
    OBVIOUS
  <2>2. /\ <<x>> \o s \in Seq(Live) /\ Len(<<x>> \o s) = 1 + Len(s)
        /\ (<<x>> \o s)[1] = x
        /\ \A i \in 1..Len(s) : (<<x>> \o s)[1 + i] = s[i]
    BY <1>2, <2>1, Concat
  <2>3. c = <<x>> \o s
    BY DEF Chain, s
  <2> HIDE DEF c
  <2> QED BY <1>2, <2>2, <2>3
<1> HIDE DEF c
<1>4. \A i \in 1..Len(c) : i - 1 \in 0..Len(s) /\ c[i] = At(x, s, i - 1)
  <2> SUFFICES ASSUME NEW i \in 1..Len(c) PROVE i - 1 \in 0..Len(s) /\ c[i] = At(x, s, i - 1)
    OBVIOUS
  <2>1. i - 1 \in 0..Len(s) /\ (i = 1 \/ (i - 1 \in 1..Len(s) /\ (i - 1) + 1 = i))
    BY <1>2, <1>3
  <2>2. CASE i = 1
    BY <1>3, <2>1, <2>2 DEF At
  <2>3. CASE i - 1 \in 1..Len(s) /\ (i - 1) + 1 = i
    <3>1. c[i] = s[i - 1]
      BY <1>3, <2>3
    <3> QED BY <2>1, <2>3, <3>1 DEF At
  <2> QED BY <2>1, <2>2, <2>3
<1>5. ASSUME NEW i \in 1..Len(c), NEW j \in 1..Len(c), c[i] = c[j] PROVE i = j
  <2>1. i - 1 = j - 1
    BY <1>2, <1>4, <1>5
  <2> QED BY <2>1
<1>6. ToSet(c) = Circle(x, s)
  <2>1. ToSet(c) = {c[i] : i \in 1..Len(c)} /\ Circle(x, s) = {At(x, s, i) : i \in 0..Len(s)}
    BY <1>3 DEF ToSet, Circle
  <2>2. \A y \in ToSet(c) : y \in Circle(x, s)
    BY <1>4, <2>1
  <2>3. ASSUME NEW y \in Circle(x, s) PROVE y \in ToSet(c)
    <3>1. PICK i \in 0..Len(s) : y = At(x, s, i)
      BY <2>1
    <3>2. i + 1 \in 1..Len(c) /\ (i + 1) - 1 = i
      BY <1>2, <1>3
    <3>3. c[i + 1] = y
      BY <1>4, <3>1, <3>2
    <3> QED BY <2>1, <3>2, <3>3
  <2> QED BY <2>2, <2>3
<1>7. c # <<>>
  BY <1>2, <1>3
<1> QED BY <1>3, <1>5, <1>6, <1>7 DEF s, c

(* A sequence of different values is one of the permutations of its set.   *)
LEMMA PermutationOfSet ==
  ASSUME NEW S, NEW s \in Seq(S), \A i, j \in 1..Len(s) : s[i] = s[j] => i = j
  PROVE  s \in Abstract!SetToSeqs(ToSet(s))
<1> DEFINE n == Len(s)
           T == ToSet(s)
<1>1. n \in Nat /\ T = {s[i] : i \in 1..n} /\ s \in [1..n -> T]
  BY DEF ToSet
<1>2. s \in Surjection(1..n, T) /\ s \in Injection(1..n, T)
  BY <1>1 DEF Surjection, Injection, IsInjective
<1>3. IsFiniteSet(1..n) /\ Cardinality(1..n) = n
  <2> HIDE DEF n
  <2> QED BY <1>1, CountUpTo
<1> HIDE DEF n, T
<1>4. Cardinality(T) = n
  BY <1>2, <1>3, FS_Surjection
<1>5. \A i, j \in 1..n : i # j => s[i] # s[j]
  BY DEF n
<1>6. Abstract!Cardinality(T) = Cardinality(T)
  BY DEF Abstract!Cardinality, Cardinality
<1> QED BY <1>1, <1>4, <1>5, <1>6 DEF Abstract!SetToSeqs, T

(* A ring that is put into a list, before the k-th of its nodes.           *)
LEMMA LinkStep ==
  ASSUME InRings, NEW l \in Lists, NEW x \in Live, Apart(Circle(x, After(x)), Lists),
         NEW k \in 1 .. Len(After(l)) + 1, UNCHANGED alive,
         Swapped(links, links', Live, At(l, After(l), k - 1), links.prev[x])
  PROVE  /\ Closed' /\ Abstract!Link(l, k, Chain(x))
         /\ Chain(x) \in Abstract!Rings(x)
<1> DEFINE s == After(l)
           u == After(x)
           c == Chain(x)
           v == SubSeq(s, 1, k - 1) \o c \o SubSeq(s, k, Len(s))
<1>1. l \in Live /\ alive \subseteq Elements /\ Closed /\ Live \ Lists \subseteq alive
  BY LiveNodes
<1>2. links.prev[x] = At(x, u, Len(u)) /\ s \in Seq(Live) /\ u \in Seq(Live)
  <2>1. /\ Unrolled(links, Live, x, u) /\ Unrolled(links, Live, l, s)
        /\ \A a \in 0..Len(u) : links.prev[At(x, u, a + 1)] = At(x, u, a)
    BY <1>1, RingSides
  <2>2. Len(u) \in 0..Len(u) /\ At(x, u, Len(u) + 1) = x
    BY <2>1 DEF Unrolled
  <2>3. links.prev[x] = At(x, u, Len(u))
    BY <2>1, <2>2
  <2> QED BY <2>1, <2>3 DEF Unrolled
<1>3. /\ Closed' /\ After(l)' = Spliced(s, k, x, u)
      /\ \A o \in Lists : o # l => After(o)' = After(o)
  BY <1>1, <1>2, SpliceStep
<1>4. c \in Seq(Live) /\ c = <<x>> \o u
  BY ChainOfRing DEF Chain
<1>5. Spliced(s, k, x, u) = v
  <2>1. SubSeq(s, 1, k - 1) \in Seq(Live) /\ SubSeq(s, k, Len(s)) \in Seq(Live)
    BY <1>2
  <2>2. <<x>> \in Seq(Live)
    OBVIOUS
  <2>3. (SubSeq(s, 1, k - 1) \o <<x>>) \o u = SubSeq(s, 1, k - 1) \o (<<x>> \o u)
    BY <1>2, <2>1, <2>2
  <2> QED BY <1>4, <2>3 DEF Spliced
<1>6. Abstract!Change(l, v)
  <2>1. After(l)' = v
    BY <1>3, <1>5
  <2> HIDE DEF v
  <2> QED BY <1>3, <2>1, ChangeStep
<1>7. /\ \A i, j \in 1..Len(c) : c[i] = c[j] => i = j
      /\ c # <<>> /\ c[1] = x
      /\ ToSet(c) = Circle(x, u)
  BY ChainOfRing
<1>8. ToSet(c) \cap Abstract!Listed = {} /\ ToSet(c) \subseteq Elements
  <2>1. Circle(x, u) \cap Abstract!Listed = {}
    BY RingIsUnlisted
  <2>2. Circle(x, u) \subseteq Live
    <3>1. Unrolled(links, Live, x, u)
      BY RingSides
    <3> QED BY <3>1 DEF Unrolled, Circle
  <2> QED BY <1>1, <1>7, <2>1, <2>2 DEF Apart
<1> HIDE DEF s, u, c
<1>9. Abstract!Link(l, k, c)
  <2>1. Abstract!IsInjective(c)
    BY <1>4, <1>7 DEF Abstract!IsInjective
  <2>2. Abstract!ToSet(c) \cap Abstract!Listed = {}
    BY <1>8 DEF Abstract!ToSet, ToSet
  <2>3. [o \in Lists |-> Members(o)][l] = s
    BY DEF Members, s
  <2> QED BY <1>6, <2>1, <2>2, <2>3 DEF Abstract!Link
<1>10. c \in Abstract!Rings(x)
  <2>1. c \in Abstract!SetToSeqs(ToSet(c))
    BY <1>4, <1>7, PermutationOfSet
  <2>2. ToSet(c) \in SUBSET (Elements \ Abstract!Listed)
    BY <1>8
  <2> QED BY <1>7, <2>1, <2>2 DEF Abstract!Rings, Abstract!SetToAllKPermutations
<1> QED BY <1>3, <1>9, <1>10 DEF c

(* LinkPrev puts a ring before a place of a list, LinkNext behind it.      *)
LEMMA PrevLinked ==
  ASSUME InRings, NEW l \in Lists, NEW a \in 0..Len(After(l)), NEW x \in Live,
         Apart(Circle(x, After(x)), Lists), UNCHANGED alive,
         links' = LinkPrev(links, At(l, After(l), a), x, x)
  PROVE  /\ Closed' /\ Chain(x) \in Abstract!Rings(x)
         /\ Abstract!Link(l, IF a = 0 THEN Len(After(l)) + 1 ELSE a, Chain(x))
<1> DEFINE s == After(l)
           k == IF a = 0 THEN Len(s) + 1 ELSE a
<1>1. /\ links \in Memory /\ Live \in SUBSET Nodes /\ Mirror(links, Live) /\ l \in Live
  BY LiveNodes
<1>2. /\ Unrolled(links, Live, l, s)
      /\ \A b \in 0..Len(s) : links.prev[At(l, s, b + 1)] = At(l, s, b)
  BY <1>1, RingSides
<1>3. a \in 0..Len(s)
  OBVIOUS
<1> HIDE DEF s
<1>4. k \in 1 .. Len(s) + 1 /\ k - 1 \in 0..Len(s) /\ (k - 1) + 1 = k
  <2>1. Len(s) \in Nat
    BY <1>2 DEF Unrolled
  <2> QED BY <1>3, <2>1
<1>5. At(l, s, a) = At(l, s, k) /\ At(l, s, a) \in Live
  BY <1>2, <1>3 DEF Unrolled
<1> HIDE DEF k
<1>6. links.prev[At(l, s, a)] = At(l, s, k - 1)
  BY <1>2, <1>4, <1>5
<1>7. Swapped(links, links', Live, At(l, s, k - 1), links.prev[x])
  <2>1. Swapped(links, LinkPrev(links, At(l, s, a), x, x), Live,
                links.prev[At(l, s, a)], links.prev[x])
    BY <1>1, <1>5, LinkPrevMirrors
  <2> QED BY <1>6, <2>1 DEF s
<1>8. /\ k \in 1 .. Len(After(l)) + 1
      /\ Swapped(links, links', Live, At(l, After(l), k - 1), links.prev[x])
  BY <1>4, <1>7 DEF s
<1>9. Closed' /\ Abstract!Link(l, k, Chain(x)) /\ Chain(x) \in Abstract!Rings(x)
  BY <1>8, LinkStep
<1> QED BY <1>9 DEF k, s

LEMMA NextLinked ==
  ASSUME InRings, NEW l \in Lists, NEW a \in 0..Len(After(l)), NEW x \in Live,
         Apart(Circle(x, After(x)), Lists), UNCHANGED alive,
         links' = LinkNext(links, At(l, After(l), a), x, x)
  PROVE  /\ Closed' /\ Chain(x) \in Abstract!Rings(x)
         /\ Abstract!Link(l, a + 1, Chain(x))
<1> DEFINE s == After(l)
           k == a + 1
<1>1. /\ links \in Memory /\ Live \in SUBSET Nodes /\ Mirror(links, Live) /\ l \in Live
  BY LiveNodes
<1>2. Unrolled(links, Live, l, s)
  BY <1>1, RingSides
<1>3. a \in 0..Len(s)
  OBVIOUS
<1> HIDE DEF s
<1>4. k \in 1 .. Len(s) + 1 /\ k - 1 = a /\ a \in Int
  <2>1. Len(s) \in Nat
    BY <1>2 DEF Unrolled
  <2> QED BY <1>3, <2>1
<1>5. At(l, s, a) \in Live
  BY <1>2, <1>4 DEF Unrolled
<1> HIDE DEF k
<1>6. Swapped(links, links', Live, At(l, s, k - 1), links.prev[x])
  <2>1. Swapped(links, LinkNext(links, At(l, s, a), x, x), Live, At(l, s, a), links.prev[x])
    BY <1>1, <1>5, LinkNextMirrors
  <2> QED BY <1>4, <2>1 DEF s
<1>7. /\ k \in 1 .. Len(After(l)) + 1
      /\ Swapped(links, links', Live, At(l, After(l), k - 1), links.prev[x])
  BY <1>4, <1>6 DEF s
<1>8. Closed' /\ Abstract!Link(l, k, Chain(x)) /\ Chain(x) \in Abstract!Rings(x)
  BY <1>7, LinkStep
<1> QED BY <1>8 DEF k

(* Adding at either end.                                                   *)
LEMMA FrontPushed ==
  ASSUME InRings, NEW l \in Lists, NEW x \in Elements, push_front(l, x)
  PROVE  Closed' /\ Abstract!push_front(l, x)
<1> DEFINE s == After(l)
<1>1. /\ Alone(x) /\ links' = LinkNext(links, l, x, x) /\ UNCHANGED alive
      /\ last' = <<"push_front", l, x>>
  BY DEF push_front, Links
<1>2. x \in Live /\ Chain(x) = <<x>> /\ Apart(Circle(x, After(x)), Lists)
  BY <1>1, AloneIs
<1>3. s \in Seq(Live) /\ 0 \in 0..Len(s) /\ At(l, s, 0) = l
  BY ListRing
<1>4. Closed' /\ Abstract!Link(l, 1, <<x>>)
  <2>1. links' = LinkNext(links, At(l, s, 0), x, x)
    BY <1>1, <1>3
  <2>2. Closed' /\ Abstract!Link(l, 0 + 1, Chain(x))
    BY <1>1, <1>2, <1>3, <2>1, NextLinked
  <2> QED BY <1>2, <2>2
<1>5. Abstract!Change(l, SubSeq(s, 1, 1 - 1) \o <<x>> \o SubSeq(s, 1, Len(s)))
  BY <1>4, ContentIs DEF Abstract!Link
<1> HIDE DEF s
<1>6. SubSeq(s, 1, 1 - 1) \o <<x>> \o SubSeq(s, 1, Len(s)) = <<x>> \o s
  <2>1. SubSeq(s, 1, 1 - 1) = <<>> /\ SubSeq(s, 1, Len(s)) = s
    BY <1>3
  <2> QED BY <1>3, <2>1
<1>7. x \notin Abstract!Listed
  BY <1>1, UnlistedElement
<1>8. Abstract!Change(l, <<x>> \o [k \in Lists |-> Members(k)][l])
  BY <1>5, <1>6, ContentIs DEF s
<1> QED BY <1>1, <1>4, <1>7, <1>8 DEF Abstract!push_front, Abstract!Returns

LEMMA BackPushed ==
  ASSUME InRings, NEW l \in Lists, NEW x \in Elements, push_back(l, x)
  PROVE  Closed' /\ Abstract!push_back(l, x)
<1> DEFINE s == After(l)
<1>1. /\ Alone(x) /\ links' = LinkPrev(links, l, x, x) /\ UNCHANGED alive
      /\ last' = <<"push_back", l, x>>
  BY DEF push_back, Links
<1>2. x \in Live /\ Chain(x) = <<x>> /\ Apart(Circle(x, After(x)), Lists)
  BY <1>1, AloneIs
<1>3. s \in Seq(Live) /\ 0 \in 0..Len(s) /\ At(l, s, 0) = l
  BY ListRing
<1>4. Closed' /\ Abstract!Link(l, Len(s) + 1, <<x>>)
  <2>1. links' = LinkPrev(links, At(l, s, 0), x, x)
    BY <1>1, <1>3
  <2>2. Closed' /\ Abstract!Link(l, IF 0 = 0 THEN Len(s) + 1 ELSE 0, Chain(x))
    BY <1>1, <1>2, <1>3, <2>1, PrevLinked
  <2> QED BY <1>2, <2>2
<1>5. Abstract!Change(l, SubSeq(s, 1, Len(s) + 1 - 1) \o <<x>> \o SubSeq(s, Len(s) + 1, Len(s)))
  BY <1>4, ContentIs DEF Abstract!Link
<1> HIDE DEF s
<1>6. SubSeq(s, 1, Len(s) + 1 - 1) \o <<x>> \o SubSeq(s, Len(s) + 1, Len(s)) = Append(s, x)
  <2>1. SubSeq(s, 1, Len(s) + 1 - 1) = s /\ SubSeq(s, Len(s) + 1, Len(s)) = <<>>
    BY <1>3
  <2>2. (s \o <<x>>) \o <<>> = Append(s, x)
    BY <1>3
  <2> QED BY <2>1, <2>2
<1>7. x \notin Abstract!Listed
  BY <1>1, UnlistedElement
<1>8. Abstract!Change(l, Append([k \in Lists |-> Members(k)][l], x))
  BY <1>5, <1>6, ContentIs DEF s
<1> QED BY <1>1, <1>4, <1>7, <1>8 DEF Abstract!push_back, Abstract!Returns

(* Adding at an iterator, one element or a ring of them.                   *)
LEMMA Inserted ==
  ASSUME InRings, NEW position \in Nodes, NEW x \in Elements, insert(position, x)
  PROVE  Closed' /\ Abstract!insert(position, x)
<1>1. /\ Alone(x) /\ links' = LinkPrev(links, position, x, x) /\ UNCHANGED alive
      /\ position \in Positions /\ last' = <<"insert", position, x>>
  BY DEF insert, Links
<1>2. x \in Live /\ Chain(x) = <<x>> /\ Apart(Circle(x, After(x)), Lists)
  BY <1>1, AloneIs
<1>3. PICK l \in Lists : \E a \in 0..Len(After(l)) : position = At(l, After(l), a)
  BY <1>1, PlaceInList
<1>4. PICK a \in 0..Len(After(l)) : position = At(l, After(l), a)
  BY <1>3
<1>5. Abstract!Index(l, position) = IF a = 0 THEN Len(After(l)) + 1 ELSE a
  BY <1>4, IndexOfPlace
<1>6. Closed' /\ Abstract!Link(l, IF a = 0 THEN Len(After(l)) + 1 ELSE a, Chain(x))
  BY <1>1, <1>2, <1>4, PrevLinked
<1>7. Abstract!Index(l, position) > 0
  BY <1>5, ListRing
<1> QED BY <1>1, <1>2, <1>5, <1>6, <1>7 DEF Abstract!insert, Abstract!Returns

LEMMA RingLinkedPrev ==
  ASSUME InRings, NEW position \in Nodes, NEW x \in Elements, ElementLinkPrev(position, x)
  PROVE  Closed' /\ Abstract!LinkPrev(position, x)
<1>1. /\ Loose(x) /\ links' = LinkPrev(links, position, x, x) /\ UNCHANGED alive
      /\ position \in Positions /\ last' = <<"LinkPrev", position, x>>
  BY DEF ElementLinkPrev, Links
<1>2. x \in Live /\ Apart(Circle(x, After(x)), Lists)
  BY <1>1, LooseIs
<1>3. PICK l \in Lists : \E a \in 0..Len(After(l)) : position = At(l, After(l), a)
  BY <1>1, PlaceInList
<1>4. PICK a \in 0..Len(After(l)) : position = At(l, After(l), a)
  BY <1>3
<1>5. Abstract!Index(l, position) = IF a = 0 THEN Len(After(l)) + 1 ELSE a
  BY <1>4, IndexOfPlace
<1>6. /\ Closed' /\ Abstract!Link(l, IF a = 0 THEN Len(After(l)) + 1 ELSE a, Chain(x))
      /\ Chain(x) \in Abstract!Rings(x)
  BY <1>1, <1>2, <1>4, PrevLinked
<1>7. Abstract!Index(l, position) > 0
  BY <1>5, ListRing
<1> QED BY <1>1, <1>5, <1>6, <1>7 DEF Abstract!LinkPrev, Abstract!Returns

LEMMA RingLinkedNext ==
  ASSUME InRings, NEW position \in Nodes, NEW x \in Elements, ElementLinkNext(position, x)
  PROVE  Closed' /\ Abstract!LinkNext(position, x)
<1>1. /\ Loose(x) /\ links' = LinkNext(links, position, x, x) /\ UNCHANGED alive
      /\ position \in Positions /\ last' = <<"LinkNext", position, x>>
  BY DEF ElementLinkNext, Links
<1>2. x \in Live /\ Apart(Circle(x, After(x)), Lists)
  BY <1>1, LooseIs
<1>3. PICK l \in Lists : \E a \in 0..Len(After(l)) : position = At(l, After(l), a)
  BY <1>1, PlaceInList
<1>4. PICK a \in 0..Len(After(l)) : position = At(l, After(l), a)
  BY <1>3
<1>5. Abstract!Index(l, position) = IF a = 0 THEN Len(After(l)) + 1 ELSE a
  BY <1>4, IndexOfPlace
<1>6. /\ Closed' /\ Abstract!Link(l, a + 1, Chain(x))
      /\ Chain(x) \in Abstract!Rings(x)
  BY <1>1, <1>2, <1>4, NextLinked
<1>7. /\ Abstract!Index(l, position) > 0
      /\ (Abstract!Index(l, position) % (Len(After(l)) + 1)) + 1 = a + 1
  <2> DEFINE k == Len(After(l))
  <2>1. k \in Nat /\ a \in 0..k
    BY ListRing
  <2> HIDE DEF k
  <2>2. a # 0 => a % (k + 1) = a
    BY <2>1
  <2>3. (k + 1) % (k + 1) = 0
    BY <2>1
  <2>4. Abstract!Index(l, position) = IF a = 0 THEN k + 1 ELSE a
    BY <1>5 DEF k
  <2>5. (Abstract!Index(l, position) % (k + 1)) + 1 = a + 1
    <3>1. CASE a = 0
      BY <2>3, <2>4, <3>1
    <3>2. CASE a # 0
      BY <2>2, <2>4, <3>2
    <3> QED BY <3>1, <3>2
  <2>6. Abstract!Index(l, position) > 0
    BY <2>1, <2>4
  <2> QED BY <2>5, <2>6 DEF k
<1>8. Abstract!Link(l, (Abstract!Index(l, position)
                        % (Len([k \in Lists |-> Members(k)][l]) + 1)) + 1, Chain(x))
  BY <1>6, <1>7, ContentIs
<1> QED BY <1>1, <1>6, <1>7, <1>8 DEF Abstract!LinkNext, Abstract!Returns

-----------------------------------------------------------------------------
(* Nodes that leave a ring.                                                *)
LEMMA UnlinkStep ==
  ASSUME InRings, NEW n \in Live, NEW i \in 1..Len(After(n)),
         NEW j \in i + 1 .. Len(After(n)) + 1,
         UNCHANGED alive, links' = Unlink(links, After(n)[i], At(n, After(n), j))
  PROVE  /\ Closed' /\ After(n)' = Cut(After(n), i, j)
         /\ \A o \in Lists : o \notin Circle(n, After(n)) => After(o)' = After(o)
<1> DEFINE s == After(n)
<1>1. /\ links \in Memory /\ Live \in SUBSET Nodes /\ Mirror(links, Live) /\ Closed
      /\ Lists \subseteq Live /\ alive \subseteq Elements
  BY LiveNodes
<1>2. /\ Unrolled(links, Live, n, s)
      /\ \A a \in 0..Len(s) : links.prev[At(n, s, a + 1)] = At(n, s, a)
  BY RingSides
<1>3. /\ i - 1 \in 0..Len(s) /\ j - 1 \in 0..Len(s) /\ (i - 1) + 1 = i /\ (j - 1) + 1 = j
      /\ i \in Int /\ j \in Int
  <2>1. Len(s) \in Nat
    BY <1>2 DEF Unrolled
  <2>2. i \in 1..Len(s) /\ j \in i + 1 .. Len(s) + 1
    OBVIOUS
  <2> HIDE DEF s
  <2> QED BY <2>1, <2>2
<1>4. /\ s[i] = At(n, s, i) /\ s[i] \in Live /\ At(n, s, j) \in Live
      /\ links.prev[s[i]] = At(n, s, i - 1) /\ links.prev[At(n, s, j)] = At(n, s, j - 1)
  <2>1. s[i] = At(n, s, i) /\ \A a \in Int : At(n, s, a) \in Live
    BY <1>2 DEF Unrolled
  <2>2. links.prev[At(n, s, i)] = At(n, s, i - 1) /\ links.prev[At(n, s, j)] = At(n, s, j - 1)
    BY <1>2, <1>3
  <2> QED BY <1>3, <2>1, <2>2
<1>5. Swapped(links, links', Live, At(n, s, i - 1), At(n, s, j - 1))
  <2> HIDE DEF s
  <2>1. Swapped(links, Unlink(links, s[i], At(n, s, j)), Live,
                links.prev[s[i]], links.prev[At(n, s, j)])
    BY <1>1, <1>4, UnlinkMirrors
  <2> QED BY <1>4, <2>1 DEF s
<1>6. /\ Closed' /\ After(n)' = Cut(After(n), i, j)
      /\ \A o \in Live : o \notin Circle(n, After(n)) => After(o)' = After(o)
  BY <1>1, <1>5, SplitStep
<1> QED BY <1>1, <1>6

(* In a list this is what the abstract module says.                        *)
LEMMA UnlinkListed ==
  ASSUME InRings, NEW l \in Lists, NEW i \in 1..Len(After(l)),
         NEW j \in i + 1 .. Len(After(l)) + 1,
         UNCHANGED alive, links' = Unlink(links, After(l)[i], At(l, After(l), j))
  PROVE  Closed' /\ Abstract!Change(l, Cut(After(l), i, j))
<1>1. l \in Live
  BY LiveNodes
<1>2. /\ Closed' /\ After(l)' = Cut(After(l), i, j)
      /\ \A o \in Lists : o \notin Circle(l, After(l)) => After(o)' = After(o)
  BY <1>1, UnlinkStep
<1>3. ASSUME NEW o \in Lists, o # l PROVE o \notin Circle(l, After(l))
  <2>1. Unrolled(links, Live, l, After(l)) /\ Whole(links, Live, l, After(l))
    BY <1>1, RingSides, LiveNodes, RingsAfter
  <2>2. At(l, After(l), 0) = l /\ 0 \in 0..Len(After(l))
    BY <2>1 DEF Unrolled
  <2>3. ASSUME NEW a \in 0..Len(After(l)), o = At(l, After(l), a) PROVE FALSE
    BY <1>3, <2>1, <2>2, <2>3 DEF Whole, OneRoot
  <2> QED BY <2>3 DEF Circle
<1> QED BY <1>2, <1>3, ChangeStep

(* In a ring without a root no list changes.                               *)
LEMMA UnlinkUnlisted ==
  ASSUME InRings, NEW n \in Live, Apart(Circle(n, After(n)), Lists),
         NEW i \in 1..Len(After(n)), NEW j \in i + 1 .. Len(After(n)) + 1,
         UNCHANGED alive, links' = Unlink(links, After(n)[i], At(n, After(n), j))
  PROVE  Closed' /\ UNCHANGED [l \in Lists |-> Members(l)]
<1>1. /\ Closed'
      /\ \A o \in Lists : o \notin Circle(n, After(n)) => After(o)' = After(o)
  BY UnlinkStep
<1>2. \A o \in Lists : After(o)' = After(o)
  BY <1>1 DEF Apart
<1> QED BY <1>1, <1>2 DEF Members

(* A node that is unlinked from itself stays where it is.                  *)
LEMMA UnlinkNothing ==
  ASSUME InRings, NEW x \in Live, UNCHANGED alive, links' = Unlink(links, x, x)
  PROVE  Closed' /\ UNCHANGED [l \in Lists |-> Members(l)]
<1>1. /\ links \in Memory /\ Live \in SUBSET Nodes /\ Mirror(links, Live)
  BY LiveNodes
<1>2. Swapped(links, links', Live, links.prev[x], links.prev[x])
  BY <1>1, UnlinkMirrors
<1>3. \A y \in Live : links'.next[y] = links.next[y]
  BY <1>2 DEF Swapped
<1> QED BY <1>3, SameNext

(* Taking one element out, at either end.                                  *)
LEMMA FrontPopped ==
  ASSUME InRings, NEW l \in Lists, UNCHANGED alive,
         links' = UnlinkOne(links.next[l]), last' = <<"pop_front", l>>
  PROVE  Closed' /\ Abstract!pop_front(l)
<1> DEFINE s == After(l)
<1>1. s \in Seq(Live) /\ Len(s) \in Nat /\ l \in Live
  BY ListRing
<1>2. CASE s = <<>>
  <2>1. links.next[l] = l
    BY <1>1, <1>2, Emptied
  <2>2. links' = Unlink(links, l, l)
    BY <2>1 DEF UnlinkOne
  <2>3. Closed' /\ UNCHANGED [k \in Lists |-> Members(k)]
    BY <1>1, <2>2, UnlinkNothing
  <2>4. [k \in Lists |-> Members(k)][l] = <<>>
    BY <1>2, ContentIs
  <2>5. Abstract!Change(l, <<>>)
    <3> DEFINE c == [k \in Lists |-> Members(k)]
    <3>1. c = [c EXCEPT ![l] = <<>>]
      <4>1. c = [k \in Lists |-> c[k]] /\ c[l] = <<>>
        BY <2>4
      <4> HIDE DEF c
      <4> QED BY <4>1
    <3>2. c' = [c EXCEPT ![l] = <<>>]
      BY <2>3, <3>1
    <3> QED BY <3>2 DEF Abstract!Change
  <2> QED BY <2>3, <2>4, <2>5 DEF Abstract!pop_front, Abstract!Returns
<1>3. CASE s # <<>>
  <2>1. 1 \in 1..Len(s) /\ 1 + 1 = 2 /\ 2 \in 2 .. Len(s) + 1 /\ 1 \in 0..Len(s)
    BY <1>1, <1>3
  <2>2. links.next[l] = s[1] /\ links.next[s[1]] = At(l, s, 2)
    <3>1. /\ Unrolled(links, Live, l, s) /\ links.next[l] = At(l, s, 1)
      BY <1>1, RingSides, Emptied
    <3> HIDE DEF s
    <3>2. /\ \A a \in 1..Len(s) : At(l, s, a) = s[a]
          /\ \A a \in 0..Len(s) : links.next[At(l, s, a)] = At(l, s, a + 1)
      BY <3>1 DEF Unrolled
    <3>3. At(l, s, 1) = s[1]
      BY <2>1, <3>2
    <3>4. links.next[At(l, s, 1)] = At(l, s, 1 + 1)
      BY <2>1, <3>2
    <3> QED BY <2>1, <3>1, <3>3, <3>4
  <2>3. links' = Unlink(links, s[1], At(l, s, 2))
    BY <2>2 DEF UnlinkOne
  <2>4. Closed' /\ Abstract!Change(l, Cut(s, 1, 2))
    BY <2>1, <2>3, UnlinkListed
  <2> HIDE DEF s
  <2>5. Cut(s, 1, 2) = Tail(s)
    <3>1. SubSeq(s, 1, 1 - 1) = <<>> /\ SubSeq(s, 2, Len(s)) = Tail(s) /\ Tail(s) \in Seq(Live)
      BY <1>1, <1>3
    <3> QED BY <3>1 DEF Cut
  <2>6. [k \in Lists |-> Members(k)][l] = s
    BY ContentIs DEF s
  <2> QED BY <1>3, <2>4, <2>5, <2>6 DEF Abstract!pop_front, Abstract!Returns
<1> QED BY <1>2, <1>3

LEMMA BackPopped ==
  ASSUME InRings, NEW l \in Lists, UNCHANGED alive,
         links' = UnlinkOne(links.prev[l]), last' = <<"pop_back", l>>
  PROVE  Closed' /\ Abstract!pop_back(l)
<1> DEFINE s == After(l)
<1>1. s \in Seq(Live) /\ Len(s) \in Nat /\ l \in Live
  BY ListRing
<1>2. CASE s = <<>>
  <2>1. links.prev[l] = l /\ links.next[l] = l
    <3>1. links.prev[l] = At(l, s, Len(s)) /\ links.next[l] = l
      BY <1>1, <1>2, Emptied
    <3> HIDE DEF s
    <3> QED BY <1>2, <3>1 DEF At
  <2>2. links' = Unlink(links, l, l)
    BY <2>1 DEF UnlinkOne
  <2>3. Closed' /\ UNCHANGED [k \in Lists |-> Members(k)]
    BY <1>1, <2>2, UnlinkNothing
  <2>4. [k \in Lists |-> Members(k)][l] = <<>>
    BY <1>2, ContentIs
  <2>5. Abstract!Change(l, <<>>)
    <3> DEFINE c == [k \in Lists |-> Members(k)]
    <3>1. c = [c EXCEPT ![l] = <<>>]
      <4>1. c = [k \in Lists |-> c[k]] /\ c[l] = <<>>
        BY <2>4
      <4> HIDE DEF c
      <4> QED BY <4>1
    <3>2. c' = [c EXCEPT ![l] = <<>>]
      BY <2>3, <3>1
    <3> QED BY <3>2 DEF Abstract!Change
  <2> QED BY <2>3, <2>4, <2>5 DEF Abstract!pop_back, Abstract!Returns
<1>3. CASE s # <<>>
  <2>1. Len(s) \in 1..Len(s) /\ Len(s) + 1 \in Len(s) + 1 .. Len(s) + 1 /\ Len(s) \in 0..Len(s)
    BY <1>1, <1>3
  <2>2. links.prev[l] = s[Len(s)] /\ links.next[s[Len(s)]] = At(l, s, Len(s) + 1)
    <3>1. /\ Unrolled(links, Live, l, s) /\ links.prev[l] = At(l, s, Len(s))
      BY <1>1, RingSides, Emptied
    <3> HIDE DEF s
    <3>2. /\ \A a \in 1..Len(s) : At(l, s, a) = s[a]
          /\ \A a \in 0..Len(s) : links.next[At(l, s, a)] = At(l, s, a + 1)
      BY <3>1 DEF Unrolled
    <3>3. At(l, s, Len(s)) = s[Len(s)]
      BY <2>1, <3>2
    <3>4. links.next[At(l, s, Len(s))] = At(l, s, Len(s) + 1)
      BY <2>1, <3>2
    <3> QED BY <3>1, <3>3, <3>4
  <2>3. links' = Unlink(links, s[Len(s)], At(l, s, Len(s) + 1))
    BY <2>2 DEF UnlinkOne
  <2>4. Closed' /\ Abstract!Change(l, Cut(s, Len(s), Len(s) + 1))
    BY <2>1, <2>3, UnlinkListed
  <2> HIDE DEF s
  <2>5. Cut(s, Len(s), Len(s) + 1) = Abstract!Front(s)
    <3>1. /\ SubSeq(s, 1, Len(s) - 1) \in Seq(Live) /\ SubSeq(s, Len(s) + 1, Len(s)) = <<>>
      BY <1>1, <1>3
    <3>2. SubSeq(s, 1, Len(s) - 1) \o <<>> = SubSeq(s, 1, Len(s) - 1)
      BY <3>1
    <3> QED BY <3>1, <3>2 DEF Cut, Abstract!Front
  <2>6. [k \in Lists |-> Members(k)][l] = s
    BY ContentIs DEF s
  <2> QED BY <1>3, <2>4, <2>5, <2>6 DEF Abstract!pop_back, Abstract!Returns
<1> QED BY <1>2, <1>3

(* Taking out a range of a list.                                           *)
LEMMA Unlinked ==
  ASSUME InRings, NEW l \in Lists, NEW i \in 1..Len(After(l)),
         NEW j \in i + 1 .. Len(After(l)) + 1, UNCHANGED alive,
         links' = Unlink(links, After(l)[i], At(l, After(l), j)),
         last' = <<"Unlink", After(l)[i], At(l, After(l), j)>>
  PROVE  Closed' /\ Abstract!Unlink(After(l)[i], At(l, After(l), j))
<1> DEFINE s == After(l)
<1>1. Closed' /\ Abstract!Change(l, Cut(s, i, j))
  BY UnlinkListed
<1>2. /\ Len(s) \in Nat /\ At(l, s, 0) = l /\ At(l, s, Len(s) + 1) = l /\ 0 \in 0..Len(s)
      /\ \A a \in 1..Len(s) : At(l, s, a) = s[a]
  BY ListRing
<1>3. Abstract!Index(l, s[i]) = i
  <2>1. i \in 0..Len(s) /\ i # 0 /\ At(l, s, i) = s[i]
    <3>1. i \in 1..Len(s)
      OBVIOUS
    <3> HIDE DEF s
    <3> QED BY <1>2, <3>1
  <2> QED BY <2>1, IndexOfPlace
<1>4. Abstract!Index(l, At(l, s, j)) = j
  <2>1. j \in i + 1 .. Len(s) + 1 /\ i \in 1..Len(s)
    OBVIOUS
  <2>2. CASE j = Len(s) + 1
    <3>1. Abstract!Index(l, At(l, s, 0)) = Len(s) + 1
      BY <1>2, IndexOfPlace
    <3> QED BY <1>2, <2>2, <3>1
  <2>3. CASE j # Len(s) + 1
    <3>1. j \in 0..Len(s) /\ j # 0
      <4> HIDE DEF s
      <4> QED BY <1>2, <2>1, <2>3
    <3> QED BY <3>1, IndexOfPlace
  <2> QED BY <2>2, <2>3
<1>5. 0 < i /\ i < j
  <2>1. j \in i + 1 .. Len(s) + 1 /\ i \in 1..Len(s)
    OBVIOUS
  <2> HIDE DEF s
  <2> QED BY <1>2, <2>1
<1>6. Abstract!Change(l, SubSeq([k \in Lists |-> Members(k)][l], 1, i - 1)
                         \o SubSeq([k \in Lists |-> Members(k)][l], j,
                                   Len([k \in Lists |-> Members(k)][l])))
  BY <1>1, ContentIs DEF Cut
<1> QED BY <1>1, <1>3, <1>4, <1>5, <1>6 DEF Abstract!Unlink, Abstract!Returns

(* The nodes from first to before past, which is i nodes further, leave    *)
(* their list, or the ring they are in without one.                        *)
LEMMA RangeUnlinked ==
  ASSUME InRings, NEW first \in alive, NEW past \in Live, NEW i \in 1..Len(After(first)),
         After(first)[i] = past, ToSet(SubSeq(After(first), 1, i - 1)) \cap Lists = {},
         UNCHANGED alive, links' = Unlink(links, first, past),
         last' = <<"Unlink", first, past>>
  PROVE  Closed' /\ Abstract!Unlink(first, past)
<1>1. first \in Live /\ first \notin Lists /\ Live \in SUBSET Nodes /\ Closed
  BY LiveNodes, NamesApart
<1>2. /\ Unrolled(links, Live, first, After(first)) /\ Unrolled(links, Live, past, After(past))
      /\ Whole(links, Live, first, After(first)) /\ Whole(links, Live, past, After(past))
  BY <1>1, RingSides, LiveNodes, RingsAfter
<1>3. /\ i \in 0..Len(After(first)) /\ 0 \in 0..Len(After(first)) /\ i # 0
      /\ At(first, After(first), i) = past /\ At(first, After(first), 0) = first
  BY <1>2 DEF Unrolled
<1>4. past # first
  BY <1>2, <1>3 DEF Unrolled
<1>5. CASE Apart(Circle(first, After(first)), Lists)
  <2> DEFINE t == After(past)
  <2>1. past \in Circle(first, After(first)) /\ past \in Circle(past, t)
    BY <1>2, <1>3, OnCircle DEF Unrolled
  <2>2. Circle(first, After(first)) = Circle(past, t) /\ first \in Circle(first, After(first))
    BY <1>1, <1>2, <2>1, CirclesApart, OnCircle
  <2>3. PICK a \in 0..Len(t) : first = At(past, t, a)
    BY <2>2 DEF Circle
  <2>4. /\ Len(t) \in Nat /\ At(past, t, 0) = past /\ At(past, t, Len(t) + 1) = past
        /\ \A b \in 1..Len(t) : At(past, t, b) = t[b]
    BY <1>2 DEF Unrolled
  <2>5. a \in 1..Len(t) /\ Len(t) + 1 \in a + 1 .. Len(t) + 1
    <3>1. a # 0
      BY <1>4, <2>3, <2>4
    <3> HIDE DEF t
    <3> QED BY <2>3, <2>4, <3>1
  <2>6. links' = Unlink(links, t[a], At(past, t, Len(t) + 1))
    BY <2>3, <2>4, <2>5
  <2>7. Apart(Circle(past, t), Lists)
    BY <1>5, <2>2
  <2>8. Closed' /\ UNCHANGED [l \in Lists |-> Members(l)]
    BY <2>5, <2>6, <2>7, UnlinkUnlisted
  <2>9. first \notin Abstract!Listed
    BY <1>1, <1>5, <2>2, RingIsUnlisted
  <2> QED BY <2>8, <2>9 DEF Abstract!Unlink, Abstract!Returns
<1>6. CASE ~Apart(Circle(first, After(first)), Lists)
  <2>1. PICK l \in Lists : \E a \in 0..Len(After(l)) : first = At(l, After(l), a)
    BY <1>1, <1>6, RootOfRing
  <2>2. PICK a \in 0..Len(After(l)) : first = At(l, After(l), a)
    BY <2>1
  <2> DEFINE s == After(l)
             u == After(first)
  <2>3. /\ l \in Live /\ Len(s) \in Nat /\ At(l, s, 0) = l /\ At(l, s, Len(s) + 1) = l
        /\ \A b \in 1..Len(s) : At(l, s, b) = s[b]
    BY ListRing
  <2>4. a \in 1..Len(s) /\ first = s[a]
    <3>1. a # 0
      BY <1>1, <2>2, <2>3
    <3>2. a \in 0..Len(s)
      OBVIOUS
    <3>3. a \in 1..Len(s)
      <4> HIDE DEF s
      <4> QED BY <2>3, <3>1, <3>2
    <3> QED BY <2>2, <2>3, <3>3
  <2>5. u = Turned(l, s, a)
    <3>1. Whole(links, Live, l, s)
      BY <2>3, LiveNodes, RingsAfter
    <3>2. Whole(links, Live, s[a], Turned(l, s, a))
      <4> HIDE DEF s
      <4> QED BY <1>1, <2>3, <2>4, <3>1, RingTurned
    <3>3. Whole(links, Live, first, Turned(l, s, a))
      BY <2>4, <3>2
    <3> HIDE DEF s
    <3> QED BY <1>1, <3>3, LiveNodes, RingAfter DEF AfterIsRing
  <2> HIDE DEF s
  <2>6. /\ Len(u) = Len(s) /\ u \in Seq(Live) /\ i \in 1..Len(s)
        /\ \A b \in 1..Len(s) :
             u[b] = IF a + b <= Len(s) THEN s[a + b] ELSE At(l, s, a + b - Len(s) - 1)
    <3>1. u \in Seq(Live) /\ i \in 1..Len(u)
      BY <1>2 DEF Unrolled
    <3>2. Len(u) = Len(s)
      <4> HIDE DEF u
      <4>1. DOMAIN u = 1..Len(s) /\ DOMAIN u = 1..Len(u) /\ Len(u) \in Nat
        BY <2>5, <3>1 DEF Turned
      <4> QED BY <2>3, <4>1
    <3> QED BY <2>5, <3>1, <3>2 DEF Turned
  <2>7. a + i <= Len(s) + 1
    <3> SUFFICES ASSUME a + i > Len(s) + 1 PROVE FALSE
      BY <2>3, <2>4, <2>6
    <3> DEFINE c == Len(s) + 1 - a
    <3>1. c \in 1 .. i - 1 /\ c \in 1..Len(s) /\ a + c = Len(s) + 1 /\ a + c - Len(s) - 1 = 0
      BY <2>3, <2>4, <2>6
    <3> HIDE DEF c
    <3>2. u[c] = l
      BY <2>3, <2>6, <3>1
    <3> HIDE DEF u
    <3>3. i - 1 \in 0..Len(u)
      BY <2>3, <2>6
    <3>4. SubSeq(u, 1, i - 1)[c] = l /\ c \in DOMAIN SubSeq(u, 1, i - 1)
      BY <2>6, <3>1, <3>2, <3>3
    <3>5. l \in ToSet(SubSeq(u, 1, i - 1))
      BY <3>4 DEF ToSet
    <3> QED BY <3>5 DEF u
  <2>8. past = At(l, s, a + i)
    <3>1. past = u[i]
      OBVIOUS
    <3> HIDE DEF u
    <3>2. Len(s) \in Nat /\ a \in 1..Len(s) /\ i \in 1..Len(s)
      BY <2>3, <2>4, <2>6
    <3>3. u[i] = IF a + i <= Len(s) THEN s[a + i] ELSE At(l, s, a + i - Len(s) - 1)
      BY <2>6, <3>2
    <3>4. CASE a + i <= Len(s)
      <4>1. a + i \in 1..Len(s)
        BY <3>2, <3>4
      <4> QED BY <2>3, <3>1, <3>3, <3>4, <4>1
    <3>5. CASE a + i = Len(s) + 1
      <4>1. a + i - Len(s) - 1 = 0 /\ ~(a + i <= Len(s))
        BY <3>2, <3>5
      <4> QED BY <2>3, <3>1, <3>3, <3>5, <4>1
    <3>6. a + i <= Len(s) \/ a + i = Len(s) + 1
      BY <2>7, <3>2
    <3> QED BY <3>4, <3>5, <3>6
  <2>9. /\ a \in 1..Len(After(l)) /\ a + i \in a + 1 .. Len(After(l)) + 1
        /\ links' = Unlink(links, After(l)[a], At(l, After(l), a + i))
        /\ last' = <<"Unlink", After(l)[a], At(l, After(l), a + i)>>
    <3>1. a + i \in a + 1 .. Len(s) + 1
      BY <2>3, <2>4, <2>6, <2>7
    <3> QED BY <2>4, <2>8, <3>1 DEF s
  <2>10. Closed' /\ Abstract!Unlink(After(l)[a], At(l, After(l), a + i))
    BY <2>9, Unlinked
  <2> QED BY <2>4, <2>8, <2>10 DEF s
<1> QED BY <1>5, <1>6

LEMMA ElementRangeUnlinked ==
  ASSUME InRings, NEW first \in Elements, NEW past \in Nodes, ElementUnlinkRange(first, past)
  PROVE  Closed' /\ Abstract!Unlink(first, past)
<1>1. /\ first \in alive /\ past \in Live /\ links' = Unlink(links, first, past)
      /\ UNCHANGED alive /\ last' = <<"Unlink", first, past>>
  BY DEF ElementUnlinkRange, Links
<1>2. PICK i \in DOMAIN After(first) :
        /\ After(first)[i] = past
        /\ ToSet(SubSeq(After(first), 1, i - 1)) \cap Lists = {}
  BY DEF ElementUnlinkRange
<1>3. i \in 1..Len(After(first))
  <2>1. Unrolled(links, Live, first, After(first))
    BY <1>1, RingSides, LiveNodes
  <2> QED BY <2>1 DEF Unrolled
<1> QED BY <1>1, <1>2, <1>3, RangeUnlinked

LEMMA ElementUnlinked ==
  ASSUME InRings, NEW x \in Elements, ElementUnlink(x)
  PROVE  Closed' /\ Abstract!Unlink(x, links.next[x]) /\ links.next[x] \in Elements \cup Lists
<1>1. /\ x \in alive /\ links' = Unlink(links, x, links.next[x])
      /\ UNCHANGED alive /\ last' = <<"Unlink", x, links.next[x]>>
  BY DEF ElementUnlink, UnlinkOne, Links
<1>2. x \in Live /\ links.next[x] \in Live /\ Live \subseteq Elements \cup Lists
  BY <1>1, LiveNodes DEF Mirror, Nodes
<1>3. CASE links.next[x] = x
  <2>1. Closed' /\ UNCHANGED [l \in Lists |-> Members(l)]
    BY <1>1, <1>2, <1>3, UnlinkNothing
  <2>2. x \notin Abstract!Listed
    BY <1>1, <1>3, UnlistedElement DEF Alone, HasNext
  <2> QED BY <1>1, <1>2, <2>1, <2>2 DEF Abstract!Unlink, Abstract!Returns
<1>4. CASE links.next[x] # x
  <2> DEFINE u == After(x)
  <2>1. /\ Unrolled(links, Live, x, u) /\ links.next[x] = At(x, u, 1)
        /\ (Len(u) = 0 <=> links.next[x] = x)
    BY <1>2, RingSides, Emptied
  <2> HIDE DEF u
  <2>2. u \in Seq(Live) /\ Len(u) \in Nat /\ \A a \in 1..Len(u) : At(x, u, a) = u[a]
    BY <2>1 DEF Unrolled
  <2>3. 1 \in 1..Len(u) /\ u[1] = links.next[x]
    BY <1>4, <2>1, <2>2
  <2>4. ToSet(SubSeq(u, 1, 1 - 1)) \cap Lists = {}
    <3>1. SubSeq(u, 1, 1 - 1) = <<>>
      BY <2>2
    <3> QED BY <3>1 DEF ToSet
  <2>5. Closed' /\ Abstract!Unlink(x, links.next[x])
    BY <1>1, <1>2, <2>3, <2>4, RangeUnlinked DEF u
  <2> QED BY <1>2, <2>5
<1> QED BY <1>3, <1>4

-----------------------------------------------------------------------------
(* A constructor changes no ring.                                          *)
LEMMA Constructed ==
  ASSUME InRings, NEW x \in Elements, IntrusiveListElementCtor(x)
  PROVE  Closed' /\ UNCHANGED [l \in Lists |-> Members(l)]
<1>1. /\ x \notin Live /\ Live' = Live \cup {x}
      /\ alive \subseteq Elements /\ alive' \subseteq Elements
      /\ links \in Memory /\ Live \in SUBSET Nodes /\ Closed
  BY LiveNodes, NamesApart DEF IntrusiveListElementCtor, Live
<1>2. links'.next[x] = x /\ \A y \in Live : links'.next[y] = links.next[y]
  <2> DEFINE m == SetPrev(links, x, x)
  <2>1. x \in Nodes
    BY DEF Nodes
  <2>2. m \in Memory /\ m.next = links.next
    BY <1>1, <2>1, PrevStored
  <2> HIDE DEF m
  <2>3. SetNext(m, x, x).next = [m.next EXCEPT ![x] = x]
    BY <2>1, <2>2, NextStored
  <2>4. links' = SetNext(m, x, x)
    BY DEF IntrusiveListElementCtor, Construct, m
  <2> QED BY <1>1, <2>1, <2>2, <2>3, <2>4 DEF Memory
<1>3. ASSUME NEW n \in Live PROVE Whole(links', Live', n, After(n))
  <2> DEFINE s == After(n)
             w == links'
  <2>1. Whole(links, Live, n, s)
    BY <1>1, RingsAfter
  <2> HIDE DEF s, w
  <2>2. \A y \in Circle(n, s) : y \in Live
    BY <2>1, RingFromNode
  <2>3. \A y \in Circle(n, s) : w.next[y] = links.next[y]
    BY <1>2, <2>2 DEF w
  <2>4. Whole(w, Live, n, s)
    BY <2>1, <2>3, RingUntouched
  <2>5. s \in Seq(Live \cup {x})
    BY <2>4 DEF Whole
  <2> QED BY <1>1, <2>4, <2>5 DEF Whole, s, w
<1>4. Whole(links', Live', x, <<>>)
  <2>1. /\ <<>> \in Seq(Live') /\ Len(<<>>) = 0 /\ 0..0 = {0}
        /\ At(x, <<>>, 0) = x /\ At(x, <<>>, 1) = x
    BY DEF At
  <2> QED BY <1>2, <2>1 DEF Whole, Ring, OneRoot
<1>5. Closed'
  BY <1>1, <1>3, <1>4 DEF Closed
<1>6. \A l \in Lists : After(l)' = After(l)
  <2>1. \A l \in Lists : l \in Live /\ l \in Live'
    BY <1>1 DEF Live
  <2> QED BY <1>1, <1>3, <2>1, RingAfterLater DEF AfterIsRing
<1> QED BY <1>5, <1>6 DEF Members

(* Calls that only ask.                                                    *)
LEMMA Asked ==
  ASSUME InRings, NEW call, Query(call)
  PROVE  Closed' /\ Abstract!Query(call)
<1>1. links' = links /\ UNCHANGED alive /\ last' = call
  BY DEF Query, Links
<1>2. Closed' /\ UNCHANGED [l \in Lists |-> Members(l)]
  BY <1>1, SameNext
<1> QED BY <1>1, <1>2 DEF Abstract!Query, Abstract!Returns

(* What is asked of a list.                                                *)
LEMMA EmptinessAsked ==
  ASSUME InRings, NEW l \in Lists, Emptiness(l)
  PROVE  Closed' /\ Abstract!Queries(l)
<1>1. empty(l) = (After(l) = <<>>)
  <2>1. After(l) = <<>> <=> links.next[l] = l
    BY ListRing, Emptied
  <2> QED BY <2>1 DEF empty, HasNext
<1>2. Closed' /\ Abstract!Query(<<"empty", l, empty(l)>>)
  BY Asked DEF Emptiness
<1>3. Abstract!Query(<<"empty", l, [k \in Lists |-> Members(k)][l] = <<>> >>)
  BY <1>1, <1>2, ContentIs
<1> QED BY <1>2, <1>3 DEF Abstract!Queries

LEMMA BeginAsked ==
  ASSUME InRings, NEW l \in Lists, Begin(l)
  PROVE  Closed' /\ Abstract!Queries(l)
<1>1. begin(l) = Abstract!At(l, 1)
  BY ListRing, Emptied, PlaceIsPlace DEF begin
<1>2. Closed' /\ Abstract!Query(<<"begin", l, Abstract!At(l, 1)>>)
  BY <1>1, Asked DEF Begin
<1> QED BY <1>2 DEF Abstract!Queries

LEMMA EndsAsked ==
  ASSUME InRings, NEW l \in Lists, front(l) \/ back(l)
  PROVE  Closed' /\ Abstract!Queries(l)
<1> DEFINE s == After(l)
<1>1. links.next[l] # l
  BY DEF front, back, empty, HasNext
<1>2. /\ l \in Live /\ s \in Seq(Live) /\ Len(s) \in Nat
      /\ \A a \in 1..Len(s) : At(l, s, a) = s[a]
  BY ListRing
<1>3. /\ s # <<>> /\ Len(s) # 0
      /\ links.next[l] = At(l, s, 1) /\ links.prev[l] = At(l, s, Len(s))
  BY <1>1, <1>2, Emptied
<1> HIDE DEF s
<1>4. links.next[l] = Head(s) /\ links.prev[l] = Abstract!Last(s)
  <2>1. 1 \in 1..Len(s) /\ Len(s) \in 1..Len(s)
    BY <1>2, <1>3
  <2> QED BY <1>2, <1>3, <2>1 DEF Abstract!Last
<1>5. [k \in Lists |-> Members(k)][l] = s
  BY ContentIs DEF s
<1>6. CASE front(l)
  <2>1. Closed' /\ Abstract!Query(<<"front", l, Head(s)>>)
    BY <1>4, <1>6, Asked DEF front
  <2> QED BY <1>3, <1>5, <2>1 DEF Abstract!Queries
<1>7. CASE back(l)
  <2>1. Closed' /\ Abstract!Query(<<"back", l, Abstract!Last(s)>>)
    BY <1>4, <1>7, Asked DEF back
  <2> QED BY <1>3, <1>5, <2>1 DEF Abstract!Queries
<1> QED BY <1>6, <1>7

(* Moving an iterator.                                                     *)
LEMMA MovedForward ==
  ASSUME InRings, NEW position \in Nodes, Forward(position)
  PROVE  Closed' /\ \E l \in Lists : Abstract!Queries(l)
<1>1. /\ position \in Positions /\ position \notin Lists
      /\ Query(<<"++", position, links.next[position]>>)
  BY DEF Forward, increment
<1>2. PICK l \in Lists : \E a \in 0..Len(After(l)) : position = At(l, After(l), a)
  BY <1>1, PlaceInList
<1>3. PICK a \in 0..Len(After(l)) : position = At(l, After(l), a)
  BY <1>2
<1> DEFINE s == After(l)
<1>4. l \in Live /\ Len(s) \in Nat /\ At(l, s, 0) = l
  BY ListRing
<1>5. links.next[position] = At(l, s, a + 1)
  <2>1. Unrolled(links, Live, l, s)
    BY <1>4, RingSides
  <2> QED BY <1>3, <2>1 DEF Unrolled
<1>6. a \in 1..Len(s) /\ a \in Int /\ a + 1 \in Int
  <2>1. a \in 0..Len(s) /\ a # 0
    BY <1>1, <1>3, <1>4
  <2> HIDE DEF s
  <2> QED BY <1>4, <2>1
<1>7. Abstract!At(l, a) = position /\ Abstract!At(l, a + 1) = links.next[position]
  BY <1>3, <1>5, <1>6, PlaceIsPlace
<1>8. Closed' /\ Abstract!Query(<<"++", Abstract!At(l, a), Abstract!At(l, a + 1)>>)
  BY <1>1, <1>7, Asked
<1>9. Len([k \in Lists |-> Members(k)][l]) = Len(s)
  BY ContentIs
<1> QED BY <1>6, <1>8, <1>9 DEF Abstract!Queries

LEMMA MovedBackward ==
  ASSUME InRings, NEW position \in Nodes, Backward(position)
  PROVE  Closed' /\ \E l \in Lists : Abstract!Queries(l)
<1>1. /\ position \in Positions /\ \A l \in Lists : position # links.next[l]
      /\ Query(<<"--", position, links.prev[position]>>)
  BY DEF Backward, decrement, begin
<1>2. PICK l \in Lists : \E a \in 0..Len(After(l)) : position = At(l, After(l), a)
  BY <1>1, PlaceInList
<1>3. PICK a \in 0..Len(After(l)) : position = At(l, After(l), a)
  BY <1>2
<1> DEFINE s == After(l)
           i == IF a = 0 THEN Len(s) ELSE a - 1
<1>4. /\ l \in Live /\ Len(s) \in Nat /\ At(l, s, 0) = l /\ At(l, s, Len(s) + 1) = l
      /\ links.next[l] = At(l, s, 1) /\ a \in 0..Len(s)
  BY ListRing, Emptied
<1>5. \A b \in 0..Len(s) : links.prev[At(l, s, b + 1)] = At(l, s, b)
  BY <1>4, RingSides
<1> HIDE DEF s
<1>6. a # 1 /\ (a = 0 => Len(s) # 0)
  <2>1. position # At(l, s, 1) /\ position = At(l, s, a)
    BY <1>1, <1>3, <1>4 DEF s
  <2> QED BY <1>4, <2>1
<1>7. i \in 1..Len(s) /\ i \in 0..Len(s) /\ i \in Int /\ i + 1 \in Int
      /\ i + 1 = IF a = 0 THEN Len(s) + 1 ELSE a
  BY <1>4, <1>6
<1> HIDE DEF i
<1>8. position = At(l, s, i + 1)
  BY <1>3, <1>4, <1>7 DEF s
<1>9. links.prev[position] = At(l, s, i)
  BY <1>5, <1>7, <1>8
<1>10. Abstract!At(l, i + 1) = position /\ Abstract!At(l, i) = links.prev[position]
  BY <1>7, <1>8, <1>9, PlaceIsPlace DEF s
<1>11. Closed' /\ Abstract!Query(<<"--", Abstract!At(l, i + 1), Abstract!At(l, i)>>)
  BY <1>1, <1>10, Asked
<1>12. Len([k \in Lists |-> Members(k)][l]) = Len(s)
  BY ContentIs DEF s
<1> QED BY <1>7, <1>11, <1>12 DEF Abstract!Queries

-----------------------------------------------------------------------------
(* 6. THE REFINEMENT                                                       *)

(* The state of the abstract module.                                       *)
AbstractVars == <<[l \in Lists |-> Members(l)], last>>

(* The loop of size has counted the elements before the one it stands on.  *)
Counting ==
  loop.what = "size" =>
    /\ loop.result \in 0..Len(After(loop.list))
    /\ loop.temp = At(loop.list, After(loop.list), loop.result + 1)

(* The inductive invariant of the refinement.                              *)
ListInv == IInv /\ Closed /\ Counting

(* Without elements all lists are empty.                                   *)
LEMMA InitListInv == Init => ListInv /\ Abstract!OrderedInit
<1> SUFFICES ASSUME Init PROVE ListInv /\ Abstract!OrderedInit
  OBVIOUS
<1>1. IInv
  BY InitIInv
<1>2. Live = Lists /\ alive \subseteq Elements
  BY DEF Init, Live
<1>3. \A l \in Lists : links.next[l] = l
  BY DEF Init, Nodes
<1>4. ASSUME NEW l \in Lists PROVE Whole(links, Live, l, <<>>)
  <2>1. /\ <<>> \in Seq(Live) /\ Len(<<>>) = 0 /\ 0..0 = {0}
        /\ At(l, <<>>, 0) = l /\ At(l, <<>>, 1) = l
    BY DEF At
  <2> QED BY <1>3, <2>1 DEF Whole, Ring, OneRoot
<1>5. Closed
  BY <1>2, <1>4 DEF Closed
<1>6. \A l \in Lists : After(l) = <<>>
  BY <1>2, <1>4, RingAfter DEF AfterIsRing
<1>7. Abstract!OrderedInit
  BY <1>6 DEF Abstract!OrderedInit, Members, Init
<1>8. Counting
  BY DEF Counting, Init, NoLoop
<1> QED BY <1>1, <1>5, <1>7, <1>8 DEF ListInv

(* Calls that are not made while a loop is under way.                      *)
LEMMA QuietCounting ==
  ASSUME Quiet, UNCHANGED loop
  PROVE  Counting'
BY DEF Quiet, NoLoop, Counting

(* size counts one element in each round, clear takes one out.             *)
LEMMA SizeCalled ==
  ASSUME InRings, NEW l \in Lists, CallSize(l)
  PROVE  Closed' /\ Counting' /\ UNCHANGED AbstractVars
<1>1. UNCHANGED <<links, alive>>
  BY DEF CallSize
<1>2. UNCHANGED last
  BY DEF CallSize
<1>3. loop' = [what |-> "size", list |-> l, temp |-> links.next[l], result |-> 0]
  BY DEF CallSize, begin
<1>4. /\ l \in Live /\ 0 \in 0..Len(After(l)) /\ links.next[l] = At(l, After(l), 1)
  BY ListRing, Emptied
<1>5. /\ Closed' /\ UNCHANGED [k \in Lists |-> Members(k)]
      /\ After(l)' = After(l)
  BY <1>1, Unmoved
<1>6. /\ loop'.list = l /\ loop'.result = 0 /\ loop'.temp = links.next[l] /\ 0 + 1 = 1
  BY <1>3
<1>7. Counting'
  <2> DEFINE s == After(l)
  <2>1. After(loop.list)' = s
    BY <1>5, <1>6
  <2> QED BY <1>4, <1>6, <2>1 DEF Counting
<1> QED BY <1>2, <1>5, <1>7 DEF AbstractVars

LEMMA SizeMoved ==
  ASSUME InRings, Counting, SizeRound
  PROVE  Closed' /\ Counting' /\ UNCHANGED AbstractVars
<1>1. UNCHANGED <<links, alive>> /\ loop.what = "size" /\ loop.temp # loop.list
  BY DEF SizeRound, end
<1>2. UNCHANGED last
  BY DEF SizeRound
<1>3. loop \in [what : {"size"}, list : Lists, temp : Nodes, result : Nat]
  BY <1>1 DEF InRings, IInv, TypeOK, Loops, NoLoop
<1> DEFINE l == loop.list
           s == After(l)
           r == loop.result
<1>4. l \in Lists /\ l \in Live /\ r \in 0..Len(s) /\ loop.temp = At(l, s, r + 1)
  BY <1>1, <1>3, LiveNodes DEF Counting
<1>5. /\ Len(s) \in Nat /\ At(l, s, Len(s) + 1) = l /\ Unrolled(links, Live, l, s)
  BY <1>4, ListRing, RingSides
<1>6. /\ loop'.list = l /\ loop'.result = r + 1
      /\ loop'.temp = links.next[loop.temp] /\ loop'.what = "size"
  BY <1>3 DEF SizeRound, increment
<1>7. /\ Closed' /\ UNCHANGED [k \in Lists |-> Members(k)]
      /\ \A k \in Lists : After(k)' = After(k)
  BY <1>1, Unmoved
<1>8. After(loop.list)' = s
  <2>1. \A k \in Lists : k = loop'.list => After(loop.list)' = After(k)'
    OBVIOUS
  <2> QED BY <1>4, <1>6, <1>7, <2>1
<1> HIDE DEF l, s, r
<1>9. r + 1 \in 0..Len(s) /\ links.next[At(l, s, r + 1)] = At(l, s, (r + 1) + 1)
  <2>1. r # Len(s)
    BY <1>1, <1>4, <1>5 DEF l
  <2>2. r + 1 \in 0..Len(s)
    BY <1>4, <1>5, <2>1
  <2> QED BY <1>5, <2>2 DEF Unrolled
<1>10. Counting'
  <2>1. loop.result' = r + 1 /\ loop.temp' = At(l, s, (r + 1) + 1) /\ loop.list' = l
    BY <1>4, <1>6, <1>9
  <2> QED BY <1>8, <1>9, <2>1 DEF Counting
<1> QED BY <1>2, <1>7, <1>10 DEF AbstractVars

LEMMA SizeReturned ==
  ASSUME InRings, Counting, SizeReturns
  PROVE  Closed' /\ \E l \in Lists : Abstract!Queries(l)
<1>1. UNCHANGED <<links, alive>> /\ loop.what = "size" /\ loop.temp = loop.list
  BY DEF SizeReturns, end
<1>2. last' = <<"size", loop.list, loop.result>>
  BY DEF SizeReturns
<1>3. loop \in [what : {"size"}, list : Lists, temp : Nodes, result : Nat]
  BY <1>1 DEF InRings, IInv, TypeOK, Loops, NoLoop
<1> DEFINE l == loop.list
           s == After(l)
           r == loop.result
<1>4. l \in Lists /\ r \in 0..Len(s) /\ loop.temp = At(l, s, r + 1)
  BY <1>1, <1>3 DEF Counting
<1>5. Len(s) \in Nat /\ Unrolled(links, Live, l, s)
  BY <1>4, ListRing, RingSides
<1> HIDE DEF l, s, r
<1>6. r = Len(s)
  <2> SUFFICES ASSUME r # Len(s) PROVE FALSE
    OBVIOUS
  <2>1. r + 1 \in 0..Len(s) /\ 0 \in 0..Len(s) /\ r + 1 # 0
    BY <1>4, <1>5
  <2>2. At(l, s, r + 1) = At(l, s, 0)
    BY <1>1, <1>4, <1>5 DEF Unrolled, l
  <2> QED BY <1>5, <2>1, <2>2 DEF Unrolled
<1>7. Closed' /\ UNCHANGED [k \in Lists |-> Members(k)]
  BY <1>1, Unmoved
<1>8. Abstract!Query(<<"size", l, Len([k \in Lists |-> Members(k)][l])>>)
  <2>1. [k \in Lists |-> Members(k)][l] = s
    BY <1>4, ContentIs DEF s
  <2>2. last' = <<"size", l, Len(s)>>
    BY <1>2, <1>6 DEF l, r
  <2> QED BY <1>7, <2>1, <2>2 DEF Abstract!Query, Abstract!Returns
<1> QED BY <1>4, <1>7, <1>8 DEF Abstract!Queries

LEMMA Cleared ==
  ASSUME InRings, ClearReturns
  PROVE  Closed' /\ \E l \in Lists : Abstract!clear(l)
<1>1. UNCHANGED <<links, alive>> /\ loop.what = "clear" /\ links.next[loop.list] = loop.list
  BY DEF ClearReturns, empty, HasNext
<1>2. loop.list \in Lists /\ last' = <<"clear", loop.list>>
  BY <1>1 DEF ClearReturns, InRings, IInv, TypeOK, Loops, NoLoop
<1>3. Closed' /\ UNCHANGED [k \in Lists |-> Members(k)]
  BY <1>1, Unmoved
<1>4. [k \in Lists |-> Members(k)][loop.list] = <<>>
  BY <1>1, <1>2, ContentIs, ListRing, Emptied
<1>5. Abstract!clear(loop.list)
  BY <1>2, <1>3, <1>4 DEF Abstract!clear, Abstract!Returns
<1> QED BY <1>2, <1>3, <1>5

(* Each step is one of the abstract module's, or changes nothing there.    *)
AbstractStep == Abstract!OrderedNext \/ UNCHANGED AbstractVars

LEMMA StepListInv == ListInv /\ [Next]_vars => ListInv' /\ AbstractStep
<1> SUFFICES ASSUME ListInv, [Next]_vars PROVE ListInv' /\ AbstractStep
  OBVIOUS
<1>1. InRings /\ IInv /\ Counting
  BY DEF ListInv, InRings
<1>2. IInv'
  BY <1>1, StepIInv
<1>3. Nodes = Elements \cup Lists
  BY DEF Nodes
<1>4. ASSUME NEW m, NEW call, Links(m, call) PROVE Counting'
  BY <1>4, QuietCounting DEF Links
<1>5. SUFFICES Closed' /\ Counting' /\ AbstractStep
  BY <1>2 DEF ListInv
<1>6. ASSUME NEW l \in Lists,
             \/ pop_front(l) \/ pop_back(l) \/ CallSize(l) \/ CallClear(l)
             \/ Emptiness(l) \/ Begin(l) \/ front(l) \/ back(l)
             \/ \E x \in Elements : push_front(l, x) \/ push_back(l, x)
      PROVE  Closed' /\ Counting' /\ AbstractStep
  <2>1. CASE pop_front(l)
    <3>1. Closed' /\ Abstract!pop_front(l)
      BY <1>1, <2>1, FrontPopped DEF pop_front, Links
    <3> QED BY <1>4, <2>1, <3>1 DEF AbstractStep, Abstract!OrderedNext, pop_front
  <2>2. CASE pop_back(l)
    <3>1. Closed' /\ Abstract!pop_back(l)
      BY <1>1, <2>2, BackPopped DEF pop_back, Links
    <3> QED BY <1>4, <2>2, <3>1 DEF AbstractStep, Abstract!OrderedNext, pop_back
  <2>3. CASE CallSize(l)
    BY <1>1, <2>3, SizeCalled DEF AbstractStep
  <2>4. CASE CallClear(l)
    <3>1. UNCHANGED <<links, alive>> /\ UNCHANGED last /\ loop'.what = "clear"
      BY <2>4 DEF CallClear
    <3>2. Closed' /\ UNCHANGED [k \in Lists |-> Members(k)]
      BY <1>1, <3>1, Unmoved
    <3> QED BY <3>1, <3>2 DEF AbstractStep, AbstractVars, Counting
  <2>5. CASE Emptiness(l)
    <3>1. Closed' /\ Abstract!Queries(l)
      BY <1>1, <2>5, EmptinessAsked
    <3> QED BY <1>4, <2>5, <3>1 DEF AbstractStep, Abstract!OrderedNext, Emptiness, Query
  <2>6. CASE Begin(l)
    <3>1. Closed' /\ Abstract!Queries(l)
      BY <1>1, <2>6, BeginAsked
    <3> QED BY <1>4, <2>6, <3>1 DEF AbstractStep, Abstract!OrderedNext, Begin, Query
  <2>7. CASE front(l) \/ back(l)
    <3>1. Closed' /\ Abstract!Queries(l)
      BY <1>1, <2>7, EndsAsked
    <3> QED BY <1>4, <2>7, <3>1 DEF AbstractStep, Abstract!OrderedNext, front, back, Query
  <2>8. ASSUME NEW x \in Elements, push_front(l, x) PROVE Closed' /\ Counting' /\ AbstractStep
    <3>1. Closed' /\ Abstract!push_front(l, x)
      BY <1>1, <2>8, FrontPushed
    <3> QED BY <1>4, <2>8, <3>1 DEF AbstractStep, Abstract!OrderedNext, push_front
  <2>9. ASSUME NEW x \in Elements, push_back(l, x) PROVE Closed' /\ Counting' /\ AbstractStep
    <3>1. Closed' /\ Abstract!push_back(l, x)
      BY <1>1, <2>9, BackPushed
    <3> QED BY <1>4, <2>9, <3>1 DEF AbstractStep, Abstract!OrderedNext, push_back
  <2> QED BY <1>6, <2>1, <2>2, <2>3, <2>4, <2>5, <2>6, <2>7, <2>8, <2>9
<1>7. ASSUME NEW x \in Elements, IntrusiveListElementCtor(x) \/ ElementUnlink(x)
      PROVE  Closed' /\ Counting' /\ AbstractStep
  <2>1. CASE IntrusiveListElementCtor(x)
    <3>1. Closed' /\ UNCHANGED [k \in Lists |-> Members(k)]
      BY <1>1, <2>1, Constructed
    <3>2. Counting' /\ UNCHANGED last
      BY <2>1, QuietCounting DEF IntrusiveListElementCtor
    <3> QED BY <3>1, <3>2 DEF AbstractStep, AbstractVars
  <2>2. CASE ElementUnlink(x)
    <3>1. Closed' /\ Abstract!Unlink(x, links.next[x]) /\ links.next[x] \in Elements \cup Lists
      BY <1>1, <2>2, ElementUnlinked
    <3> QED BY <1>4, <2>2, <3>1 DEF AbstractStep, Abstract!OrderedNext, ElementUnlink
  <2> QED BY <1>7, <2>1, <2>2
<1>8. ASSUME NEW position \in Nodes,
             \/ Forward(position) \/ Backward(position)
             \/ \E x \in Elements :
                  \/ insert(position, x) \/ ElementUnlinkRange(x, position)
                  \/ ElementLinkPrev(position, x) \/ ElementLinkNext(position, x)
      PROVE  Closed' /\ Counting' /\ AbstractStep
  <2>1. CASE Forward(position)
    <3>1. Closed' /\ \E l \in Lists : Abstract!Queries(l)
      BY <1>1, <2>1, MovedForward
    <3> QED BY <1>4, <2>1, <3>1 DEF AbstractStep, Abstract!OrderedNext, Forward, Query
  <2>2. CASE Backward(position)
    <3>1. Closed' /\ \E l \in Lists : Abstract!Queries(l)
      BY <1>1, <2>2, MovedBackward
    <3> QED BY <1>4, <2>2, <3>1 DEF AbstractStep, Abstract!OrderedNext, Backward, Query
  <2>3. ASSUME NEW x \in Elements, insert(position, x) PROVE Closed' /\ Counting' /\ AbstractStep
    <3>1. Closed' /\ Abstract!insert(position, x)
      BY <1>1, <2>3, Inserted
    <3> QED BY <1>3, <1>4, <2>3, <3>1 DEF AbstractStep, Abstract!OrderedNext, insert
  <2>4. ASSUME NEW x \in Elements, ElementUnlinkRange(x, position)
        PROVE  Closed' /\ Counting' /\ AbstractStep
    <3>1. Closed' /\ Abstract!Unlink(x, position)
      BY <1>1, <2>4, ElementRangeUnlinked
    <3> QED BY <1>3, <1>4, <2>4, <3>1 DEF AbstractStep, Abstract!OrderedNext, ElementUnlinkRange
  <2>5. ASSUME NEW x \in Elements, ElementLinkPrev(position, x)
        PROVE  Closed' /\ Counting' /\ AbstractStep
    <3>1. Closed' /\ Abstract!LinkPrev(position, x)
      BY <1>1, <2>5, RingLinkedPrev
    <3> QED BY <1>3, <1>4, <2>5, <3>1 DEF AbstractStep, Abstract!OrderedNext, ElementLinkPrev
  <2>6. ASSUME NEW x \in Elements, ElementLinkNext(position, x)
        PROVE  Closed' /\ Counting' /\ AbstractStep
    <3>1. Closed' /\ Abstract!LinkNext(position, x)
      BY <1>1, <2>6, RingLinkedNext
    <3> QED BY <1>3, <1>4, <2>6, <3>1 DEF AbstractStep, Abstract!OrderedNext, ElementLinkNext
  <2> QED BY <1>8, <2>1, <2>2, <2>3, <2>4, <2>5, <2>6
<1>9. CASE SizeRound
  BY <1>1, <1>9, SizeMoved DEF AbstractStep
<1>10. CASE SizeReturns
  <2>1. Closed' /\ \E l \in Lists : Abstract!Queries(l)
    BY <1>1, <1>10, SizeReturned
  <2>2. Counting'
    BY <1>10 DEF SizeReturns, NoLoop, Counting
  <2> QED BY <2>1, <2>2 DEF AbstractStep, Abstract!OrderedNext
<1>11. CASE ClearRound
  <2>1. /\ loop.list \in Lists /\ UNCHANGED alive /\ loop' = loop /\ loop.what = "clear"
        /\ links' = UnlinkOne(links.next[loop.list]) /\ last' = <<"pop_front", loop.list>>
    BY <1>1, <1>11 DEF ClearRound, IInv, TypeOK, Loops, NoLoop
  <2>2. Closed' /\ Abstract!pop_front(loop.list)
    BY <1>1, <2>1, FrontPopped
  <2>3. Counting'
    BY <2>1 DEF Counting
  <2> QED BY <2>1, <2>2, <2>3 DEF AbstractStep, Abstract!OrderedNext
<1>12. CASE ClearReturns
  <2>1. Closed' /\ \E l \in Lists : Abstract!clear(l)
    BY <1>1, <1>12, Cleared
  <2>2. Counting'
    BY <1>12 DEF ClearReturns, NoLoop, Counting
  <2> QED BY <2>1, <2>2 DEF AbstractStep, Abstract!OrderedNext
<1>13. CASE UNCHANGED vars
  <2>1. UNCHANGED <<links, alive>> /\ UNCHANGED loop /\ UNCHANGED last
    BY <1>13 DEF vars
  <2>2. /\ Closed' /\ UNCHANGED [l \in Lists |-> Members(l)]
        /\ \A l \in Lists : After(l)' = After(l)
    BY <1>1, <2>1, Unmoved
  <2>3. Counting'
    <3> SUFFICES ASSUME loop.what = "size"
                 PROVE  /\ loop.result \in 0..Len(After(loop.list)')
                        /\ loop.temp = At(loop.list, After(loop.list)', loop.result + 1)
      BY <2>1 DEF Counting
    <3>1. loop.list \in Lists
      BY <1>1 DEF IInv, TypeOK, Loops, NoLoop
    <3>2. After(loop.list)' = After(loop.list)
      BY <2>1, <2>2, <3>1
    <3> QED BY <1>1, <3>2 DEF Counting
  <2> QED BY <2>1, <2>2, <2>3 DEF AbstractStep, AbstractVars
<1> QED BY <1>6, <1>7, <1>8, <1>9, <1>10, <1>11, <1>12, <1>13 DEF Next

(* The pointers implement sequences, for any elements and lists: whatever  *)
(* calls are made, each puts its elements where its name says, leaves the  *)
(* other lists alone, and returns what a sequence would.                   *)
THEOREM PointersImplementSequences == Spec => ImplementsOrderedLists
<1>1. ListInv /\ [Next]_vars => [Abstract!OrderedNext]_<<[l \in Lists |-> Members(l)], last>>
  BY StepListInv DEF AbstractStep, AbstractVars
<1> QED BY <1>1, InitListInv, StepListInv, PTL
        DEF Spec, ImplementsOrderedLists, Abstract!OrderedSpec

=============================================================================
