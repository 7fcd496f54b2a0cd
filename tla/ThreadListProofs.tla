-------------------------- MODULE ThreadListProofs --------------------------
(***************************************************************************)
(* For any finite set of threads, any names and any number of calls: the   *)
(* lock of the list is held under the handle of the thread that is inside, *)
(* the free list links what was added and not removed, and every walk      *)
(* meets exactly that.                                                     *)
(***************************************************************************)
EXTENDS ThreadList, FiniteSetTheorems, WellFoundedInduction, TLAPS

Nodes == Threads \cup {Root}

Memory == [prev : [Nodes -> Nodes], next : [Nodes -> Nodes]]

States == {"Uninitialized", "Initialized", "Started", "Exited", "Destroyed"}

Kernels == {"none", "created", "running", "exited", "closed"}

Locals ==
  [thread : Threads \cup {NoThread}, i : Nat, link : Nodes, last_link : Nodes, seen : Seq(Threads)]

(* Where a thread is: in start-up, in the entry wrapper, in a call for an  *)
(* object, or walking the list.                                            *)
Startup == {"ctor", "context", "allocators"}
Creating == {"alias", "make", "name", "addEnter", "adding"}
Destroying == {"join", "close", "removeEnter", "removing", "removeLeave", "reset"}
OnObject == Creating \cup {"addLeave"} \cup Destroying
Walking == {"walkEnter", "begin", "walking", "walkLeave"}
Labels == Startup \cup OnObject \cup Walking \cup {"idle", "boot", "test", "exit"}

TypeOK ==
  /\ holder \in Threads \cup {InvalidHandle} /\ sleeping = {}
  /\ links \in Memory
  /\ thread_handle \in [Threads -> Threads \cup {InvalidHandle}]
  /\ state \in [Threads -> States]
  /\ thread_name \in [Threads -> Nat]
  /\ context \in [Threads -> Threads \cup {NoThread}]
  /\ kernel \in [Threads -> Kernels]
  /\ pc \in [Threads -> Labels]
  /\ local \in [Threads -> Locals]
  /\ added \in Seq(Threads)

OnList == {added[i] : i \in 1..Len(added)}

(* A thread that the kernel does not run is before its entry wrapper, and  *)
(* start-up is the main thread's.                                          *)
WhoRuns ==
  /\ kernel[MainThread] = "running"
  /\ pc[MainThread] \notin {"boot", "test", "exit"}
  /\ \A t \in Threads \ {MainThread} :
       /\ pc[t] \notin Startup
       /\ kernel[t] # "running" => pc[t] = "boot"
  /\ pc[MainThread] = "ctor" =>
       added = <<>> /\ \A t \in Threads \ {MainThread} : kernel[t] = "none"

(* Who can enter a lock has a context that names its own object, and that  *)
(* object its own handle.                                                  *)
WhoAmI ==
  \A t \in Threads :
    /\ pc[t] \notin {"ctor", "context", "boot"} => context[t] = t
    /\ pc[t] # "ctor" /\ kernel[t] # "none" => thread_handle[t] = t

(* Two calls do not overlap on an object; the main thread's has none.      *)
CallsApart ==
  \A t \in Threads :
    /\ pc[t] \in OnObject => local[t].thread \in Threads \ {MainThread}
    /\ pc[t] \notin OnObject => local[t].thread = NoThread
    /\ \A u \in Threads \ {t} :
         pc[t] \in OnObject /\ pc[u] \in OnObject => local[t].thread # local[u].thread

(* Which objects are on the list.                                          *)
WhoIsListed ==
  /\ state[MainThread] = "Uninitialized"
  /\ pc[MainThread] # "ctor" => MainThread \in OnList
  /\ \A o \in OnList :
       /\ thread_name[o] \in Names
       /\ o # MainThread => state[o] # "Uninitialized"
  /\ \A o \in Threads \ {MainThread} :
       /\ kernel[o] \in {"running", "exited"} => o \in OnList
       /\ state[o] # "Uninitialized" /\ ~InUse(o) => o \in OnList
       /\ kernel[o] = "created" => state[o] = "Initialized"

(* How far a call for an object has come.                                  *)
Progress(t, object) ==
  /\ state[object] # "Uninitialized"
  /\ pc[t] \in Creating =>
       /\ state[object] = "Initialized" /\ kernel[object] \in {"none", "created"}
       /\ object \notin OnList
  /\ pc[t] \in {"addEnter", "adding"} => thread_name[object] \in Names
  /\ pc[t] = "addLeave" => object \in OnList
  /\ pc[t] = "close" => kernel[object] = "exited"
  /\ pc[t] \in {"removeEnter", "removing", "removeLeave", "reset"} => kernel[object] = "closed"
  /\ pc[t] \in {"removeEnter", "removing"} => object \in OnList
  /\ pc[t] \in {"removeLeave", "reset"} => object \notin OnList

CallsProgress == \A t \in Threads : pc[t] \in OnObject => Progress(t, local[t].thread)

-----------------------------------------------------------------------------
(* The list as a ring: node 0 and the one after the last are the root.     *)
Node(s, i) == IF i \in 1..Len(s) THEN s[i] ELSE Root

Distinct(s) == \A i, j \in 1..Len(s) : s[i] = s[j] => i = j

NextFrom(m, s, I) == \A i \in I : m.next[Node(s, i)] = Node(s, i + 1)

PrevInto(m, s, I) == \A i \in I : m.prev[Node(s, i + 1)] = Node(s, i)

Rings(m, s) == NextFrom(m, s, 0..Len(s)) /\ PrevInto(m, s, 0..Len(s))

Alone(m, object) == m.next[object] = object /\ m.prev[object] = object

(* After the first call.i of the four stores that add an object.           *)
PartlyAdded(m, s, call) ==
  LET object == call.thread
      last == Node(s, Len(s))
  IN /\ call.i \in 0..3
     /\ NextFrom(m, s, 0 .. Len(s) - 1) /\ PrevInto(m, s, 0..Len(s))
     /\ m.next[last] = IF call.i < 3 THEN Root ELSE object
     /\ m.next[object] = IF call.i < 2 THEN object ELSE Root
     /\ m.prev[object] = IF call.i < 1 THEN object ELSE last
     /\ call.i > 0 => call.link = object

(* After the first call.i of the four stores that remove the k-th object.  *)
PartlyRemoved(m, s, call, k) ==
  LET before == Node(s, k - 1)
      behind == Node(s, k + 1)
      others == 0..Len(s) \ {k - 1, k}
  IN /\ call.i \in 0..3 /\ s[k] = call.thread
     /\ NextFrom(m, s, others) /\ PrevInto(m, s, others)
     /\ m.next[before] = IF call.i < 1 THEN call.thread ELSE behind
     /\ m.prev[behind] = IF call.i < 2 THEN call.thread ELSE before
     /\ m.next[call.thread] = IF call.i < 3 THEN behind ELSE call.thread
     /\ m.prev[call.thread] = before
     /\ call.i > 0 => call.last_link = behind /\ call.link = call.thread

ListIsLinked ==
  /\ Distinct(added)
  /\ (\A t \in Threads : pc[t] \notin {"adding", "removing"}) => Rings(links, added)
  /\ \A t \in Threads :
       /\ pc[t] \in OnObject \ {"adding", "removing"} => local[t].i = 0
       /\ pc[t] \in Creating \ {"adding"} => Alone(links, local[t].thread)
       /\ pc[t] = "adding" => PartlyAdded(links, added, local[t])
       /\ pc[t] = "removing" =>
            \E k \in 1..Len(added) : PartlyRemoved(links, added, local[t], k)

(* A walker has seen a part of the list, and looks at what comes next.     *)
WalkersKeepPlace ==
  \A t \in Threads :
    LET seen == local[t].seen
    IN /\ pc[t] \in {"walkEnter", "begin"} => seen = <<>>
       /\ pc[t] = "walking" =>
            /\ Len(seen) <= Len(added)
            /\ \A i \in 1..Len(seen) : seen[i] = added[i]
            /\ local[t].link = Node(added, Len(seen) + 1)
       /\ pc[t] = "walkLeave" => seen = added

IInv ==
  /\ TypeOK
  /\ WhoRuns
  /\ WhoAmI
  /\ CallsApart
  /\ WhoIsListed
  /\ CallsProgress
  /\ HolderIsCurrent
  /\ ListIsLinked
  /\ WalkersKeepPlace

USE NobodyAssumption, MainAssumption, ListAssumption, LimitAssumption

-----------------------------------------------------------------------------
(* What one store does to the memory, and what the constructor does.       *)
LEMMA PrevStored ==
  ASSUME NEW m \in Memory, NEW node \in Nodes, NEW value \in Nodes
  PROVE  /\ SetPrev(m, node, value) \in Memory
         /\ \A n \in Nodes : SetPrev(m, node, value).next[n] = m.next[n]
         /\ \A n \in Nodes :
              SetPrev(m, node, value).prev[n] = IF n = node THEN value ELSE m.prev[n]
BY DEF SetPrev, Memory

LEMMA NextStored ==
  ASSUME NEW m \in Memory, NEW node \in Nodes, NEW value \in Nodes
  PROVE  /\ SetNext(m, node, value) \in Memory
         /\ \A n \in Nodes : SetNext(m, node, value).prev[n] = m.prev[n]
         /\ \A n \in Nodes :
              SetNext(m, node, value).next[n] = IF n = node THEN value ELSE m.next[n]
BY DEF SetNext, Memory

LEMMA Constructed ==
  ASSUME NEW m \in Memory, NEW node \in Nodes
  PROVE  /\ Construct(m, node) \in Memory
         /\ \A n \in Nodes : Construct(m, node).prev[n] = IF n = node THEN node ELSE m.prev[n]
         /\ \A n \in Nodes : Construct(m, node).next[n] = IF n = node THEN node ELSE m.next[n]
BY DEF Construct, SetPrev, SetNext, Memory

LEMMA Pointers ==
  ASSUME NEW m \in Memory, NEW n \in Nodes
  PROVE  m.prev[n] \in Nodes /\ m.next[n] \in Nodes
BY DEF Memory

(* The list with only the main thread's object on it.                      *)
LEMMA FirstList ==
  ASSUME NEW c \in Memory
  PROVE  LET m == LinkPrev(Construct(Construct(c, Root), MainThread), Root, MainThread, MainThread)
         IN m \in Memory /\ Rings(m, <<MainThread>>)
<1> DEFINE m0 == Construct(Construct(c, Root), MainThread)
           m1 == SetPrev(m0, MainThread, m0.prev[Root])
           m2 == SetNext(m1, MainThread, Root)
           m3 == SetNext(m2, m2.prev[Root], MainThread)
           m4 == SetPrev(m3, Root, MainThread)
<1> HIDE DEF m0, m1, m2, m3, m4
<1>1. Root \in Nodes /\ MainThread \in Nodes /\ Root # MainThread
  BY DEF Nodes
<1>2. m0 \in Memory /\ m0.prev[Root] = Root /\ m0.prev[MainThread] = MainThread
  BY <1>1, Constructed DEF m0
<1>3. m1 \in Memory /\ m1.prev[Root] = Root /\ m1.prev[MainThread] = Root
  BY <1>1, <1>2, PrevStored DEF m1
<1>4. /\ m2 \in Memory /\ m2.prev[Root] = Root /\ m2.prev[MainThread] = Root
      /\ m2.next[MainThread] = Root
  BY <1>1, <1>3, NextStored DEF m2
<1>5. /\ m3 \in Memory /\ m3.prev[MainThread] = Root
      /\ m3.next[MainThread] = Root /\ m3.next[Root] = MainThread
  BY <1>1, <1>4, NextStored DEF m3
<1>6. /\ m4 \in Memory /\ m4.prev[MainThread] = Root /\ m4.prev[Root] = MainThread
      /\ m4.next[MainThread] = Root /\ m4.next[Root] = MainThread
  BY <1>1, <1>5, PrevStored DEF m4
<1>7. LinkPrev(m0, Root, MainThread, MainThread) = m4
  BY <1>2 DEF LinkPrev, LinkPrevStore, m1, m2, m3, m4
<1>8. Rings(m4, <<MainThread>>)
  BY <1>6 DEF Rings, NextFrom, PrevInto, Node
<1> QED BY <1>6, <1>7, <1>8 DEF m0

-----------------------------------------------------------------------------
(* The nodes of a ring are all different, those of a sequence that has one *)
(* more or one less element are the old ones.                              *)
LEMMA NodeType ==
  ASSUME NEW s \in Seq(Threads), NEW i \in Int
  PROVE  Node(s, i) \in Nodes
BY DEF Node, Nodes

LEMMA NodesDiffer ==
  ASSUME NEW s \in Seq(Threads), Distinct(s),
         NEW i \in 0..Len(s), NEW j \in 0..Len(s), i # j
  PROVE  Node(s, i) # Node(s, j)
BY DEF Node, Distinct

(* What Append and Without do to the nodes of a ring, and to the set of    *)
(* the elements.                                                           *)
LEMMA NodesOfAppend ==
  ASSUME NEW s \in Seq(Threads), NEW o \in Threads
  PROVE  /\ Append(s, o) \in Seq(Threads) /\ Len(Append(s, o)) = Len(s) + 1
         /\ \A i \in Int : Node(Append(s, o), i) = IF i = Len(s) + 1 THEN o ELSE Node(s, i)
BY DEF Node

LEMMA ListAppend ==
  ASSUME NEW s \in Seq(Threads), NEW o \in Threads
  PROVE  {Append(s, o)[i] : i \in 1..Len(Append(s, o))} = {s[i] : i \in 1..Len(s)} \cup {o}
<1>1. \A i \in 1..Len(s) : Append(s, o)[i] = s[i] /\ i \in 1..Len(Append(s, o))
  OBVIOUS
<1>2. Append(s, o)[Len(s) + 1] = o /\ Len(s) + 1 \in 1..Len(Append(s, o))
  OBVIOUS
<1>3. \A i \in 1..Len(Append(s, o)) : i \in 1..Len(s) \/ i = Len(s) + 1
  OBVIOUS
<1> QED BY <1>1, <1>2, <1>3

LEMMA DistinctAppend ==
  ASSUME NEW s \in Seq(Threads), NEW o \in Threads, Distinct(s),
         \A i \in 1..Len(s) : s[i] # o
  PROVE  Distinct(Append(s, o))
BY DEF Distinct

LEMMA WithoutElement ==
  ASSUME NEW s \in Seq(Threads), Distinct(s), NEW k \in 1..Len(s)
  PROVE  /\ Without(s, s[k]) \in Seq(Threads)
         /\ Len(Without(s, s[k])) = Len(s) - 1
         /\ \A i \in 1 .. Len(s) - 1 : Without(s, s[k])[i] = IF i < k THEN s[i] ELSE s[i + 1]
<1> DEFINE w == [i \in 1 .. Len(s) - 1 |-> IF i < k THEN s[i] ELSE s[i + 1]]
<1>1. (CHOOSE j \in 1..Len(s) : s[j] = s[k]) = k
  BY DEF Distinct
<1>2. Without(s, s[k]) = w
  BY <1>1 DEF Without
<1>3. Len(s) - 1 \in Nat /\ w \in [1 .. Len(s) - 1 -> Threads]
  OBVIOUS
<1>4. w \in Seq(Threads) /\ Len(w) = Len(s) - 1
  BY <1>3
<1> QED BY <1>2, <1>4

LEMMA NodesOfWithout ==
  ASSUME NEW s \in Seq(Threads), Distinct(s), NEW k \in 1..Len(s)
  PROVE  /\ \A i \in Nat :
              Node(Without(s, s[k]), i) = IF i < k THEN Node(s, i) ELSE Node(s, i + 1)
         /\ Distinct(Without(s, s[k]))
<1> DEFINE w == Without(s, s[k])
<1>1. /\ w \in Seq(Threads) /\ Len(w) = Len(s) - 1
      /\ \A i \in 1 .. Len(s) - 1 : w[i] = IF i < k THEN s[i] ELSE s[i + 1]
  BY WithoutElement
<1> HIDE DEF w
<1>2. \A i \in Nat : Node(w, i) = IF i < k THEN Node(s, i) ELSE Node(s, i + 1)
  BY <1>1 DEF Node
<1>3. Distinct(w)
  BY <1>1 DEF Distinct
<1> QED BY <1>2, <1>3 DEF w

-----------------------------------------------------------------------------
(* One store of push_back: the object is a little more on the list, and in *)
(* the end quite; no other object's pointers change.                       *)
LEMMA AddStore ==
  ASSUME NEW m \in Memory, NEW s \in Seq(Threads), Distinct(s),
         NEW call \in Locals, call.thread \in Threads,
         \A j \in 1..Len(s) : s[j] # call.thread,
         PartlyAdded(m, s, call)
  PROVE  LET link == IF call.i = 0 THEN m.prev[call.thread] ELSE call.link
             n == LinkPrevStore(m, call.i + 1, Root, call.thread, link)
         IN /\ link = call.thread /\ n \in Memory
            /\ \A c \in Locals :
                 call.i < 3 /\ c.thread = call.thread /\ c.i = call.i + 1 /\ c.link = link
                   => PartlyAdded(n, s, c)
            /\ call.i = 3 => Rings(n, Append(s, call.thread))
            /\ \A o \in Threads \ {call.thread} :
                 (\A j \in 1..Len(s) : s[j] # o) => n.next[o] = m.next[o] /\ n.prev[o] = m.prev[o]
<1> DEFINE object == call.thread
           last == Node(s, Len(s))
           link == IF call.i = 0 THEN m.prev[object] ELSE call.link
           n == LinkPrevStore(m, call.i + 1, Root, object, link)
<1>1. /\ \A i \in Int : Node(s, i) \in Nodes /\ Node(s, i) # object
      /\ Node(s, 0) = Root /\ Node(s, Len(s) + 1) = Root
      /\ Root \in Nodes /\ object \in Nodes
  BY NodeType DEF Node, Nodes
<1>2. link = object /\ m.prev[Root] = last
  BY <1>1 DEF PartlyAdded, PrevInto
<1>3. call.i \in {0, 1, 2, 3}
  BY DEF PartlyAdded
<1>4. /\ call.i = 0 => n = SetPrev(m, object, last)
      /\ call.i = 1 => n = SetNext(m, object, Root)
      /\ call.i = 2 => n = SetNext(m, last, object)
      /\ call.i = 3 => n = SetPrev(m, Root, object)
  BY <1>2 DEF LinkPrevStore
<1> HIDE DEF n, link, last, object
<1>5. /\ n \in Memory
      /\ \A x \in Nodes : n.prev[x] = IF call.i = 0 /\ x = object THEN last
                                     ELSE IF call.i = 3 /\ x = Root THEN object ELSE m.prev[x]
      /\ \A x \in Nodes : n.next[x] = IF call.i = 1 /\ x = object THEN Root
                                     ELSE IF call.i = 2 /\ x = last THEN object ELSE m.next[x]
  <2>0. last \in Nodes /\ object \in Nodes /\ Root \in Nodes
    BY <1>1 DEF last
  <2>1. CASE call.i = 0
    <3>1. n = SetPrev(m, object, last)
      BY <1>4, <2>1
    <3>2. /\ n \in Memory
          /\ \A x \in Nodes : n.prev[x] = IF x = object THEN last ELSE m.prev[x]
          /\ \A x \in Nodes : n.next[x] = m.next[x]
      BY <2>0, <3>1 DEF SetPrev, Memory
    <3> QED BY <2>1, <3>2
  <2>2. CASE call.i = 1
    <3>1. n = SetNext(m, object, Root)
      BY <1>4, <2>2
    <3>2. /\ n \in Memory
          /\ \A x \in Nodes : n.next[x] = IF x = object THEN Root ELSE m.next[x]
          /\ \A x \in Nodes : n.prev[x] = m.prev[x]
      BY <2>0, <3>1 DEF SetNext, Memory
    <3> QED BY <2>2, <3>2
  <2>3. CASE call.i = 2
    <3>1. n = SetNext(m, last, object)
      BY <1>4, <2>3
    <3>2. /\ n \in Memory
          /\ \A x \in Nodes : n.next[x] = IF x = last THEN object ELSE m.next[x]
          /\ \A x \in Nodes : n.prev[x] = m.prev[x]
      BY <2>0, <3>1 DEF SetNext, Memory
    <3> QED BY <2>3, <3>2
  <2>4. CASE call.i = 3
    <3>1. n = SetPrev(m, Root, object)
      BY <1>4, <2>4
    <3>2. /\ n \in Memory
          /\ \A x \in Nodes : n.prev[x] = IF x = Root THEN object ELSE m.prev[x]
          /\ \A x \in Nodes : n.next[x] = m.next[x]
      BY <2>0, <3>1 DEF SetPrev, Memory
    <3> QED BY <2>4, <3>2
  <2> QED BY <1>3, <2>1, <2>2, <2>3, <2>4
<1>6. ASSUME NEW o \in Threads, o # object, \A j \in 1..Len(s) : s[j] # o
      PROVE  n.next[o] = m.next[o] /\ n.prev[o] = m.prev[o]
  BY <1>5, <1>6 DEF last, Node, Nodes
<1>7. ASSUME NEW c \in Locals, call.i < 3,
             c.thread = object, c.i = call.i + 1, c.link = link
      PROVE  PartlyAdded(n, s, c)
  <2>1. NextFrom(n, s, 0 .. Len(s) - 1)
    <3>1. \A i \in 0 .. Len(s) - 1 : Node(s, i) # last
      BY NodesDiffer DEF last
    <3> QED BY <1>1, <1>5, <3>1 DEF PartlyAdded, NextFrom
  <2>2. PrevInto(n, s, 0..Len(s))
    BY <1>1, <1>3, <1>5, <1>7 DEF PartlyAdded, PrevInto
  <2>3. /\ n.next[last] = IF c.i < 3 THEN Root ELSE object
        /\ n.next[object] = IF c.i < 2 THEN object ELSE Root
        /\ n.prev[object] = IF c.i < 1 THEN object ELSE last
    BY <1>1, <1>3, <1>5, <1>7 DEF PartlyAdded, last, object
  <2> QED BY <1>2, <1>3, <1>7, <2>1, <2>2, <2>3 DEF PartlyAdded, last, object
<1>8. ASSUME call.i = 3
      PROVE  Rings(n, Append(s, object))
  <2>1. /\ Len(Append(s, object)) = Len(s) + 1
        /\ \A i \in Int : Node(Append(s, object), i) = IF i = Len(s) + 1 THEN object ELSE Node(s, i)
    BY NodesOfAppend DEF object
  <2>2. /\ \A i \in 0 .. Len(s) - 1 : m.next[Node(s, i)] = Node(s, i + 1)
        /\ \A i \in 0 .. Len(s) - 1 : m.prev[Node(s, i + 1)] = Node(s, i) /\ Node(s, i + 1) # Root
        /\ m.next[last] = object /\ m.next[object] = Root /\ m.prev[object] = last
    BY <1>8 DEF PartlyAdded, NextFrom, PrevInto, last, object, Node
  <2>3. \A x \in Nodes : n.next[x] = m.next[x] /\ n.prev[x] = IF x = Root THEN object ELSE m.prev[x]
    BY <1>5, <1>8
  <2>4. Node(s, Len(s) + 2) = Root /\ last = Node(s, Len(s))
    BY DEF Node, last
  <2>5. NextFrom(n, Append(s, object), 0 .. Len(s) + 1)
    BY <1>1, <2>1, <2>2, <2>3, <2>4 DEF NextFrom
  <2>6. PrevInto(n, Append(s, object), 0 .. Len(s) + 1)
    <3> DEFINE longer == Append(s, object)
    <3>1. object # Root /\ Len(s) \in Nat
      BY DEF object
    <3> HIDE DEF longer
    <3>2. ASSUME NEW i \in 0 .. Len(s) - 1 PROVE n.prev[Node(longer, i + 1)] = Node(longer, i)
      BY <1>1, <2>1, <2>2, <2>3, <3>2 DEF longer
    <3>3. n.prev[Node(longer, Len(s) + 1)] = Node(longer, Len(s))
      BY <1>1, <2>1, <2>2, <2>3, <2>4, <3>1 DEF longer
    <3>4. n.prev[Node(longer, (Len(s) + 1) + 1)] = Node(longer, Len(s) + 1)
      BY <1>1, <2>1, <2>3, <2>4, <3>1 DEF longer
    <3>5. \A i \in 0 .. Len(s) + 1 : i \in 0 .. Len(s) - 1 \/ i = Len(s) \/ i = Len(s) + 1
      BY <3>1
    <3> QED BY <3>2, <3>3, <3>4, <3>5 DEF PrevInto, longer
  <2> QED BY <2>1, <2>5, <2>6 DEF Rings
<1> QED BY <1>2, <1>5, <1>6, <1>7, <1>8 DEF n, link, object

(* One store of Unlink: the object is a little less on the list, and in    *)
(* the end alone.                                                          *)
LastLink(m, call) == IF call.i = 0 THEN m.next[call.thread] ELSE call.last_link

Link(m, call) == IF call.i = 0 THEN m.prev[LastLink(m, call)] ELSE call.link

Unlinked(m, call) ==
  UnlinkStore(m, call.i + 1, call.thread, LastLink(m, call), Link(m, call))

(* One store of Unlink, likewise: in the end the object is off the list    *)
(* and alone.                                                              *)
LEMMA RemoveStore ==
  ASSUME NEW m \in Memory, NEW s \in Seq(Threads), Distinct(s),
         NEW call \in Locals, call.thread \in Threads,
         NEW k \in 1..Len(s), PartlyRemoved(m, s, call, k)
  PROVE  LET object == call.thread
             last_link == LastLink(m, call)
             link == Link(m, call)
             n == Unlinked(m, call)
         IN /\ link \in Nodes /\ last_link \in Nodes /\ n \in Memory
            /\ \A c \in Locals :
                 call.i < 3 /\ c.thread = object /\ c.i = call.i + 1
                   /\ c.link = link /\ c.last_link = last_link => PartlyRemoved(n, s, c, k)
            /\ call.i = 3 => Rings(n, Without(s, object))
            /\ \A o \in Threads :
                 (\A j \in 1..Len(s) : s[j] # o) => n.next[o] = m.next[o] /\ n.prev[o] = m.prev[o]
<1> DEFINE object == call.thread
           before == Node(s, k - 1)
           behind == Node(s, k + 1)
           last_link == LastLink(m, call)
           link == Link(m, call)
           n == Unlinked(m, call)
<1>1. /\ \A i \in Int : Node(s, i) \in Nodes
      /\ object = Node(s, k) /\ object \in Nodes /\ object # Root
      /\ Node(s, 0) = Root /\ Node(s, Len(s) + 1) = Root /\ Root \in Nodes
  BY NodeType DEF Node, Nodes, PartlyRemoved
<1>2. last_link = behind /\ link = object /\ m.prev[object] = before
  BY DEF PartlyRemoved, LastLink, Link
<1>3. call.i \in {0, 1, 2, 3}
  BY DEF PartlyRemoved
<1>4. /\ call.i = 0 => n = SetNext(m, before, behind)
      /\ call.i = 1 => n = SetPrev(m, behind, before)
      /\ call.i = 2 => n = SetNext(m, object, object)
      /\ call.i = 3 => n = SetPrev(m, object, object)
  BY <1>2 DEF UnlinkStore, Unlinked
<1> HIDE DEF n, link, last_link, before, behind, object
<1>5. /\ n \in Memory
      /\ \A x \in Nodes : n.prev[x] = IF call.i = 1 /\ x = behind THEN before
                                     ELSE IF call.i = 3 /\ x = object THEN object ELSE m.prev[x]
      /\ \A x \in Nodes : n.next[x] = IF call.i = 0 /\ x = before THEN behind
                                     ELSE IF call.i = 2 /\ x = object THEN object ELSE m.next[x]
  <2>0. before \in Nodes /\ behind \in Nodes /\ object \in Nodes /\ Root \in Nodes
    BY <1>1 DEF before, behind
  <2>1. CASE call.i = 0
    <3>1. n = SetNext(m, before, behind)
      BY <1>4, <2>1
    <3>2. /\ n \in Memory
          /\ \A x \in Nodes : n.next[x] = IF x = before THEN behind ELSE m.next[x]
          /\ \A x \in Nodes : n.prev[x] = m.prev[x]
      BY <2>0, <3>1 DEF SetNext, Memory
    <3> QED BY <2>1, <3>2
  <2>2. CASE call.i = 1
    <3>1. n = SetPrev(m, behind, before)
      BY <1>4, <2>2
    <3>2. /\ n \in Memory
          /\ \A x \in Nodes : n.prev[x] = IF x = behind THEN before ELSE m.prev[x]
          /\ \A x \in Nodes : n.next[x] = m.next[x]
      BY <2>0, <3>1 DEF SetPrev, Memory
    <3> QED BY <2>2, <3>2
  <2>3. CASE call.i = 2
    <3>1. n = SetNext(m, object, object)
      BY <1>4, <2>3
    <3>2. /\ n \in Memory
          /\ \A x \in Nodes : n.next[x] = IF x = object THEN object ELSE m.next[x]
          /\ \A x \in Nodes : n.prev[x] = m.prev[x]
      BY <2>0, <3>1 DEF SetNext, Memory
    <3> QED BY <2>3, <3>2
  <2>4. CASE call.i = 3
    <3>1. n = SetPrev(m, object, object)
      BY <1>4, <2>4
    <3>2. /\ n \in Memory
          /\ \A x \in Nodes : n.prev[x] = IF x = object THEN object ELSE m.prev[x]
          /\ \A x \in Nodes : n.next[x] = m.next[x]
      BY <2>0, <3>1 DEF SetPrev, Memory
    <3> QED BY <2>4, <3>2
  <2> QED BY <1>3, <2>1, <2>2, <2>3, <2>4
<1>6. ASSUME NEW o \in Threads, \A j \in 1..Len(s) : s[j] # o
      PROVE  n.next[o] = m.next[o] /\ n.prev[o] = m.prev[o]
  <2>1. o \in Nodes /\ o # before /\ o # behind /\ o # object
    BY <1>1, <1>6 DEF before, behind, Node, Nodes
  <2> QED BY <1>5, <2>1
<1>7. \A i \in 0..Len(s) \ {k - 1, k} :
        /\ Node(s, i) # before /\ Node(s, i) # object
        /\ Node(s, i + 1) # behind /\ Node(s, i + 1) # object
  <2> TAKE i \in 0..Len(s) \ {k - 1, k}
  <2>1. Node(s, i) # before /\ Node(s, i) # object
    BY <1>1, NodesDiffer DEF before
  <2>2. Node(s, i + 1) # object
    BY <1>1, NodesDiffer
  <2>3. Node(s, i + 1) # behind
    BY <1>1, NodesDiffer DEF behind
  <2> QED BY <2>1, <2>2, <2>3
<1>8. before # object /\ behind # object
  BY <1>1, NodesDiffer DEF before, behind
<1>9. ASSUME NEW c \in Locals, call.i < 3, c.thread = object, c.i = call.i + 1,
             c.link = link, c.last_link = last_link
      PROVE  PartlyRemoved(n, s, c, k)
  <2>1. NextFrom(n, s, 0..Len(s) \ {k - 1, k})
    BY <1>1, <1>5, <1>7 DEF PartlyRemoved, NextFrom
  <2>2. PrevInto(n, s, 0..Len(s) \ {k - 1, k})
    BY <1>1, <1>5, <1>7 DEF PartlyRemoved, PrevInto
  <2>3. before \in Nodes /\ behind \in Nodes
    BY <1>1 DEF before, behind
  <2>4. /\ m.next[before] = IF call.i < 1 THEN object ELSE behind
        /\ m.prev[behind] = IF call.i < 2 THEN object ELSE before
        /\ m.next[object] = IF call.i < 3 THEN behind ELSE object
        /\ m.prev[object] = before
    BY DEF PartlyRemoved, before, behind, object
  <2>5. /\ n.next[before] = IF c.i < 1 THEN object ELSE behind
        /\ n.prev[behind] = IF c.i < 2 THEN object ELSE before
        /\ n.next[object] = IF c.i < 3 THEN behind ELSE object
        /\ n.prev[object] = before
    BY <1>1, <1>3, <1>5, <1>8, <1>9, <2>3, <2>4
  <2> QED BY <1>1, <1>2, <1>3, <1>9, <2>1, <2>2, <2>5 DEF PartlyRemoved, before, behind, object
<1>10. ASSUME call.i = 3
       PROVE  Rings(n, Without(s, object))
  <2> DEFINE w == Without(s, object)
  <2>1. /\ Len(w) = Len(s) - 1
        /\ \A i \in Nat : Node(w, i) = IF i < k THEN Node(s, i) ELSE Node(s, i + 1)
    BY WithoutElement, NodesOfWithout DEF PartlyRemoved, object
  <2>2. /\ \A i \in 0..Len(s) \ {k - 1, k} :
             m.next[Node(s, i)] = Node(s, i + 1) /\ m.prev[Node(s, i + 1)] = Node(s, i)
        /\ m.next[Node(s, k - 1)] = Node(s, k + 1) /\ m.prev[Node(s, k + 1)] = Node(s, k - 1)
    BY <1>10 DEF PartlyRemoved, NextFrom, PrevInto
  <2>3. /\ \A x \in Nodes : n.next[x] = m.next[x]
        /\ \A x \in Nodes : x # object => n.prev[x] = m.prev[x]
    BY <1>5, <1>10
  <2>4. ASSUME NEW i \in 0 .. Len(s) - 1
        PROVE  n.next[Node(w, i)] = Node(w, i + 1) /\ n.prev[Node(w, i + 1)] = Node(w, i)
    <3> HIDE DEF w
    <3>1. CASE i < k - 1
      <4>1. i \in 0..Len(s) \ {k - 1, k}
        BY <3>1
      <4>2. i \in Nat /\ i + 1 \in Nat /\ i < k /\ i + 1 < k
        BY <3>1
      <4>3. Node(w, i) = Node(s, i) /\ Node(w, i + 1) = Node(s, i + 1)
        BY <2>1, <4>2
      <4> QED BY <1>1, <1>7, <2>2, <2>3, <4>1, <4>3
    <3>2. CASE i = k - 1
      <4>1. Node(w, i) = before /\ Node(w, i + 1) = behind
        BY <2>1, <3>2 DEF before, behind
      <4> QED BY <1>1, <1>8, <2>2, <2>3, <4>1 DEF before, behind
    <3>3. CASE i > k - 1
      <4>0. i \in Nat /\ i + 1 \in Nat /\ ~(i < k) /\ ~(i + 1 < k) /\ (i + 1) + 1 = i + 2
        BY <3>3
      <4>1. /\ i + 1 \in 0..Len(s) \ {k - 1, k}
            /\ Node(w, i) = Node(s, i + 1) /\ Node(w, i + 1) = Node(s, i + 2)
        <5>1. Node(w, i) = Node(s, i + 1)
          BY <2>1, <4>0
        <5>2. Node(w, i + 1) = Node(s, (i + 1) + 1)
          BY <2>1, <4>0
        <5> QED BY <3>3, <4>0, <5>1, <5>2
      <4>2. n.next[Node(s, i + 1)] = Node(s, i + 2)
        BY <1>1, <2>2, <2>3, <4>1
      <4>3. Node(s, i + 2) # object
        BY <1>7, <4>1
      <4>4. n.prev[Node(s, i + 2)] = Node(s, i + 1)
        BY <1>1, <2>2, <2>3, <4>1, <4>3
      <4> QED BY <4>1, <4>2, <4>4
    <3> QED BY <3>1, <3>2, <3>3
  <2> HIDE DEF w
  <2> QED BY <2>1, <2>4 DEF Rings, NextFrom, PrevInto, w
<1>11. link \in Nodes /\ last_link \in Nodes
  BY <1>1, <1>2 DEF behind
<1>12. \A c \in Locals :
         call.i < 3 /\ c.thread = object /\ c.i = call.i + 1
           /\ c.link = link /\ c.last_link = last_link => PartlyRemoved(n, s, c, k)
  BY <1>9
<1>13. \A o \in Threads :
         (\A j \in 1..Len(s) : s[j] # o) => n.next[o] = m.next[o] /\ n.prev[o] = m.prev[o]
  BY <1>6
<1> QED BY <1>5, <1>10, <1>11, <1>12, <1>13 DEF n, link, last_link, object

(* A single object is on no list, and nobody has a context yet.            *)
LEMMA InitIInv == Init => IInv
<1> SUFFICES ASSUME Init PROVE IInv
  OBVIOUS
<1>1. TypeOK
  BY DEF Init, MonitorInit, TypeOK, Memory, Nodes, States, Kernels, Labels, Startup, OnObject,
         Creating, Destroying, Walking, Locals, NoLocals
<1>2. WhoRuns /\ WhoAmI /\ CallsApart /\ CallsProgress /\ HolderIsCurrent /\ WalkersKeepPlace
  BY DEF Init, MonitorInit, WhoRuns, WhoAmI, CallsApart, CallsProgress, HolderIsCurrent, InSection,
         WalkersKeepPlace, Startup, OnObject, Creating, Destroying, Walking, NoLocals
<1>3. WhoIsListed
  BY DEF Init, WhoIsListed, OnList
<1>4. ListIsLinked
  BY
  DEF Init, ListIsLinked, Distinct, Rings, NextFrom, PrevInto, Node, OnObject, Creating,
      Destroying
<1> QED BY <1>1, <1>2, <1>3, <1>4 DEF IInv

-----------------------------------------------------------------------------
(* What the invariant does not read may change.                            *)
LEMMA Untouched ==
  ASSUME IInv, UNCHANGED <<monitorVars, objects, context, kernel, pc, local, added>>
  PROVE  IInv'
BY DEF IInv, monitorVars, objects, TypeOK, WhoRuns, WhoAmI, CallsApart, WhoIsListed, OnList, InUse,
       CallsProgress, Progress, HolderIsCurrent, InSection, ListIsLinked, Rings, NextFrom, PrevInto,
       Alone, PartlyAdded, PartlyRemoved, WalkersKeepPlace

(* The locals of a call after an assignment to one of them.                *)
LEMMA Assigned ==
  ASSUME NEW call \in Locals
  PROVE  /\ \A i \in Nat : [call EXCEPT !.i = i] \in Locals
         /\ \A node \in Nodes : [call EXCEPT !.link = node] \in Locals
         /\ \A object \in Threads, node \in Nodes :
              [call EXCEPT !.seen = Append(@, object), !.link = node] \in Locals
<1>1. \A object \in Threads : Append(call.seen, object) \in Seq(Threads)
  BY DEF Locals
<1> QED BY <1>1 DEF Locals

LEMMA NoneAssigned == NoLocals \in Locals
BY DEF NoLocals, Locals, Nodes

-----------------------------------------------------------------------------
(* The steps of push_back and Unlink in a reachable state.                 *)
LEMMA Adding ==
  ASSUME IInv, NEW t \in Threads, PushBack(t)
  PROVE  LET object == local[t].thread
         IN /\ pc[t] = "adding" /\ object \in Threads \ {MainThread} /\ object \notin OnList
            /\ links' \in Memory /\ added' \in Seq(Threads) /\ Distinct(added')
            /\ local' \in [Threads -> Locals]
            /\ local'[t].thread = object /\ local'[t].seen = local[t].seen
            /\ \A u \in Threads \ {t} : local'[u] = local[u] /\ pc'[u] = pc[u]
            /\ \/ /\ pc' = pc /\ added' = added
                  /\ PartlyAdded(links', added, local'[t])
               \/ /\ pc' = [pc EXCEPT ![t] = "addLeave"] /\ added' = Append(added, object)
                  /\ local'[t].i = 0 /\ Rings(links', added')
            /\ \A o \in Threads \ ({object} \cup OnList) :
                 links'.next[o] = links.next[o] /\ links'.prev[o] = links.prev[o]
<1> DEFINE call == local[t]
           object == call.thread
           link == IF call.i = 0 THEN links.prev[object] ELSE call.link
           c == [call EXCEPT !.i = (@ + 1) % 4, !.link = link]
<1>1. /\ pc[t] = "adding" /\ call \in Locals /\ PartlyAdded(links, added, call)
      /\ object \in Threads \ {MainThread} /\ object \notin OnList
      /\ links \in Memory /\ added \in Seq(Threads) /\ Distinct(added)
  BY
  DEF PushBack, Go, IInv, TypeOK, ListIsLinked, CallsApart, OnObject, Creating, CallsProgress,
      Progress
<1>2. \A j \in 1..Len(added) : added[j] # object
  BY <1>1 DEF OnList
<1>3. /\ link = object /\ links' \in Memory
      /\ \A d \in Locals :
           call.i < 3 /\ d.thread = object /\ d.i = call.i + 1 /\ d.link = link
             => PartlyAdded(links', added, d)
      /\ call.i = 3 => Rings(links', Append(added, object))
      /\ \A o \in Threads \ {object} :
           (\A j \in 1..Len(added) : added[j] # o)
             => links'.next[o] = links.next[o] /\ links'.prev[o] = links.prev[o]
  BY <1>1, <1>2, AddStore DEF PushBack
<1>4. call.i \in {0, 1, 2, 3}
  BY <1>1 DEF PartlyAdded
<1>5. c \in Locals /\ c.thread = object /\ c.seen = call.seen /\ c.link = link
      /\ c.i = IF call.i = 3 THEN 0 ELSE call.i + 1
  <2>1. (call.i + 1) % 4 = IF call.i = 3 THEN 0 ELSE call.i + 1
    BY <1>4
  <2>2. (call.i + 1) % 4 \in Nat
    BY <1>4, <2>1
  <2> QED BY <1>1, <1>3, <2>1, <2>2 DEF Locals, Nodes
<1>6. /\ local' = [local EXCEPT ![t] = c]
      /\ pc' = [pc EXCEPT ![t] = IF call.i = 3 THEN "addLeave" ELSE "adding"]
      /\ added' = IF call.i = 3 THEN Append(added, object) ELSE added
      /\ local \in [Threads -> Locals] /\ pc \in [Threads -> Labels]
  BY DEF PushBack, Go, Goto, IInv, TypeOK
<1> HIDE DEF link, c, object, call
<1>7. /\ local' \in [Threads -> Locals] /\ local'[t] = c
      /\ \A u \in Threads \ {t} : local'[u] = local[u] /\ pc'[u] = pc[u]
  BY <1>5, <1>6
<1>8. \A o \in Threads \ ({object} \cup OnList) :
        links'.next[o] = links.next[o] /\ links'.prev[o] = links.prev[o]
  BY <1>3 DEF OnList
<1>9. CASE call.i = 3
  <2>1. added' = Append(added, object) /\ pc' = [pc EXCEPT ![t] = "addLeave"]
    BY <1>6, <1>9
  <2>2. added' \in Seq(Threads) /\ Distinct(added')
    BY <1>1, <1>2, <2>1, NodesOfAppend, DistinctAppend
  <2> QED BY <1>1, <1>3, <1>5, <1>7, <1>8, <1>9, <2>1, <2>2 DEF object, call
<1>10. CASE call.i # 3
  <2>1. added' = added /\ pc' = pc
    BY <1>1, <1>6, <1>10
  <2>2. PartlyAdded(links', added, c)
    BY <1>3, <1>4, <1>5, <1>10
  <2> QED BY <1>1, <1>3, <1>5, <1>7, <1>8, <2>1, <2>2 DEF object, call
<1> QED BY <1>9, <1>10

(* The same of Unlink.                                                     *)
LEMMA Removing ==
  ASSUME IInv, NEW t \in Threads, UnlinkThread(t)
  PROVE  LET object == local[t].thread
         IN /\ pc[t] = "removing" /\ object \in Threads \ {MainThread} /\ object \in OnList
            /\ links' \in Memory /\ added' \in Seq(Threads) /\ Distinct(added')
            /\ local' \in [Threads -> Locals]
            /\ local'[t].thread = object /\ local'[t].seen = local[t].seen
            /\ \A u \in Threads \ {t} : local'[u] = local[u] /\ pc'[u] = pc[u]
            /\ \/ /\ pc' = pc /\ added' = added
                  /\ \E k \in 1..Len(added) : PartlyRemoved(links', added, local'[t], k)
               \/ /\ pc' = [pc EXCEPT ![t] = "removeLeave"]
                  /\ OnList' = OnList \ {object}
                  /\ local'[t].i = 0 /\ Rings(links', added')
            /\ \A o \in Threads \ OnList :
                 links'.next[o] = links.next[o] /\ links'.prev[o] = links.prev[o]
<1> DEFINE call == local[t]
           object == call.thread
           last_link == LastLink(links, call)
           link == Link(links, call)
           c == [call EXCEPT !.i = (@ + 1) % 4, !.link = link, !.last_link = last_link]
<1>1. /\ pc[t] = "removing" /\ call \in Locals
      /\ \E k \in 1..Len(added) : PartlyRemoved(links, added, call, k)
      /\ object \in Threads \ {MainThread} /\ object \in OnList
      /\ links \in Memory /\ added \in Seq(Threads) /\ Distinct(added)
  BY
  DEF UnlinkThread, Go, IInv, TypeOK, ListIsLinked, CallsApart, OnObject, Destroying,
      CallsProgress, Progress
<1>2. PICK k \in 1..Len(added) : PartlyRemoved(links, added, call, k)
  BY <1>1
<1>3. /\ link \in Nodes /\ last_link \in Nodes /\ links' \in Memory
      /\ \A d \in Locals :
           call.i < 3 /\ d.thread = object /\ d.i = call.i + 1
             /\ d.link = link /\ d.last_link = last_link => PartlyRemoved(links', added, d, k)
      /\ call.i = 3 => Rings(links', Without(added, object))
      /\ \A o \in Threads :
           (\A j \in 1..Len(added) : added[j] # o)
             => links'.next[o] = links.next[o] /\ links'.prev[o] = links.prev[o]
  <2>1. links' = Unlinked(links, call)
    BY DEF UnlinkThread, Unlinked, LastLink, Link
  <2> QED BY <1>1, <1>2, <2>1, RemoveStore
<1>4. call.i \in {0, 1, 2, 3} /\ added[k] = object
  BY <1>2 DEF PartlyRemoved
<1>5. c \in Locals /\ c.thread = object /\ c.seen = call.seen
      /\ c.link = link /\ c.last_link = last_link
      /\ c.i = IF call.i = 3 THEN 0 ELSE call.i + 1
  <2>1. (call.i + 1) % 4 = IF call.i = 3 THEN 0 ELSE call.i + 1
    BY <1>4
  <2>2. (call.i + 1) % 4 \in Nat
    BY <1>4, <2>1
  <2> QED BY <1>1, <1>3, <2>1, <2>2 DEF Locals, Nodes
<1>6. /\ local' = [local EXCEPT ![t] = c]
      /\ pc' = [pc EXCEPT ![t] = IF call.i = 3 THEN "removeLeave" ELSE "removing"]
      /\ added' = IF call.i = 3 THEN Without(added, object) ELSE added
      /\ local \in [Threads -> Locals] /\ pc \in [Threads -> Labels]
  BY DEF UnlinkThread, Go, Goto, LastLink, Link, IInv, TypeOK
<1> HIDE DEF link, last_link, c, object, call
<1>7. /\ local' \in [Threads -> Locals] /\ local'[t] = c
      /\ \A u \in Threads \ {t} : local'[u] = local[u] /\ pc'[u] = pc[u]
  BY <1>5, <1>6
<1>8. \A o \in Threads \ OnList :
        links'.next[o] = links.next[o] /\ links'.prev[o] = links.prev[o]
  BY <1>3 DEF OnList
<1>9. CASE call.i = 3
  <2>1. added' = Without(added, object) /\ pc' = [pc EXCEPT ![t] = "removeLeave"]
    BY <1>6, <1>9
  <2>2. /\ added' \in Seq(Threads) /\ Distinct(added') /\ Len(added') = Len(added) - 1
        /\ \A i \in 1 .. Len(added) - 1 : added'[i] = IF i < k THEN added[i] ELSE added[i + 1]
    BY <1>1, <1>4, <2>1, WithoutElement, NodesOfWithout
  <2>3. OnList' = OnList \ {object}
    <3>1. ASSUME NEW i \in 1..Len(added')
          PROVE  added'[i] \in OnList \ {object}
      <4>1. i \in 1 .. Len(added) - 1 /\ i + 1 \in 1..Len(added) /\ i \in 1..Len(added)
        BY <1>1, <2>2
      <4> QED BY <1>1, <1>4, <2>2, <4>1 DEF Distinct, OnList
    <3>2. ASSUME NEW i \in 1..Len(added), added[i] # object
          PROVE  \E j \in 1..Len(added') : added'[j] = added[i]
      <4>1. CASE i < k
        BY <1>1, <2>2, <4>1
      <4>2. CASE i > k
        <5>1. i - 1 \in 1 .. Len(added) - 1 /\ ~(i - 1 < k) /\ (i - 1) + 1 = i
          BY <1>1, <4>2
        <5>2. added'[i - 1] = added[i]
          BY <2>2, <5>1
        <5> QED BY <1>1, <2>2, <5>1, <5>2
      <4> QED BY <1>4, <3>2, <4>1, <4>2
    <3> QED BY <3>1, <3>2 DEF OnList
  <2> QED BY <1>1, <1>3, <1>5, <1>7, <1>8, <1>9, <2>1, <2>2, <2>3 DEF object, call
<1>10. CASE call.i # 3
  <2>1. added' = added /\ pc' = pc
    BY <1>1, <1>6, <1>10
  <2>2. PartlyRemoved(links', added, c, k)
    BY <1>3, <1>4, <1>5, <1>10
  <2> QED BY <1>1, <1>3, <1>5, <1>7, <1>8, <2>1, <2>2 DEF object, call
<1> QED BY <1>9, <1>10

(* One conjunct of the invariant at a time: the types,                     *)
LEMMA StepTypes ==
  ASSUME IInv, NEW t \in Threads, Running(t),
         Continue(t) \/ EntrypointReturns(t) \/ NewCall(t)
  PROVE  TypeOK'
<1> USE DEF Go, Goto, Stay, Return, objects, system, monitorVars, TypeOK
<1>0. TypeOK /\ CallsApart
  BY DEF IInv
<1>a. CASE Abort
  BY <1>a, Untouched DEF Abort, IInv
<1>1. CASE Start(t)
  <2>1. CASE ThreadListCtor(t)
    BY <1>0, <2>1, FirstList
    DEF ThreadListCtor, SetThreadName, MainThreadName, THREAD_NAME_SIZE, Labels, Startup, States
  <2>2. CASE InitMainThread(t)
    BY <1>0, <2>2, Assigned DEF InitMainThread, SetThreadContext, Assign, Labels, Startup
  <2>3. CASE InitializeVirtualMemoryAllocators(t)
    <3>1. local[t].i + 1 \in Nat
      BY <1>0 DEF Locals
    <3>2. [local[t] EXCEPT !.i = local[t].i + 1] \in Locals
      BY <1>0, <3>1, Assigned
    <3>3. CASE Assign(t, "i", local[t].i + 1) /\ UNCHANGED pc /\ Stay
      BY <1>0, <3>2, <3>3 DEF Assign
    <3>4. CASE Return(t, "allocators") /\ Stay
      BY <1>0, <3>4, NoneAssigned DEF Labels
    <3> QED BY <1>a, <2>3, <3>3, <3>4 DEF InitializeVirtualMemoryAllocators
  <2> QED BY <1>1, <2>1, <2>2, <2>3 DEF Start
<1>2. CASE EntryWrapper(t)
  <2>1. CASE EntryContext(t)
    BY <1>0, <2>1 DEF EntryContext, SetThreadContext, Labels
  <2>2. CASE EntryTest(t)
    BY <1>0, <2>2 DEF EntryTest, Labels
  <2>3. CASE EntryExit(t)
    BY <1>0, <2>3 DEF EntryExit, Labels, States, Kernels
  <2> QED BY <1>2, <2>1, <2>2, <2>3 DEF EntryWrapper
<1>b. local[t] \in Locals /\ (pc[t] \in OnObject => local[t].thread \in Threads)
  BY <1>0 DEF CallsApart
<1>3. CASE CreateStep(t)
  <2>1. CASE CreateAliasStack(t)
    BY <1>0, <1>a, <2>1 DEF CreateAliasStack, Labels, OnObject, Creating
  <2>2. CASE CreateThreadUnsafe(t)
    BY <1>0, <1>a, <1>b, <2>2 DEF CreateThreadUnsafe, Labels, OnObject, Creating, Kernels
  <2>3. CASE NameThread(t)
    BY <1>0, <1>b, <2>3
    DEF NameThread, SetThreadName, UnnamedThreadName, THREAD_NAME_SIZE, Labels, OnObject, Creating
  <2>4. CASE EnterList(t, "addEnter", "adding")
    BY <1>0, <2>4 DEF EnterList, Acquire, GetCurrentThreadHandle, Labels, OnObject, Creating
  <2>5. CASE PushBack(t)
    <3>1. pc' \in [Threads -> Labels]
      BY <1>0, <2>5 DEF PushBack, Labels, OnObject, Creating
    <3> QED BY <1>0, <2>5, <3>1, Adding DEF PushBack
  <2>6. CASE Return(t, "addLeave") /\ LeaveList(t) /\ UNCHANGED <<objects, system, calls, added>>
    BY <1>0, <2>6, NoneAssigned DEF LeaveList, Release, Labels
  <2> QED BY <1>3, <2>1, <2>2, <2>3, <2>4, <2>5, <2>6 DEF CreateStep, AddThread
<1>4. CASE DestroyStep(t)
  <2>1. CASE WaitForExitThread(t)
    BY <1>0, <2>1 DEF WaitForExitThread, Labels, OnObject, Destroying
  <2>2. CASE DestroyThreadUnsafe(t)
    BY <1>0, <1>b, <2>2 DEF DestroyThreadUnsafe, Labels, OnObject, Destroying, Kernels
  <2>3. CASE EnterList(t, "removeEnter", "removing")
    BY <1>0, <2>3 DEF EnterList, Acquire, GetCurrentThreadHandle, Labels, OnObject, Destroying
  <2>4. CASE UnlinkThread(t)
    <3>1. pc' \in [Threads -> Labels]
      BY <1>0, <2>4 DEF UnlinkThread, Labels, OnObject, Destroying
    <3> QED BY <1>0, <2>4, <3>1, Removing DEF UnlinkThread
  <2>5. CASE Go(t, "removeLeave", "reset") /\ LeaveList(t)
             /\ UNCHANGED <<objects, system, local, calls, added>>
    BY <1>0, <2>5 DEF LeaveList, Release, Labels, OnObject, Destroying
  <2>6. CASE ResetThread(t)
    BY <1>0, <1>b, <2>6, NoneAssigned DEF ResetThread, Labels, OnObject, Destroying, States
  <2> QED BY <1>4, <2>1, <2>2, <2>3, <2>4, <2>5, <2>6 DEF DestroyStep, RemoveThread
<1>5. CASE WalkStep(t)
  <2>1. CASE Aquire(t)
    BY <1>0, <2>1 DEF Aquire, EnterList, Acquire, GetCurrentThreadHandle, Labels, Walking
  <2>2. CASE Begin(t)
    <3>1. links.next[Root] \in Nodes /\ local[t] \in Locals
      BY <1>0, Pointers DEF Nodes
    <3>2. local' \in [Threads -> Locals]
      BY <1>0, <2>2, <3>1, Assigned DEF Begin, Assign
    <3> QED BY <1>0, <2>2, <3>2 DEF Begin, Labels, Walking
  <2>3. CASE Visit(t)
    <3>1. local[t] \in Locals /\ local[t].link \in Nodes
      BY <1>0 DEF Locals
    <3>2. CASE local[t].link # Root
      <4>1. local[t].link \in Threads /\ links.next[local[t].link] \in Nodes
        BY <1>0, <3>1, <3>2, Pointers DEF Nodes
      <4>2. [local[t] EXCEPT !.seen = Append(@, local[t].link),
                           !.link = links.next[local[t].link]] \in Locals
        BY <3>1, <4>1, Assigned
      <4>3. local' \in [Threads -> Locals]
        BY <1>0, <2>3, <3>2, <4>2 DEF Visit
      <4> QED BY <1>0, <2>3, <3>2, <4>3 DEF Visit
    <3>3. CASE local[t].link = Root
      BY <1>0, <2>3, <3>3 DEF Visit, Labels, Walking
    <3> QED BY <3>2, <3>3
  <2>4. CASE ReleaseList(t)
    BY <1>0, <2>4, NoneAssigned DEF ReleaseList, LeaveList, Release, Labels
  <2> QED BY <1>5, <2>1, <2>2, <2>3, <2>4 DEF WalkStep
<1>6. CASE EntrypointReturns(t)
  BY <1>0, <1>6 DEF EntrypointReturns, Labels
<1>7. CASE NewCall(t)
  <2>1. \A object \in Threads \cup {NoThread} : [NoLocals EXCEPT !.thread = object] \in Locals
    BY NoneAssigned DEF Locals
  <2>2. CASE Walk(t)
    BY <1>0, <2>1, <2>2 DEF Walk, Call, Labels, Walking
  <2>3. CASE ExitProcess(t)
    BY <2>3, Untouched DEF ExitProcess, IInv
  <2>4. ASSUME NEW object \in Threads, CreateThread(t, object)
        PROVE  TypeOK'
    <3>1. Construct(links, object) \in Memory
      BY <1>0, Constructed DEF Nodes
    <3> QED BY <1>0, <2>1, <2>4, <3>1
            DEF CreateThread, CallFor, Call, Labels, OnObject, Creating, States, Kernels
  <2>5. ASSUME NEW object \in Threads, StartThread(t, object)
        PROVE  TypeOK'
    BY <1>0, <2>5 DEF StartThread, Instant, States, Kernels
  <2>6. ASSUME NEW object \in Threads, DestroyThread(t, object)
        PROVE  TypeOK'
    BY <1>0, <2>1, <2>6
    DEF DestroyThread, CallFor, Call, Labels, OnObject, Destroying, States, Kernels
  <2>7. ASSUME NEW object \in Threads, NEW length \in NameLengths, SetName(t, object, length)
        PROVE  TypeOK'
    BY <1>0, <2>7 DEF SetName, Instant, SetThreadName
  <2> QED BY <1>7, <2>2, <2>3, <2>4, <2>5, <2>6, <2>7 DEF NewCall
<1> QED BY <1>1, <1>2, <1>3, <1>4, <1>5, <1>6, <1>7 DEF Continue

(* who runs, and under which handle,                                       *)
LEMMA StepWho ==
  ASSUME IInv, NEW t \in Threads, Running(t),
         Continue(t) \/ EntrypointReturns(t) \/ NewCall(t)
  PROVE  WhoRuns' /\ WhoAmI'
<1> USE DEF Go, Goto, Stay, Return, objects, system, monitorVars, WhoRuns, WhoAmI
<1>0. TypeOK /\ WhoRuns /\ WhoAmI /\ CallsApart /\ WhoIsListed /\ CallsProgress
  BY DEF IInv
<1>a. CASE Abort
  BY <1>a, Untouched DEF Abort, IInv
<1>b. /\ pc \in [Threads -> Labels] /\ local \in [Threads -> Locals]
      /\ kernel \in [Threads -> Kernels]
      /\ state \in [Threads -> States] /\ context \in [Threads -> Threads \cup {NoThread}]
      /\ thread_handle \in [Threads -> Threads \cup {InvalidHandle}]
  BY <1>0 DEF TypeOK
<1>1. CASE Start(t)
  BY <1>0, <1>a, <1>b, <1>1
  DEF Start, ThreadListCtor, InitMainThread, InitializeVirtualMemoryAllocators, SetThreadContext,
      Startup
<1>2. CASE EntryWrapper(t)
  BY <1>0, <1>b, <1>2
  DEF EntryWrapper, EntryContext, EntryTest, EntryExit, SetThreadContext, Startup, Running
<1>c. pc[t] \in OnObject => local[t].thread \in Threads \ {MainThread}
  BY <1>0 DEF CallsApart
<1>3. CASE CreateStep(t)
  BY <1>0, <1>a, <1>b, <1>c, <1>3
  DEF CreateStep, CreateAliasStack, CreateThreadUnsafe, NameThread, AddThread, EnterList, PushBack,
      CallsProgress, Progress, OnObject, Creating, Startup, Running
<1>4. CASE DestroyStep(t)
  BY <1>0, <1>b, <1>c, <1>4
  DEF DestroyStep, WaitForExitThread, DestroyThreadUnsafe, RemoveThread, EnterList, UnlinkThread,
      ResetThread, CallsProgress, Progress, OnObject, Creating, Destroying, Startup, Running
<1>5. CASE WalkStep(t)
  BY <1>0, <1>b, <1>5
  DEF WalkStep, Aquire, EnterList, Begin, Visit, ReleaseList, Startup, Running
<1>6. CASE EntrypointReturns(t)
  BY <1>0, <1>b, <1>6 DEF EntrypointReturns, Startup, Running
<1>7. CASE NewCall(t)
  <2>1. CASE Walk(t)
    BY <1>0, <1>b, <2>1 DEF Walk, Call, Startup, Running
  <2>2. CASE ExitProcess(t)
    BY <2>2, Untouched DEF ExitProcess, IInv
  <2>3. ASSUME NEW object \in Threads, CreateThread(t, object)
        PROVE  WhoRuns' /\ WhoAmI'
    BY <1>0, <1>b, <2>3 DEF CreateThread, CallFor, Call, WhoIsListed, OnObject, Startup, Running
  <2>4. ASSUME NEW object \in Threads, StartThread(t, object)
        PROVE  WhoRuns' /\ WhoAmI'
    BY <1>0, <1>b, <2>4 DEF StartThread, Instant, WhoIsListed, Startup, Running
  <2>5. ASSUME NEW object \in Threads, DestroyThread(t, object)
        PROVE  WhoRuns' /\ WhoAmI'
    BY <1>0, <1>b, <2>5 DEF DestroyThread, CallFor, Call, WhoIsListed, Startup, Running
  <2>6. ASSUME NEW object \in Threads, NEW length \in NameLengths, SetName(t, object, length)
        PROVE  WhoRuns' /\ WhoAmI'
    BY <1>0, <1>b, <2>6 DEF SetName, Instant, Startup, Running
  <2> QED BY <1>7, <2>1, <2>2, <2>3, <2>4, <2>5, <2>6 DEF NewCall
<1> QED BY <1>1, <1>2, <1>3, <1>4, <1>5, <1>6, <1>7 DEF Continue

(* that calls for one object do not overlap,                               *)
LEMMA StepCalls ==
  ASSUME IInv, NEW t \in Threads, Running(t),
         Continue(t) \/ EntrypointReturns(t) \/ NewCall(t)
  PROVE  CallsApart'
<1> USE DEF Go, Goto, Stay, Return, objects, system, monitorVars, CallsApart
<1>0. TypeOK /\ WhoRuns /\ CallsApart /\ WhoIsListed /\ CallsProgress
  BY DEF IInv
<1>a. CASE Abort
  BY <1>a, Untouched DEF Abort, IInv
<1>b. /\ pc \in [Threads -> Labels] /\ local \in [Threads -> Locals]
      /\ kernel \in [Threads -> Kernels]
      /\ state \in [Threads -> States] /\ context \in [Threads -> Threads \cup {NoThread}]
      /\ thread_handle \in [Threads -> Threads \cup {InvalidHandle}]
      /\ thread_name \in [Threads -> Nat]
  BY <1>0 DEF TypeOK
<1>c. pc[t] \in OnObject => local[t].thread \in Threads \ {MainThread}
  BY <1>0 DEF CallsApart
<1>d. ASSUME local'[t].thread = local[t].thread, pc'[t] \in OnObject <=> pc[t] \in OnObject,
             \A u \in Threads \ {t} : local'[u] = local[u] /\ pc'[u] = pc[u]
      PROVE  CallsApart'
  BY <1>0, <1>d
<1>e. ASSUME local'[t].thread = NoThread, pc'[t] \notin OnObject,
             \A u \in Threads \ {t} : local'[u] = local[u] /\ pc'[u] = pc[u]
      PROVE  CallsApart'
  BY <1>0, <1>e
<1>1. CASE Start(t)
  <2>1. CASE ThreadListCtor(t)
    BY <1>b, <1>d, <2>1 DEF ThreadListCtor, OnObject, Creating, Destroying
  <2>2. CASE InitMainThread(t)
    BY <1>b, <1>d, <2>2 DEF InitMainThread, Assign, Locals, OnObject, Creating, Destroying
  <2>3. CASE InitializeVirtualMemoryAllocators(t)
    BY <1>a, <1>b, <1>d, <1>e, <2>3
    DEF InitializeVirtualMemoryAllocators, Assign, NoLocals, Locals, OnObject, Creating, Destroying
  <2> QED BY <1>1, <2>1, <2>3, <2>2 DEF Start
<1>2. CASE EntryWrapper(t)
  BY <1>0, <1>b, <1>2
  DEF EntryWrapper, EntryContext, EntryTest, EntryExit, SetThreadContext, OnObject, Creating,
      Destroying
<1>3. CASE CreateStep(t)
  <2>1. CASE CreateAliasStack(t) \/ CreateThreadUnsafe(t) \/ NameThread(t)
    BY <1>a, <1>b, <1>d, <2>1
    DEF CreateAliasStack, CreateThreadUnsafe, NameThread, OnObject, Creating, Destroying
  <2>2. CASE EnterList(t, "addEnter", "adding")
    BY <1>b, <1>d, <2>2 DEF EnterList, OnObject, Creating
  <2>3. CASE PushBack(t)
    <3>1. pc[t] \in OnObject /\ pc'[t] \in OnObject
      BY <1>b, <2>3 DEF PushBack, OnObject, Creating
    <3> QED BY <1>d, <2>3, <3>1, Adding
  <2>4. CASE Return(t, "addLeave") /\ LeaveList(t) /\ UNCHANGED <<objects, system, calls, added>>
    BY <1>b, <1>e, <2>4 DEF NoLocals, OnObject, Creating, Destroying
  <2> QED BY <1>3, <2>1, <2>2, <2>3, <2>4 DEF CreateStep, AddThread
<1>4. CASE DestroyStep(t)
  <2>1. CASE WaitForExitThread(t) \/ DestroyThreadUnsafe(t)
    BY <1>b, <1>d, <2>1 DEF WaitForExitThread, DestroyThreadUnsafe, OnObject, Destroying
  <2>2. CASE EnterList(t, "removeEnter", "removing")
    BY <1>b, <1>d, <2>2 DEF EnterList, OnObject, Destroying
  <2>3. CASE UnlinkThread(t)
    <3>1. pc[t] \in OnObject /\ pc'[t] \in OnObject
      BY <1>b, <2>3 DEF UnlinkThread, OnObject, Destroying
    <3> QED BY <1>d, <2>3, <3>1, Removing
  <2>4. CASE Go(t, "removeLeave", "reset") /\ LeaveList(t)
             /\ UNCHANGED <<objects, system, local, calls, added>>
    BY <1>b, <1>d, <2>4 DEF OnObject, Destroying
  <2>5. CASE ResetThread(t)
    BY <1>b, <1>e, <2>5 DEF ResetThread, NoLocals, OnObject, Creating, Destroying
  <2> QED BY <1>4, <2>1, <2>2, <2>3, <2>4, <2>5 DEF DestroyStep, RemoveThread
<1>5. CASE WalkStep(t)
  <2>1. CASE Aquire(t)
    BY <1>b, <1>d, <2>1 DEF Aquire, EnterList, OnObject, Creating, Destroying
  <2>2. CASE Begin(t) \/ Visit(t)
    BY <1>b, <1>d, <2>2 DEF Begin, Assign, Visit, Locals, OnObject, Creating, Destroying
  <2>3. CASE ReleaseList(t)
    BY <1>b, <1>e, <2>3 DEF ReleaseList, NoLocals, OnObject, Creating, Destroying
  <2> QED BY <1>5, <2>1, <2>2, <2>3 DEF WalkStep
<1>6. CASE EntrypointReturns(t)
  BY <1>0, <1>b, <1>6
  DEF EntrypointReturns, NoLocals, Assign, Walking, OnObject, Creating, Destroying
<1>7. CASE NewCall(t)
  <2>1. CASE Walk(t)
    BY <1>0, <1>b, <2>1
    DEF Walk, Call, NoLocals, InUse, WhoIsListed, Walking, OnObject, Creating, Destroying
  <2>2. CASE ExitProcess(t)
    BY <2>2, Untouched DEF ExitProcess, IInv
  <2>3. ASSUME NEW object \in Threads, CreateThread(t, object)
        PROVE  CallsApart'
    BY <1>0, <1>b, <2>3
    DEF CreateThread, CallFor, Call, NoLocals, InUse, WhoIsListed, Walking, OnObject, Creating,
        Destroying
  <2>4. ASSUME NEW object \in Threads, StartThread(t, object)
        PROVE  CallsApart'
    BY <1>0, <1>b, <2>4
    DEF StartThread, Instant, NoLocals, InUse, WhoIsListed, Walking, OnObject, Creating,
        Destroying
  <2>5. ASSUME NEW object \in Threads, DestroyThread(t, object)
        PROVE  CallsApart'
    BY <1>0, <1>b, <2>5
    DEF DestroyThread, CallFor, Call, NoLocals, InUse, WhoIsListed, Walking, OnObject, Creating,
        Destroying
  <2>6. ASSUME NEW object \in Threads, NEW length \in NameLengths, SetName(t, object, length)
        PROVE  CallsApart'
    BY <1>0, <1>b, <2>6
    DEF SetName, Instant, NoLocals, InUse, WhoIsListed, Walking, OnObject, Creating, Destroying
  <2> QED BY <1>7, <2>1, <2>2, <2>3, <2>4, <2>5, <2>6 DEF NewCall
<1> QED BY <1>1, <1>2, <1>3, <1>4, <1>5, <1>6, <1>7 DEF Continue

(* that the lock is held under the handle of the thread inside,            *)
LEMMA StepHolder ==
  ASSUME IInv, NEW t \in Threads, Running(t),
         Continue(t) \/ EntrypointReturns(t) \/ NewCall(t)
  PROVE  HolderIsCurrent'
<1> USE DEF Go, Goto, Stay, Return, objects, system, monitorVars, HolderIsCurrent, InSection
<1>0. TypeOK /\ WhoRuns /\ WhoAmI /\ HolderIsCurrent
  BY DEF IInv
<1>a. CASE Abort
  BY <1>a, Untouched DEF Abort, IInv
<1>b. /\ pc \in [Threads -> Labels] /\ local \in [Threads -> Locals]
      /\ kernel \in [Threads -> Kernels]
      /\ state \in [Threads -> States] /\ context \in [Threads -> Threads \cup {NoThread}]
      /\ thread_handle \in [Threads -> Threads \cup {InvalidHandle}]
      /\ thread_name \in [Threads -> Nat]
  BY <1>0 DEF TypeOK
<1>c. pc[t] \notin {"ctor", "context", "boot"} => GetCurrentThreadHandle(t) = t
  BY <1>0 DEF WhoAmI, GetCurrentThreadHandle, Running
<1>1. CASE Start(t)
  BY <1>0, <1>a, <1>b, <1>1
  DEF Start, ThreadListCtor, InitMainThread, InitializeVirtualMemoryAllocators, SetThreadContext,
      Startup
<1>2. CASE EntryWrapper(t)
  BY <1>0, <1>b, <1>2
  DEF EntryWrapper, EntryContext, EntryTest, EntryExit, SetThreadContext, Startup
<1>3. CASE CreateStep(t)
  <2>1. CASE CreateAliasStack(t) \/ CreateThreadUnsafe(t) \/ NameThread(t)
    BY <1>0, <1>a, <1>b, <2>1 DEF CreateAliasStack, CreateThreadUnsafe, NameThread
  <2>2. CASE AddThread(t)
    BY <1>0, <1>b, <1>c, <2>2 DEF AddThread, EnterList, Acquire, PushBack, LeaveList, Release
  <2> QED BY <1>3, <2>1, <2>2 DEF CreateStep
<1>4. CASE DestroyStep(t)
  BY <1>0, <1>b, <1>c, <1>4
  DEF DestroyStep, WaitForExitThread, DestroyThreadUnsafe, RemoveThread, EnterList, UnlinkThread,
      ResetThread, Acquire, LeaveList, Release
<1>5. CASE WalkStep(t)
  BY <1>0, <1>b, <1>c, <1>5
  DEF WalkStep, Aquire, EnterList, Begin, Visit, ReleaseList, Acquire, LeaveList, Release
<1>6. CASE EntrypointReturns(t)
  BY <1>0, <1>b, <1>6
  DEF EntrypointReturns, Acquire, LeaveList, Release, GetCurrentThreadHandle, WhoAmI, Running
<1>7. CASE NewCall(t)
  <2>1. CASE Walk(t)
    BY <1>0, <1>b, <2>1 DEF Walk, Call, Walking
  <2>2. CASE ExitProcess(t)
    BY <2>2, Untouched DEF ExitProcess, IInv
  <2>3. ASSUME NEW object \in Threads, CreateThread(t, object)
        PROVE  HolderIsCurrent'
    BY <1>0, <1>b, <2>3 DEF CreateThread, CallFor, Call, Walking
  <2>4. ASSUME NEW object \in Threads, StartThread(t, object)
        PROVE  HolderIsCurrent'
    BY <1>0, <1>b, <2>4 DEF StartThread, Instant, Walking
  <2>5. ASSUME NEW object \in Threads, DestroyThread(t, object)
        PROVE  HolderIsCurrent'
    BY <1>0, <1>b, <2>5 DEF DestroyThread, CallFor, Call, Walking
  <2>6. ASSUME NEW object \in Threads, NEW length \in NameLengths, SetName(t, object, length)
        PROVE  HolderIsCurrent'
    BY <1>0, <1>b, <2>6 DEF SetName, Instant, Walking
  <2> QED BY <1>7, <2>1, <2>2, <2>3, <2>4, <2>5, <2>6 DEF NewCall
<1> QED BY <1>1, <1>2, <1>3, <1>4, <1>5, <1>6, <1>7 DEF Continue

LEMMA ListedAreThreads == IInv => OnList \subseteq Threads
BY DEF IInv, TypeOK, OnList

(* An object stays in use while the call for it goes on.                   *)
LEMMA StillInUse ==
  ASSUME IInv, NEW t \in Threads,
         \A u \in Threads \ {t} : local'[u] = local[u] /\ pc'[u] = pc[u],
         \/ pc[t] \notin OnObject
         \/ pc'[t] # "idle" /\ local'[t].thread = local[t].thread
  PROVE  \A o \in Threads : InUse(o) => InUse(o)'
BY DEF IInv, CallsApart, InUse

(* which objects are on the list, and in what state they are,              *)
LEMMA StepListed ==
  ASSUME IInv, NEW t \in Threads, Running(t),
         Continue(t) \/ EntrypointReturns(t) \/ NewCall(t)
  PROVE  WhoIsListed'
<1> USE DEF Go, Goto, Stay, Return, objects, system, monitorVars, WhoIsListed
<1>0. TypeOK /\ WhoRuns /\ CallsApart /\ WhoIsListed /\ CallsProgress
  BY DEF IInv
<1>a. CASE Abort
  BY <1>a, Untouched DEF Abort, IInv
<1>b. /\ pc \in [Threads -> Labels] /\ local \in [Threads -> Locals]
      /\ kernel \in [Threads -> Kernels]
      /\ state \in [Threads -> States] /\ thread_name \in [Threads -> Nat]
  BY <1>0 DEF TypeOK
<1>c. pc[t] \in OnObject => local[t].thread \in Threads \ {MainThread}
  BY <1>0 DEF CallsApart
(* Steps that leave the list and the objects alone.                        *)
<1>d. ASSUME UNCHANGED <<state, thread_name, added, kernel>>, pc[t] # "ctor",
             \A u \in Threads \ {t} : local'[u] = local[u] /\ pc'[u] = pc[u],
             \/ pc[t] \notin OnObject
             \/ pc'[t] # "idle" /\ local'[t].thread = local[t].thread
      PROVE  WhoIsListed'
  <2>1. OnList' = OnList
    BY <1>d DEF OnList
  <2>2. \A o \in Threads : InUse(o) => InUse(o)'
    BY <1>d, StillInUse
  <2>3. pc'[MainThread] # "ctor" => MainThread \in OnList
    BY <1>0, <1>d
  <2> HIDE DEF Go, Goto, Stay, Return, objects, system, monitorVars
  <2> QED BY <1>0, <1>d, <2>1, <2>2, <2>3
<1>n. /\ MainThreadName \in Names /\ UnnamedThreadName \in Names
      /\ \A length \in NameLengths : length < THREAD_NAME_SIZE => length \in Names
  BY DEF Names, MainThreadName, UnnamedThreadName, THREAD_NAME_SIZE
<1>1. CASE Start(t)
  <2>1. CASE ThreadListCtor(t)
    <3>1. t = MainThread /\ OnList' = {MainThread}
      BY <1>0, <2>1 DEF ThreadListCtor, WhoRuns, Startup, OnList
    <3>2. /\ thread_name'[MainThread] \in Names /\ state'[MainThread] = "Uninitialized"
          /\ \A o \in Threads \ {MainThread} : state'[o] = state[o] /\ kernel'[o] = "none"
      BY <1>0, <1>b, <1>n, <2>1, <3>1
      DEF ThreadListCtor, WhoRuns, SetThreadName, MainThreadName, THREAD_NAME_SIZE
    <3>3. \A o \in Threads \ {MainThread} : state[o] # "Uninitialized" => InUse(o)
      BY <1>0, <2>1, <3>1 DEF WhoRuns, OnList, ThreadListCtor
    <3>4. \A o \in Threads : InUse(o) => InUse(o)'
      BY <1>b, <2>1, StillInUse DEF ThreadListCtor, OnObject, Creating, Destroying
    <3> QED BY <3>1, <3>2, <3>3, <3>4
  <2>2. CASE InitMainThread(t)
    BY <1>b, <1>d, <2>2 DEF InitMainThread, Assign, OnObject, Creating, Destroying
  <2>3. CASE InitializeVirtualMemoryAllocators(t)
    BY <1>a, <1>b, <1>d, <2>3
    DEF InitializeVirtualMemoryAllocators, Assign, OnObject, Creating, Destroying
  <2> QED BY <1>1, <2>1, <2>2, <2>3 DEF Start
<1>2. CASE EntryWrapper(t)
  <2>1. CASE EntryContext(t) \/ EntryTest(t)
    BY <1>b, <1>d, <2>1 DEF EntryContext, EntryTest, OnObject, Creating, Destroying
  <2>2. CASE EntryExit(t)
    <3>1. OnList' = OnList /\ pc[t] # "ctor" /\ (t # MainThread => t \in OnList)
      BY <1>0, <2>2 DEF EntryExit, OnList, Running
    <3>2. t # MainThread
      BY <1>2 DEF EntryWrapper
    <3>3. \A o \in Threads : InUse(o) => InUse(o)'
      BY <1>b, <2>2, StillInUse DEF EntryExit, OnObject, Creating, Destroying
    <3> QED BY <1>0, <1>b, <2>2, <3>1, <3>2, <3>3 DEF EntryExit
  <2> QED BY <1>2, <2>1, <2>2 DEF EntryWrapper
<1>3. CASE CreateStep(t)
  <2>1. CASE CreateAliasStack(t)
    BY <1>a, <1>b, <1>d, <2>1 DEF CreateAliasStack
  <2>2. CASE CreateThreadUnsafe(t)
    <3>1. CASE UNCHANGED kernel
      BY <1>a, <1>b, <1>d, <2>2, <3>1 DEF CreateThreadUnsafe
    <3>2. CASE kernel' = [kernel EXCEPT ![local[t].thread] = "created"] /\ Go(t, "make", "name")
               /\ UNCHANGED <<state, thread_name, added, local>>
      <4>1. OnList' = OnList
        BY <3>2 DEF OnList
      <4>2. \A o \in Threads : InUse(o) => InUse(o)'
        BY <1>b, <3>2, StillInUse
      <4>3. local[t].thread \in Threads \ {MainThread} /\ state[local[t].thread] = "Initialized"
        BY <1>0, <1>c, <3>2 DEF CallsProgress, Progress, OnObject, Creating
      <4> QED BY <1>0, <1>b, <3>2, <4>1, <4>2, <4>3
    <3> QED BY <1>a, <2>2, <3>1, <3>2 DEF CreateThreadUnsafe
  <2>3. CASE NameThread(t)
    <3>1. OnList' = OnList
      BY <2>3 DEF NameThread, OnList
    <3>2. \A o \in Threads : InUse(o) => InUse(o)'
      BY <1>b, <2>3, StillInUse DEF NameThread
    <3>3. local[t].thread \notin OnList
      BY <1>0, <2>3 DEF NameThread, CallsProgress, Progress, OnObject, Creating
    <3>4. \A o \in OnList : thread_name'[o] = thread_name[o]
      BY <1>b, <2>3, <3>3 DEF NameThread, SetThreadName
    <3> QED BY <1>0, <1>b, <2>3, <3>1, <3>2, <3>4 DEF NameThread
  <2>4. CASE EnterList(t, "addEnter", "adding")
    BY <1>b, <1>d, <2>4 DEF EnterList
  <2>5. CASE PushBack(t)
    <3>1. \A o \in Threads : InUse(o) => InUse(o)'
      <4>1. pc'[t] # "idle"
        BY <1>b, <2>5 DEF PushBack
      <4> QED BY <2>5, <4>1, Adding, StillInUse
    <3>2. OnList' = OnList \/ OnList' = OnList \cup {local[t].thread}
      <4>1. CASE added' = added
        BY <4>1 DEF OnList
      <4>2. CASE added' = Append(added, local[t].thread)
        <5>1. added \in Seq(Threads) /\ local[t].thread \in Threads
          BY <1>0, <1>c, <2>5 DEF TypeOK, PushBack, OnObject, Creating
        <5> QED BY <4>2, <5>1, ListAppend DEF OnList
      <4> QED BY <2>5, <4>1, <4>2, Adding
    <3>3. local[t].thread \in Threads \ {MainThread} /\ state[local[t].thread] # "Uninitialized"
          /\ thread_name[local[t].thread] \in Names
      BY <1>0, <1>c, <2>5 DEF PushBack, CallsProgress, Progress, OnObject, Creating
    <3>4. pc'[MainThread] # "ctor" => pc[MainThread] # "ctor"
      BY <1>b, <2>5 DEF PushBack
    <3>5. UNCHANGED <<state, kernel, thread_name>>
      BY <2>5 DEF PushBack
    <3> QED BY <1>0, <3>1, <3>2, <3>3, <3>4, <3>5
  <2>6. CASE Return(t, "addLeave") /\ LeaveList(t) /\ UNCHANGED <<objects, system, calls, added>>
    <3>1. OnList' = OnList /\ local[t].thread \in OnList
      BY <1>0, <2>6 DEF OnList, CallsProgress, Progress, OnObject
    <3>2. \A o \in Threads \ {local[t].thread} : InUse(o) => InUse(o)'
      BY <1>b, <2>6 DEF InUse
    <3> QED BY <1>0, <1>b, <2>6, <3>1, <3>2
  <2> QED BY <1>3, <2>1, <2>2, <2>3, <2>4, <2>5, <2>6 DEF CreateStep, AddThread
<1>4. CASE DestroyStep(t)
  <2>1. CASE WaitForExitThread(t)
    BY <1>b, <1>d, <2>1 DEF WaitForExitThread
  <2>2. CASE DestroyThreadUnsafe(t)
    <3>1. OnList' = OnList /\ \A o \in Threads : kernel'[o] # "closed" => kernel'[o] = kernel[o]
      BY <1>b, <2>2 DEF DestroyThreadUnsafe, OnList
    <3>2. \A o \in Threads : InUse(o) => InUse(o)'
      BY <1>b, <2>2, StillInUse DEF DestroyThreadUnsafe
    <3>3. pc'[MainThread] # "ctor" /\ pc[MainThread] # "ctor"
      BY <1>0, <1>b, <1>c, <2>2
      DEF DestroyThreadUnsafe, WhoRuns, CallsProgress, Progress, OnObject, Creating, Destroying
    <3> QED BY <1>0, <1>b, <2>2, <3>1, <3>2, <3>3 DEF DestroyThreadUnsafe
  <2>3. CASE EnterList(t, "removeEnter", "removing")
    BY <1>b, <1>d, <2>3 DEF EnterList
  <2>4. CASE UnlinkThread(t)
    <3>0. PICK object \in Threads \ {MainThread} : object = local[t].thread
      BY <1>c, <2>4 DEF UnlinkThread, OnObject, Destroying
    <3>1. \A o \in Threads : InUse(o) => InUse(o)'
      <4>1. pc'[t] # "idle"
        BY <1>b, <2>4 DEF UnlinkThread
      <4> QED BY <2>4, <4>1, Removing, StillInUse
    <3>2. OnList' = OnList \/ OnList' = OnList \ {object}
      <4>1. added' = added => OnList' = OnList
        BY DEF OnList
      <4> QED BY <2>4, <3>0, <4>1, Removing
    <3>3. kernel[object] = "closed"
      BY <1>0, <2>4, <3>0 DEF UnlinkThread, CallsProgress, Progress, OnObject, Creating, Destroying
    <3>4. InUse(object)'
      <4>1. InUse(object)
        BY <2>4, <3>0 DEF UnlinkThread, InUse
      <4> QED BY <3>1, <4>1
    <3>5. pc'[MainThread] # "ctor" => pc[MainThread] # "ctor"
      BY <1>b, <2>4 DEF UnlinkThread
    <3>6. UNCHANGED <<state, kernel, thread_name>>
      BY <2>4 DEF UnlinkThread
    <3>7. \A o \in Threads \ {object} : o \in OnList => o \in OnList'
      BY <3>2
    <3>8. OnList' \subseteq OnList
      BY <3>2
    <3> HIDE DEF Go, Goto, Stay, Return, objects, system, monitorVars
    <3>9. \A o \in OnList' :
            thread_name'[o] \in Names /\ (o # MainThread => state'[o] # "Uninitialized")
      BY <1>0, <3>6, <3>8
    <3>10. pc'[MainThread] # "ctor" => MainThread \in OnList'
      BY <1>0, <3>3, <3>5, <3>7
    <3>11. ASSUME NEW o \in Threads \ {MainThread}
           PROVE  /\ kernel'[o] \in {"running", "exited"} => o \in OnList'
                  /\ state'[o] # "Uninitialized" /\ ~InUse(o)' => o \in OnList'
                  /\ kernel'[o] = "created" => state'[o] = "Initialized"
      BY <1>0, <3>1, <3>3, <3>6, <3>4, <3>7
    <3> QED BY <1>0, <3>6, <3>9, <3>10, <3>11
  <2>5. CASE Go(t, "removeLeave", "reset") /\ LeaveList(t)
             /\ UNCHANGED <<objects, system, local, calls, added>>
    BY <1>b, <1>d, <2>5
  <2>6. CASE ResetThread(t)
    <3>1. OnList' = OnList /\ local[t].thread \in Threads \ ({MainThread} \cup OnList)
          /\ kernel[local[t].thread] = "closed"
      BY <1>0, <1>c, <2>6
      DEF ResetThread, OnList, CallsProgress, Progress, OnObject, Creating, Destroying
    <3>2. \A o \in Threads \ {local[t].thread} : InUse(o) => InUse(o)'
      BY <1>b, <2>6 DEF ResetThread, InUse
    <3> QED BY <1>0, <1>b, <2>6, <3>1, <3>2 DEF ResetThread
  <2> QED BY <1>4, <2>1, <2>2, <2>3, <2>4, <2>5, <2>6 DEF DestroyStep, RemoveThread
<1>5. CASE WalkStep(t)
  BY <1>b, <1>d, <1>5
  DEF WalkStep, Aquire, EnterList, Begin, Assign, Visit, ReleaseList, OnObject, Creating, Destroying
<1>6. CASE EntrypointReturns(t)
  BY <1>b, <1>d, <1>6 DEF EntrypointReturns, OnObject, Creating, Destroying
<1>7. CASE NewCall(t)
  <2>1. CASE Walk(t)
    BY <1>b, <1>d, <2>1 DEF Walk, Call, OnObject, Creating, Destroying
  <2>2. CASE ExitProcess(t)
    BY <2>2, Untouched DEF ExitProcess, IInv
  <2>3. ASSUME NEW object \in Threads, CreateThread(t, object)
        PROVE  WhoIsListed'
    <3>1. OnList' = OnList /\ object \in Threads \ ({MainThread} \cup OnList)
      BY <1>0, <2>3 DEF CreateThread, OnList
    <3>2. \A o \in Threads : InUse(o) => InUse(o)'
      BY <1>b, <2>3, StillInUse DEF CreateThread, CallFor, Call, OnObject, Creating, Destroying
    <3>3. InUse(object)'
      BY <1>b, <2>3 DEF CreateThread, CallFor, Call, InUse, NoLocals
    <3> QED BY <1>0, <1>b, <2>3, <3>1, <3>2, <3>3 DEF CreateThread, CallFor, Call
  <2>4. ASSUME NEW object \in Threads, StartThread(t, object)
        PROVE  WhoIsListed'
    <3>1. /\ OnList' = OnList /\ object \in OnList \ {MainThread}
          /\ \A o \in Threads : InUse(o)' <=> InUse(o)
      BY <1>0, <2>4 DEF StartThread, Instant, OnList, InUse
    <3> QED BY <1>0, <1>b, <2>4, <3>1 DEF StartThread, Instant
  <2>5. ASSUME NEW object \in Threads, DestroyThread(t, object)
        PROVE  WhoIsListed'
    <3>1. OnList' = OnList /\ object \in OnList \ {MainThread}
      BY <1>0, <2>5 DEF DestroyThread, CallFor, OnList
    <3>2. \A o \in Threads : InUse(o) => InUse(o)'
      BY <1>b, <2>5, StillInUse DEF DestroyThread, CallFor, Call, OnObject, Creating, Destroying
    <3>3. /\ state'[MainThread] = state[MainThread] /\ thread_name' = thread_name
          /\ pc'[MainThread] # "ctor" => pc[MainThread] # "ctor"
          /\ \A o \in Threads \ {object} : state'[o] = state[o] /\ kernel'[o] = kernel[o]
          /\ state'[object] # "Uninitialized"
          /\ kernel'[object] = "created" => state'[object] = "Initialized"
      BY <1>0, <1>b, <2>5, <3>1 DEF DestroyThread, CallFor, Call
    <3> HIDE DEF Go, Goto, Stay, Return, objects, system, monitorVars
    <3>4. \A o \in OnList' :
            thread_name'[o] \in Names /\ (o # MainThread => state'[o] # "Uninitialized")
      BY <1>0, <3>1, <3>3, ListedAreThreads
    <3>5. ASSUME NEW o \in Threads \ {MainThread}
          PROVE  /\ kernel'[o] \in {"running", "exited"} => o \in OnList'
                 /\ state'[o] # "Uninitialized" /\ ~InUse(o)' => o \in OnList'
                 /\ kernel'[o] = "created" => state'[o] = "Initialized"
      BY <1>0, <3>1, <3>2, <3>3
    <3> QED BY <1>0, <3>1, <3>3, <3>4, <3>5
  <2>6. ASSUME NEW object \in Threads, NEW length \in NameLengths, SetName(t, object, length)
        PROVE  WhoIsListed'
    <3>1. OnList' = OnList /\ \A o \in Threads : InUse(o)' <=> InUse(o)
      BY <2>6 DEF SetName, Instant, OnList, InUse
    <3>2. \A o \in OnList : thread_name'[o] \in Names
      <4>1. \/ thread_name' = [thread_name EXCEPT ![object] = length] /\ length \in Names
            \/ thread_name' = thread_name
        BY <1>n, <2>6 DEF SetName, SetThreadName, THREAD_NAME_SIZE
      <4>2. OnList \subseteq Threads
        BY <1>0 DEF TypeOK, OnList
      <4> QED BY <1>0, <1>b, <4>1, <4>2
    <3> QED BY <1>0, <2>6, <3>1, <3>2 DEF SetName, Instant
  <2> QED BY <1>7, <2>1, <2>2, <2>3, <2>4, <2>5, <2>6 DEF NewCall
<1> QED BY <1>1, <1>2, <1>3, <1>4, <1>5, <1>6, <1>7 DEF Continue

(* Calls for other objects have come as far as before.                     *)
LEMMA OthersProgress ==
  ASSUME IInv, NEW t \in Threads,
         \A u \in Threads \ {t} : local'[u] = local[u] /\ pc'[u] = pc[u],
         \A u \in Threads \ {t} :
           pc[u] \in OnObject =>
             /\ state'[local[u].thread] = state[local[u].thread]
             /\ kernel'[local[u].thread] = kernel[local[u].thread]
             /\ thread_name'[local[u].thread] = thread_name[local[u].thread]
             /\ local[u].thread \in OnList' <=> local[u].thread \in OnList,
         pc'[t] \in OnObject => Progress(t, local[t].thread)'
  PROVE  CallsProgress'
<1>1. ASSUME NEW u \in Threads \ {t}, pc'[u] \in OnObject
      PROVE  Progress(u, local[u].thread)'
  BY <1>1 DEF IInv, CallsProgress, Progress
<1> QED BY <1>1 DEF CallsProgress

(* how far each call has come,                                             *)
LEMMA StepProgress ==
  ASSUME IInv, NEW t \in Threads, Running(t),
         Continue(t) \/ EntrypointReturns(t) \/ NewCall(t)
  PROVE  CallsProgress'
<1> USE DEF Go, Goto, Stay, Return, objects, system, monitorVars
<1>0. TypeOK /\ WhoRuns /\ CallsApart /\ WhoIsListed /\ CallsProgress
  BY DEF IInv
<1>a. CASE Abort
  BY <1>a, Untouched DEF Abort, IInv
<1>b. /\ pc \in [Threads -> Labels] /\ local \in [Threads -> Locals]
      /\ kernel \in [Threads -> Kernels]
      /\ state \in [Threads -> States] /\ thread_name \in [Threads -> Nat]
  BY <1>0 DEF TypeOK
<1>c. /\ \A u \in Threads : pc[u] \in OnObject => local[u].thread \in Threads \ {MainThread}
      /\ \A u \in Threads \ {t} :
           pc[u] \in OnObject /\ pc[t] \in OnObject => local[u].thread # local[t].thread
      /\ \A u \in Threads : pc[u] \in OnObject => InUse(local[u].thread)
  BY <1>0 DEF CallsApart, InUse, OnObject, Creating, Destroying
(* Steps that leave the list and the objects alone.                        *)
<1>d. ASSUME UNCHANGED <<state, thread_name, added, kernel>>,
             \A u \in Threads \ {t} : local'[u] = local[u] /\ pc'[u] = pc[u],
             pc'[t] \notin OnObject \/ Progress(t, local[t].thread)'
      PROVE  CallsProgress'
  <2>1. OnList' = OnList
    BY <1>d DEF OnList
  <2> HIDE DEF Go, Goto, Stay, Return, objects, system, monitorVars
  <2> QED BY <1>d, <2>1, OthersProgress
<1>1. CASE Start(t)
  <2>1. CASE ThreadListCtor(t)
    <3>1. \A u \in Threads \ {t} : local'[u] = local[u] /\ pc'[u] = pc[u]
      BY <1>b, <2>1 DEF ThreadListCtor
    <3>2. \A u \in Threads \ {t} : pc[u] \notin OnObject
      BY <1>0, <2>1 DEF ThreadListCtor, WhoRuns, OnObject, Startup, Creating, Destroying
    <3>3. pc'[t] \notin OnObject
      BY <1>b, <2>1 DEF ThreadListCtor, OnObject, Creating, Destroying
    <3> HIDE DEF Go, Goto, Stay, Return, objects, system, monitorVars
    <3> QED BY <3>1, <3>2, <3>3, OthersProgress
  <2>2. CASE InitMainThread(t)
    BY <1>b, <1>d, <2>2 DEF InitMainThread, Assign, OnObject, Creating, Destroying
  <2>3. CASE InitializeVirtualMemoryAllocators(t)
    BY <1>a, <1>b, <1>d, <2>3
    DEF InitializeVirtualMemoryAllocators, Assign, OnObject, Creating, Destroying
  <2> QED BY <1>1, <2>1, <2>2, <2>3 DEF Start
<1>2. CASE EntryWrapper(t)
  <2>1. CASE EntryContext(t) \/ EntryTest(t)
    BY <1>b, <1>d, <2>1 DEF EntryContext, EntryTest, OnObject, Creating, Destroying
  <2>2. CASE EntryExit(t)
    <3>1. \A u \in Threads \ {t} : local'[u] = local[u] /\ pc'[u] = pc[u]
      BY <1>b, <2>2 DEF EntryExit
    <3>2. pc'[t] \notin OnObject /\ OnList' = OnList /\ thread_name' = thread_name
      BY <1>b, <2>2 DEF EntryExit, OnObject, Creating, Destroying, OnList
    <3>3. /\ state'[t] = "Exited" /\ kernel'[t] = "exited" /\ kernel[t] = "running"
          /\ \A o \in Threads \ {t} : state'[o] = state[o] /\ kernel'[o] = kernel[o]
      BY <1>b, <2>2 DEF EntryExit, Running
    <3>4. ASSUME NEW u \in Threads \ {t}, pc[u] \in OnObject
          PROVE  Progress(u, local[u].thread)'
      <4>1. Progress(u, local[u].thread) /\ local[u].thread \in Threads
        BY <1>0, <1>c, <3>4 DEF CallsProgress
      <4> HIDE DEF Go, Goto, Stay, Return, objects, system, monitorVars
      <4> QED BY <3>1, <3>2, <3>3, <3>4, <4>1 DEF Progress, OnObject, Creating, Destroying
    <3> QED BY <3>1, <3>2, <3>4 DEF CallsProgress
  <2> QED BY <1>2, <2>1, <2>2 DEF EntryWrapper
<1>3. CASE CreateStep(t)
  <2>1. CASE CreateAliasStack(t)
    <3>1. CASE Go(t, "alias", "make") /\ Stay /\ UNCHANGED local
      <4>1. /\ UNCHANGED <<state, thread_name, added, kernel, local>>
            /\ \A u \in Threads \ {t} : pc'[u] = pc[u]
            /\ pc[t] = "alias" /\ pc'[t] = "make" /\ OnList' = OnList
        BY <1>b, <3>1 DEF OnList
      <4> HIDE DEF Go, Goto, Stay, Return, objects, system, monitorVars
      <4>2. Progress(t, local[t].thread)
        BY <1>0, <4>1 DEF CallsProgress, OnObject, Creating
      <4>3. Progress(t, local[t].thread)'
        BY <4>1, <4>2 DEF Progress, Creating
      <4> QED BY <1>d, <4>1, <4>3
    <3> QED BY <1>a, <2>1, <3>1 DEF CreateAliasStack
  <2>2. CASE CreateThreadUnsafe(t) /\ ~Abort
    <3>1. \A u \in Threads \ {t} : local'[u] = local[u] /\ pc'[u] = pc[u]
      BY <1>b, <2>2 DEF CreateThreadUnsafe
    <3>2. \A u \in Threads \ {t} :
           pc[u] \in OnObject =>
             /\ state'[local[u].thread] = state[local[u].thread]
             /\ kernel'[local[u].thread] = kernel[local[u].thread]
             /\ thread_name'[local[u].thread] = thread_name[local[u].thread]
             /\ local[u].thread \in OnList' <=> local[u].thread \in OnList
      BY <1>0, <1>b, <1>c, <2>2 DEF CreateThreadUnsafe, OnList, OnObject, Creating, Destroying
    <3>3. pc'[t] \in OnObject => Progress(t, local[t].thread)'
      <4>1. /\ pc[t] = "make" /\ pc'[t] = "name" /\ local' = local /\ OnList' = OnList
            /\ local[t].thread \in Threads /\ state' = state
            /\ kernel'[local[t].thread] \in {"created", kernel[local[t].thread]}
        BY <1>b, <1>c, <2>2 DEF CreateThreadUnsafe, OnList, OnObject, Creating
      <4>2. /\ state[local[t].thread] = "Initialized" /\ local[t].thread \notin OnList
            /\ kernel[local[t].thread] \in {"none", "created"}
        BY <1>0, <4>1 DEF CallsProgress, Progress, OnObject, Creating
      <4> HIDE DEF Go, Goto, Stay, Return, objects, system, monitorVars
      <4> QED BY <4>1, <4>2 DEF Progress, Creating
    <3> HIDE DEF Go, Goto, Stay, Return, objects, system, monitorVars
    <3> QED BY <3>1, <3>2, <3>3, OthersProgress
  <2>3. CASE NameThread(t)
    <3>0. thread_name' = [thread_name EXCEPT ![local[t].thread] = UnnamedThreadName]
          /\ UnnamedThreadName \in Names
      BY <2>3 DEF NameThread, SetThreadName, Names, UnnamedThreadName, THREAD_NAME_SIZE
    <3>1. \A u \in Threads \ {t} : local'[u] = local[u] /\ pc'[u] = pc[u]
      BY <1>b, <2>3, <3>0 DEF NameThread
    <3>2. \A u \in Threads \ {t} :
           pc[u] \in OnObject =>
             /\ state'[local[u].thread] = state[local[u].thread]
             /\ kernel'[local[u].thread] = kernel[local[u].thread]
             /\ thread_name'[local[u].thread] = thread_name[local[u].thread]
             /\ local[u].thread \in OnList' <=> local[u].thread \in OnList
      BY <1>0, <1>b, <1>c, <2>3, <3>0 DEF NameThread, OnList, OnObject, Creating, Destroying
    <3>3. pc'[t] \in OnObject => Progress(t, local[t].thread)'
      BY <1>0, <1>b, <1>c, <2>3, <3>0
      DEF NameThread, OnList, CallsProgress, Progress, OnObject, Creating, Destroying
    <3> HIDE DEF Go, Goto, Stay, Return, objects, system, monitorVars
    <3> QED BY <3>1, <3>2, <3>3, OthersProgress
  <2>4. CASE EnterList(t, "addEnter", "adding")
    <3>1. Progress(t, local[t].thread)'
      BY <1>0, <1>b, <2>4 DEF EnterList, CallsProgress, Progress, OnList, OnObject, Creating
    <3> QED BY <1>b, <1>d, <2>4, <3>1 DEF EnterList
  <2>5. CASE PushBack(t)
    <3>1. \A u \in Threads \ {t} : local'[u] = local[u] /\ pc'[u] = pc[u]
      BY <2>5, Adding
    <3>2. PICK object \in Threads : object = local[t].thread /\ object = local'[t].thread
      BY <1>0, <2>5, Adding
    <3>3. /\ added' = added => OnList' = OnList
          /\ added' = Append(added, object) => OnList' = OnList \cup {object}
      <4>1. added \in Seq(Threads)
        BY <1>0 DEF TypeOK
      <4> QED BY <4>1, ListAppend DEF OnList
    <3>4. \A o \in Threads \ {object} : o \in OnList' <=> o \in OnList
      BY <2>5, <3>2, <3>3, Adding
    <3>5. Progress(t, local[t].thread)'
      <4>1. /\ pc[t] = "adding" /\ state[object] = "Initialized" /\ object \notin OnList
            /\ kernel[object] \in {"none", "created"} /\ thread_name[object] \in Names
            /\ state' = state /\ kernel' = kernel /\ thread_name' = thread_name
        BY <1>0, <2>5, <3>2 DEF PushBack, CallsProgress, Progress, OnObject, Creating
      <4>2. \/ pc' = pc /\ added' = added
            \/ pc' = [pc EXCEPT ![t] = "addLeave"] /\ added' = Append(added, object)
        BY <2>5, <3>2, Adding
      <4>3. \/ pc'[t] = "adding" /\ object \notin OnList'
            \/ pc'[t] = "addLeave" /\ object \in OnList'
        BY <1>b, <3>3, <4>1, <4>2
      <4> HIDE DEF Go, Goto, Stay, Return, objects, system, monitorVars
      <4> QED BY <3>2, <4>1, <4>3 DEF Progress, Creating
    <3>6. UNCHANGED <<state, kernel, thread_name>>
      BY <2>5 DEF PushBack
    <3>7. \A u \in Threads \ {t} : pc[u] \in OnObject => local[u].thread \in Threads \ {object}
      BY <1>c, <2>5, <3>2 DEF PushBack, OnObject, Creating, Destroying
    <3> HIDE DEF Go, Goto, Stay, Return, objects, system, monitorVars
    <3> QED BY <3>1, <3>4, <3>5, <3>6, <3>7, OthersProgress
  <2>6. CASE Return(t, "addLeave") /\ LeaveList(t) /\ UNCHANGED <<objects, system, calls, added>>
    BY <1>b, <1>d, <2>6 DEF OnObject, Creating, Destroying
  <2> QED BY <1>3, <1>a, <2>1, <2>2, <2>3, <2>4, <2>5, <2>6 DEF CreateStep, AddThread
<1>4. CASE DestroyStep(t)
  <2>1. CASE WaitForExitThread(t)
    BY <1>0, <1>b, <1>d, <2>1
    DEF WaitForExitThread, CallsProgress, Progress, OnList, OnObject, Creating, Destroying
  <2>2. CASE DestroyThreadUnsafe(t)
    <3>1. \A u \in Threads \ {t} : local'[u] = local[u] /\ pc'[u] = pc[u]
      BY <1>b, <2>2 DEF DestroyThreadUnsafe
    <3>2. \A u \in Threads \ {t} :
           pc[u] \in OnObject =>
             /\ state'[local[u].thread] = state[local[u].thread]
             /\ kernel'[local[u].thread] = kernel[local[u].thread]
             /\ thread_name'[local[u].thread] = thread_name[local[u].thread]
             /\ local[u].thread \in OnList' <=> local[u].thread \in OnList
      BY <1>0, <1>b, <1>c, <2>2 DEF DestroyThreadUnsafe, OnList, OnObject, Creating, Destroying
    <3>3. pc'[t] \in OnObject => Progress(t, local[t].thread)'
      <4>1. /\ pc[t] = "close" /\ pc'[t] = "removeEnter" /\ local' = local /\ OnList' = OnList
            /\ local[t].thread \in Threads /\ state' = state
            /\ kernel'[local[t].thread] = "closed"
        BY <1>b, <1>c, <2>2 DEF DestroyThreadUnsafe, OnList, OnObject, Destroying
      <4>2. state[local[t].thread] # "Uninitialized" /\ local[t].thread \in OnList
        BY <1>0, <1>c, <4>1 DEF CallsProgress, Progress, WhoIsListed, OnObject, Destroying
      <4> HIDE DEF Go, Goto, Stay, Return, objects, system, monitorVars
      <4> QED BY <4>1, <4>2 DEF Progress, Creating
    <3> HIDE DEF Go, Goto, Stay, Return, objects, system, monitorVars
    <3> QED BY <3>1, <3>2, <3>3, OthersProgress
  <2>3. CASE EnterList(t, "removeEnter", "removing")
    BY <1>0, <1>b, <1>d, <2>3
    DEF EnterList, CallsProgress, Progress, OnList, OnObject, Creating, Destroying
  <2>4. CASE UnlinkThread(t)
    <3>1. \A u \in Threads \ {t} : local'[u] = local[u] /\ pc'[u] = pc[u]
      BY <2>4, Removing
    <3>2. PICK object \in Threads : object = local[t].thread /\ object = local'[t].thread
      BY <1>0, <2>4, Removing
    <3>3. \A o \in Threads \ {object} : o \in OnList' <=> o \in OnList
      <4>1. added' = added => OnList' = OnList
        BY DEF OnList
      <4> QED BY <2>4, <3>2, <4>1, Removing
    <3>4. Progress(t, local[t].thread)'
      <4>1. /\ pc[t] = "removing" /\ state[object] # "Uninitialized" /\ kernel[object] = "closed"
            /\ object \in OnList
            /\ state' = state /\ kernel' = kernel /\ thread_name' = thread_name
        BY <1>0, <2>4, <3>2
        DEF UnlinkThread, CallsProgress, Progress, OnObject, Creating, Destroying
      <4>2. added' = added => OnList' = OnList
        BY DEF OnList
      <4>3. \/ pc'[t] = "removing" /\ object \in OnList'
            \/ pc'[t] = "removeLeave" /\ object \notin OnList'
        BY <1>b, <2>4, <3>2, <4>1, <4>2, Removing
      <4> HIDE DEF Go, Goto, Stay, Return, objects, system, monitorVars
      <4> QED BY <3>2, <4>1, <4>3 DEF Progress, Creating
    <3>5. UNCHANGED <<state, kernel, thread_name>>
      BY <2>4 DEF UnlinkThread
    <3>6. \A u \in Threads \ {t} : pc[u] \in OnObject => local[u].thread \in Threads \ {object}
      BY <1>c, <2>4, <3>2 DEF UnlinkThread, OnObject, Creating, Destroying
    <3> HIDE DEF Go, Goto, Stay, Return, objects, system, monitorVars
    <3> QED BY <3>1, <3>3, <3>4, <3>5, <3>6, OthersProgress
  <2>5. CASE Go(t, "removeLeave", "reset") /\ LeaveList(t)
             /\ UNCHANGED <<objects, system, local, calls, added>>
    BY <1>0, <1>b, <1>d, <2>5 DEF CallsProgress, Progress, OnList, OnObject, Creating, Destroying
  <2>6. CASE ResetThread(t)
    <3>1. \A u \in Threads \ {t} : local'[u] = local[u] /\ pc'[u] = pc[u]
      BY <1>b, <2>6 DEF ResetThread
    <3>2. \A u \in Threads \ {t} :
           pc[u] \in OnObject =>
             /\ state'[local[u].thread] = state[local[u].thread]
             /\ kernel'[local[u].thread] = kernel[local[u].thread]
             /\ thread_name'[local[u].thread] = thread_name[local[u].thread]
             /\ local[u].thread \in OnList' <=> local[u].thread \in OnList
      BY <1>0, <1>b, <1>c, <2>6 DEF ResetThread, OnList, OnObject, Creating, Destroying
    <3>3. pc'[t] \in OnObject => Progress(t, local[t].thread)'
      BY <1>0, <1>b, <1>c, <2>6
      DEF ResetThread, OnList, CallsProgress, Progress, OnObject, Creating, Destroying
    <3> HIDE DEF Go, Goto, Stay, Return, objects, system, monitorVars
    <3> QED BY <3>1, <3>2, <3>3, OthersProgress
  <2> QED BY <1>4, <2>1, <2>2, <2>3, <2>4, <2>5, <2>6 DEF DestroyStep, RemoveThread
<1>5. CASE WalkStep(t)
  BY <1>b, <1>d, <1>5
  DEF WalkStep, Aquire, EnterList, Begin, Assign, Visit, ReleaseList, OnObject, Creating, Destroying
<1>6. CASE EntrypointReturns(t)
  BY <1>b, <1>d, <1>6 DEF EntrypointReturns, OnObject, Creating, Destroying
<1>7. CASE NewCall(t)
  <2>1. CASE Walk(t)
    BY <1>b, <1>d, <2>1 DEF Walk, Call, OnObject, Creating, Destroying
  <2>2. CASE ExitProcess(t)
    BY <2>2, Untouched DEF ExitProcess, IInv
  <2>3. ASSUME NEW object \in Threads, CreateThread(t, object)
        PROVE  CallsProgress'
    <3>1. \A u \in Threads \ {t} : local'[u] = local[u] /\ pc'[u] = pc[u]
      BY <1>b, <2>3 DEF CreateThread, CallFor, Call, NoLocals
    <3>2. \A u \in Threads \ {t} :
           pc[u] \in OnObject =>
             /\ state'[local[u].thread] = state[local[u].thread]
             /\ kernel'[local[u].thread] = kernel[local[u].thread]
             /\ thread_name'[local[u].thread] = thread_name[local[u].thread]
             /\ local[u].thread \in OnList' <=> local[u].thread \in OnList
      BY <1>0, <1>b, <1>c, <2>3
      DEF CreateThread, CallFor, Call, NoLocals, OnList, OnObject, Creating, Destroying
    <3>3. pc'[t] \in OnObject => Progress(t, local[t].thread)'
      BY <1>0, <1>b, <1>c, <2>3
      DEF CreateThread, CallFor, Call, NoLocals, OnList, CallsProgress, Progress, OnObject,
          Creating, Destroying, WhoIsListed
    <3> HIDE DEF Go, Goto, Stay, Return, objects, system, monitorVars
    <3> QED BY <3>1, <3>2, <3>3, OthersProgress
  <2>4. ASSUME NEW object \in Threads, StartThread(t, object)
        PROVE  CallsProgress'
    <3>1. \A u \in Threads \ {t} : local'[u] = local[u] /\ pc'[u] = pc[u]
      BY <1>b, <2>4 DEF StartThread, Instant
    <3>2. \A u \in Threads \ {t} :
           pc[u] \in OnObject =>
             /\ state'[local[u].thread] = state[local[u].thread]
             /\ kernel'[local[u].thread] = kernel[local[u].thread]
             /\ thread_name'[local[u].thread] = thread_name[local[u].thread]
             /\ local[u].thread \in OnList' <=> local[u].thread \in OnList
      BY <1>0, <1>b, <1>c, <2>4 DEF StartThread, Instant, OnList, OnObject, Creating, Destroying
    <3>3. pc'[t] \in OnObject => Progress(t, local[t].thread)'
      BY <1>0, <1>b, <1>c, <2>4
      DEF StartThread, Instant, OnList, CallsProgress, Progress, OnObject, Creating, Destroying
    <3> HIDE DEF Go, Goto, Stay, Return, objects, system, monitorVars
    <3> QED BY <3>1, <3>2, <3>3, OthersProgress
  <2>5. ASSUME NEW object \in Threads, DestroyThread(t, object)
        PROVE  CallsProgress'
    <3>1. \A u \in Threads \ {t} : local'[u] = local[u] /\ pc'[u] = pc[u]
      BY <1>b, <2>5 DEF DestroyThread, CallFor, Call, NoLocals
    <3>2. \A u \in Threads \ {t} :
           pc[u] \in OnObject =>
             /\ state'[local[u].thread] = state[local[u].thread]
             /\ kernel'[local[u].thread] = kernel[local[u].thread]
             /\ thread_name'[local[u].thread] = thread_name[local[u].thread]
             /\ local[u].thread \in OnList' <=> local[u].thread \in OnList
      BY <1>0, <1>b, <1>c, <2>5
      DEF DestroyThread, CallFor, Call, NoLocals, OnList, OnObject, Creating, Destroying
    <3>3. pc'[t] \in OnObject => Progress(t, local[t].thread)'
      BY <1>0, <1>b, <1>c, <2>5
      DEF DestroyThread, CallFor, Call, NoLocals, OnList, CallsProgress, Progress, OnObject,
          Creating, Destroying, WhoIsListed
    <3> HIDE DEF Go, Goto, Stay, Return, objects, system, monitorVars
    <3> QED BY <3>1, <3>2, <3>3, OthersProgress
  <2>6. ASSUME NEW object \in Threads, NEW length \in NameLengths, SetName(t, object, length)
        PROVE  CallsProgress'
    <3>0. \A o \in Threads \ {object} : thread_name'[o] = thread_name[o]
      BY <1>b, <2>6 DEF SetName, SetThreadName
    <3>1. \A u \in Threads \ {t} : local'[u] = local[u] /\ pc'[u] = pc[u]
      BY <1>b, <2>6, <3>0 DEF SetName, Instant
    <3>2. \A u \in Threads \ {t} :
           pc[u] \in OnObject =>
             /\ state'[local[u].thread] = state[local[u].thread]
             /\ kernel'[local[u].thread] = kernel[local[u].thread]
             /\ thread_name'[local[u].thread] = thread_name[local[u].thread]
             /\ local[u].thread \in OnList' <=> local[u].thread \in OnList
      BY <1>0, <1>b, <1>c, <2>6, <3>0 DEF SetName, Instant, OnList, OnObject, Creating, Destroying
    <3>3. pc'[t] \in OnObject => Progress(t, local[t].thread)'
      BY <1>0, <1>b, <1>c, <2>6, <3>0
      DEF SetName, Instant, OnList, CallsProgress, Progress, OnObject, Creating, Destroying
    <3> HIDE DEF Go, Goto, Stay, Return, objects, system, monitorVars
    <3> QED BY <3>1, <3>2, <3>3, OthersProgress
  <2> QED BY <1>7, <2>1, <2>2, <2>3, <2>4, <2>5, <2>6 DEF NewCall
<1> QED BY <1>1, <1>2, <1>3, <1>4, <1>5, <1>6, <1>7 DEF Continue

-----------------------------------------------------------------------------
(* Who is inside the lock is inside alone.                                 *)
LEMMA InsideAlone ==
  ASSUME IInv, NEW t \in Threads, InSection(t)
  PROVE  \A u \in Threads \ {t} : ~InSection(u)
BY DEF IInv, HolderIsCurrent

(* Before the first store of either call, the list is as the last call has *)
(* left it.                                                                *)
LEMMA BeforeAdding ==
  ASSUME NEW m \in Memory, NEW s \in Seq(Threads), Rings(m, s),
         NEW call \in Locals, call.i = 0, Alone(m, call.thread)
  PROVE  PartlyAdded(m, s, call)
<1>1. Node(s, Len(s) + 1) = Root
  BY DEF Node
<1> QED BY <1>1 DEF Rings, NextFrom, PrevInto, Alone, PartlyAdded

LEMMA BeforeRemoving ==
  ASSUME NEW m \in Memory, NEW s \in Seq(Threads), Rings(m, s),
         NEW call \in Locals, call.i = 0, NEW k \in 1..Len(s), s[k] = call.thread
  PROVE  PartlyRemoved(m, s, call, k)
<1>1. Node(s, k) = call.thread /\ k - 1 \in 0..Len(s) /\ k \in 0..Len(s) /\ (k - 1) + 1 = k
  BY DEF Node
<1>2. /\ m.next[Node(s, k - 1)] = Node(s, k) /\ m.prev[Node(s, k)] = Node(s, k - 1)
      /\ m.next[Node(s, k)] = Node(s, k + 1) /\ m.prev[Node(s, k + 1)] = Node(s, k)
  BY <1>1 DEF Rings, NextFrom, PrevInto
<1> QED BY <1>1, <1>2 DEF Rings, NextFrom, PrevInto, PartlyRemoved

(* A store to a node that is not on the list and that no call works on     *)
(* changes nothing.                                                        *)
LEMMA ElsewhereStored ==
  ASSUME NEW m \in Memory, NEW n \in Memory, NEW s \in Seq(Threads), NEW o \in Threads,
         \A i \in 1..Len(s) : s[i] # o,
         \A x \in Nodes \ {o} : n.next[x] = m.next[x] /\ n.prev[x] = m.prev[x]
  PROVE  /\ Rings(m, s) => Rings(n, s)
         /\ \A call \in Locals : call.thread \in Threads \ {o} =>
              /\ PartlyAdded(m, s, call) => PartlyAdded(n, s, call)
              /\ \A k \in 1..Len(s) : PartlyRemoved(m, s, call, k) => PartlyRemoved(n, s, call, k)
              /\ Alone(m, call.thread) => Alone(n, call.thread)
<1>1. \A i \in Int : Node(s, i) \in Nodes \ {o}
  BY NodeType DEF Node, Nodes
<1>2. Threads \subseteq Nodes
  BY DEF Nodes
<1>3. \A I \in SUBSET Int : NextFrom(m, s, I) => NextFrom(n, s, I)
  BY <1>1 DEF NextFrom
<1>4. \A I \in SUBSET Int : PrevInto(m, s, I) => PrevInto(n, s, I)
  <2>1. \A i \in Int : n.prev[Node(s, i + 1)] = m.prev[Node(s, i + 1)]
    BY <1>1
  <2> QED BY <2>1 DEF PrevInto
<1>5. Rings(m, s) => Rings(n, s)
  BY <1>3, <1>4 DEF Rings
<1>6. ASSUME NEW call \in Locals, call.thread \in Threads \ {o}
      PROVE  PartlyAdded(m, s, call) => PartlyAdded(n, s, call)
  BY <1>1, <1>2, <1>3, <1>4, <1>6 DEF PartlyAdded
<1>7. ASSUME NEW call \in Locals, call.thread \in Threads \ {o}, NEW k \in 1..Len(s)
      PROVE  PartlyRemoved(m, s, call, k) => PartlyRemoved(n, s, call, k)
  BY <1>1, <1>2, <1>3, <1>4, <1>7 DEF PartlyRemoved
<1>8. ASSUME NEW call \in Locals, call.thread \in Threads \ {o}
      PROVE  Alone(m, call.thread) => Alone(n, call.thread)
  BY <1>2, <1>8 DEF Alone
<1> QED BY <1>5, <1>6, <1>7, <1>8

(* the pointers, between the stores as well,                               *)
LEMMA StepLinks ==
  ASSUME IInv, NEW t \in Threads, Running(t),
         Continue(t) \/ EntrypointReturns(t) \/ NewCall(t)
  PROVE  ListIsLinked'
<1> USE DEF Go, Goto, Stay, Return, objects, system, monitorVars
<1>0. TypeOK /\ WhoRuns /\ CallsApart /\ CallsProgress /\ HolderIsCurrent /\ ListIsLinked
  BY DEF IInv
<1>a. CASE Abort
  BY <1>a, Untouched DEF Abort, IInv
<1>b. /\ pc \in [Threads -> Labels] /\ local \in [Threads -> Locals]
      /\ links \in Memory /\ added \in Seq(Threads)
  BY <1>0 DEF TypeOK
<1>c. \A u \in Threads :
        /\ pc[u] \in OnObject => local[u].thread \in Threads \ {MainThread}
        /\ pc[u] \in Creating => local[u].thread \notin OnList
  BY <1>0 DEF CallsApart, CallsProgress, Progress, OnObject
(* Steps that leave the list alone.                                        *)
<1>d. ASSUME UNCHANGED <<links, added>>,
             \A u \in Threads \ {t} : local'[u] = local[u] /\ pc'[u] = pc[u],
             {pc[t], pc'[t]} \cap {"adding", "removing"} = {},
             pc'[t] \in OnObject => local'[t].i = 0,
             pc'[t] \in Creating => Alone(links, local'[t].thread)
      PROVE  ListIsLinked'
  <2> HIDE DEF Go, Goto, Stay, Return, objects, system, monitorVars
  <2> QED BY <1>0, <1>d DEF ListIsLinked
<1>1. CASE Start(t)
  <2>1. CASE ThreadListCtor(t)
    <3>1. t = MainThread /\ added' = <<MainThread>> /\ pc'[t] = "context"
          /\ \A u \in Threads \ {t} : pc'[u] = "boot"
      BY <1>0, <1>b, <2>1 DEF ThreadListCtor, WhoRuns, Startup
    <3>2. Rings(links', <<MainThread>>)
      BY <1>b, <2>1, FirstList DEF ThreadListCtor
    <3>3. Distinct(<<MainThread>>)
      BY DEF Distinct
    <3>4. \A u \in Threads : pc'[u] \notin OnObject
      BY <3>1 DEF OnObject, Creating, Destroying
    <3> HIDE DEF Go, Goto, Stay, Return, objects, system, monitorVars
    <3> QED BY <3>1, <3>2, <3>3, <3>4 DEF ListIsLinked, OnObject, Creating
  <2>2. CASE InitMainThread(t)
    BY <1>b, <1>d, <2>2 DEF InitMainThread, Assign, OnObject, Creating, Destroying
  <2>3. CASE InitializeVirtualMemoryAllocators(t)
    BY <1>a, <1>b, <1>d, <2>3
    DEF InitializeVirtualMemoryAllocators, Assign, OnObject, Creating, Destroying
  <2> QED BY <1>1, <2>1, <2>2, <2>3 DEF Start
<1>2. CASE EntryWrapper(t)
  BY <1>b, <1>d, <1>2
  DEF EntryWrapper, EntryContext, EntryTest, EntryExit, OnObject, Creating, Destroying
<1>3. CASE CreateStep(t)
  <2>1. CASE (CreateAliasStack(t) \/ CreateThreadUnsafe(t) \/ NameThread(t)) /\ ~Abort
    <3>1. /\ UNCHANGED <<links, added, local>> /\ pc[t] \in {"alias", "make", "name"}
          /\ pc'[t] \in {"make", "name", "addEnter"}
          /\ \A u \in Threads \ {t} : pc'[u] = pc[u]
      BY <1>b, <2>1 DEF CreateAliasStack, CreateThreadUnsafe, NameThread
    <3> HIDE DEF Go, Goto, Stay, Return, objects, system, monitorVars
    <3>2. local[t].i = 0 /\ Alone(links, local[t].thread)
      BY <1>0, <3>1 DEF ListIsLinked, OnObject, Creating
    <3> QED BY <1>d, <3>1, <3>2
  <2>2. CASE EnterList(t, "addEnter", "adding")
    <3>1. /\ pc[t] = "addEnter" /\ pc' = [pc EXCEPT ![t] = "adding"]
          /\ UNCHANGED <<links, local, added>>
          /\ \A u \in Threads : pc[u] \notin {"adding", "removing"}
      BY <1>0, <1>b, <2>2 DEF EnterList, Acquire, HolderIsCurrent, InSection
    <3> HIDE DEF Go, Goto, Stay, Return, objects, system, monitorVars
    <3>2. Rings(links, added) /\ local[t].i = 0 /\ Alone(links, local[t].thread)
      BY <1>0, <3>1 DEF ListIsLinked, OnObject, Creating
    <3>3. PartlyAdded(links, added, local[t])
      BY <1>b, <3>2, BeforeAdding
    <3> QED BY <1>0, <1>b, <3>1, <3>3 DEF ListIsLinked
  <2>3. CASE PushBack(t)
    <3>1. /\ pc[t] = "adding" /\ Distinct(added')
          /\ \A u \in Threads \ {t} : local'[u] = local[u] /\ pc'[u] = pc[u]
      BY <2>3, Adding
    <3>2. \A u \in Threads \ {t} : pc[u] \notin {"adding", "removing"}
      BY <3>1, InsideAlone DEF InSection
    <3>3. \A u \in Threads \ {t} :
            /\ pc[u] \in Creating => Alone(links, local[u].thread)
            /\ pc[u] \in OnObject => local[u].i = 0
      BY <1>0, <3>2 DEF ListIsLinked, OnObject
    <3>4. \A u \in Threads \ {t} : pc[u] \in Creating => Alone(links', local[u].thread)
      <4>1. \A u \in Threads \ {t} : pc[u] \in Creating =>
              local[u].thread \in Threads \ ({local[t].thread} \cup OnList)
        BY <1>0, <1>c, <3>1 DEF CallsApart, OnObject, Creating, Destroying
      <4> QED BY <2>3, <3>3, <4>1, Adding DEF Alone
    <3>5. \/ /\ pc'[t] = "adding" /\ added' = added
             /\ PartlyAdded(links', added, local'[t])
          \/ pc'[t] = "addLeave" /\ local'[t].i = 0 /\ Rings(links', added')
      BY <1>b, <2>3, <3>1, Adding
    <3> HIDE DEF Go, Goto, Stay, Return, objects, system, monitorVars
    <3> QED BY <3>1, <3>2, <3>3, <3>4, <3>5 DEF ListIsLinked, OnObject, Creating, Destroying
  <2>4. CASE Return(t, "addLeave") /\ LeaveList(t) /\ UNCHANGED <<objects, system, calls, added>>
    BY <1>b, <1>d, <2>4 DEF OnObject, Creating, Destroying
  <2> QED BY <1>3, <1>a, <2>1, <2>2, <2>3, <2>4 DEF CreateStep, AddThread
<1>4. CASE DestroyStep(t)
  <2>1. CASE WaitForExitThread(t) \/ DestroyThreadUnsafe(t)
    <3>1. pc[t] \in {"join", "close"} /\ pc'[t] \in {"close", "removeEnter"}
      BY <1>b, <2>1 DEF WaitForExitThread, DestroyThreadUnsafe
    <3>2. local[t].i = 0
      BY <1>0, <3>1 DEF ListIsLinked, OnObject, Destroying
    <3> QED BY <1>b, <1>d, <2>1, <3>1, <3>2 DEF WaitForExitThread, DestroyThreadUnsafe, Creating
  <2>2. CASE EnterList(t, "removeEnter", "removing")
    <3>1. /\ pc[t] = "removeEnter" /\ pc' = [pc EXCEPT ![t] = "removing"]
          /\ UNCHANGED <<links, local, added>>
          /\ \A u \in Threads : pc[u] \notin {"adding", "removing"}
      BY <1>0, <1>b, <2>2 DEF EnterList, Acquire, HolderIsCurrent, InSection
    <3> HIDE DEF Go, Goto, Stay, Return, objects, system, monitorVars
    <3>2. Rings(links, added) /\ local[t].i = 0
      BY <1>0, <3>1 DEF ListIsLinked, OnObject, Destroying
    <3>3. PICK k \in 1..Len(added) : added[k] = local[t].thread
      BY <1>0, <3>1 DEF CallsProgress, Progress, OnList, OnObject, Destroying
    <3>4. PartlyRemoved(links, added, local[t], k)
      BY <1>b, <3>2, <3>3, BeforeRemoving
    <3> QED BY <1>0, <1>b, <3>1, <3>4 DEF ListIsLinked, Creating
  <2>3. CASE UnlinkThread(t)
    <3>1. /\ pc[t] = "removing" /\ Distinct(added')
          /\ \A u \in Threads \ {t} : local'[u] = local[u] /\ pc'[u] = pc[u]
      BY <2>3, Removing
    <3>2. \A u \in Threads \ {t} : pc[u] \notin {"adding", "removing"}
      BY <3>1, InsideAlone DEF InSection
    <3>3. \A u \in Threads \ {t} :
            /\ pc[u] \in Creating => Alone(links, local[u].thread)
            /\ pc[u] \in OnObject => local[u].i = 0
      BY <1>0, <3>2 DEF ListIsLinked, OnObject
    <3>4. \A u \in Threads \ {t} : pc[u] \in Creating => Alone(links', local[u].thread)
      <4>1. \A u \in Threads \ {t} : pc[u] \in Creating =>
              local[u].thread \in Threads \ ({local[t].thread} \cup OnList)
        BY <1>0, <1>c, <3>1 DEF CallsApart, OnObject, Creating, Destroying
      <4> QED BY <2>3, <3>3, <4>1, Removing DEF Alone
    <3>5. \/ /\ pc'[t] = "removing" /\ added' = added
             /\ \E k \in 1..Len(added) : PartlyRemoved(links', added, local'[t], k)
          \/ pc'[t] = "removeLeave" /\ local'[t].i = 0 /\ Rings(links', added')
      BY <1>b, <2>3, <3>1, Removing
    <3> HIDE DEF Go, Goto, Stay, Return, objects, system, monitorVars
    <3> QED BY <3>1, <3>2, <3>3, <3>4, <3>5 DEF ListIsLinked, OnObject, Creating, Destroying
  <2>4. CASE Go(t, "removeLeave", "reset") /\ LeaveList(t)
             /\ UNCHANGED <<objects, system, local, calls, added>>
    <3>1. local[t].i = 0
      BY <1>0, <2>4 DEF ListIsLinked, OnObject, Destroying
    <3> QED BY <1>b, <1>d, <2>4, <3>1 DEF Creating
  <2>5. CASE ResetThread(t)
    BY <1>b, <1>d, <2>5 DEF ResetThread, OnObject, Creating, Destroying
  <2> QED BY <1>4, <2>1, <2>2, <2>3, <2>4, <2>5 DEF DestroyStep, RemoveThread
<1>5. CASE WalkStep(t)
  BY <1>b, <1>d, <1>5
  DEF WalkStep, Aquire, EnterList, Begin, Assign, Visit, ReleaseList, OnObject, Creating, Destroying
<1>6. CASE EntrypointReturns(t)
  BY <1>b, <1>d, <1>6 DEF EntrypointReturns, OnObject, Creating, Destroying
<1>7. CASE NewCall(t)
  <2>1. CASE Walk(t)
    BY <1>b, <1>d, <2>1 DEF Walk, Call, OnObject, Creating, Destroying
  <2>2. CASE ExitProcess(t)
    BY <2>2, Untouched DEF ExitProcess, IInv
  <2>3. ASSUME NEW object \in Threads, CreateThread(t, object)
        PROVE  ListIsLinked'
    <3>1. /\ object \notin OnList /\ object # MainThread
          /\ \A u \in Threads : pc[u] \in OnObject => local[u].thread # object
      BY <1>0, <1>c, <2>3
      DEF CreateThread, CallFor, InUse, IInv, WhoIsListed, OnObject, Creating, Destroying
    <3>2. /\ links' \in Memory /\ Alone(links', object)
          /\ \A x \in Nodes \ {object} :
               links'.next[x] = links.next[x] /\ links'.prev[x] = links.prev[x]
      <4>1. links' = Construct(links, object) /\ object \in Nodes
        BY <2>3 DEF CreateThread, Nodes
      <4>2. /\ Construct(links, object) \in Memory
            /\ \A x \in Nodes :
                 Construct(links, object).prev[x] = IF x = object THEN object ELSE links.prev[x]
            /\ \A x \in Nodes :
                 Construct(links, object).next[x] = IF x = object THEN object ELSE links.next[x]
        BY <1>b, <4>1, Constructed
      <4> QED BY <4>1, <4>2 DEF Alone
    <3>3. /\ added' = added /\ pc' = [pc EXCEPT ![t] = "alias"] /\ pc[t] = "idle"
          /\ local'[t].thread = object /\ local'[t].i = 0
          /\ \A u \in Threads \ {t} : local'[u] = local[u]
      BY <1>b, <2>3 DEF CreateThread, CallFor, Call, NoLocals
    <3>4. \A i \in 1..Len(added) : added[i] # object
      BY <3>1 DEF OnList
    <3> HIDE DEF Go, Goto, Stay, Return, objects, system, monitorVars
    <3>5. Rings(links, added) => Rings(links', added)
      BY <1>b, <3>2, <3>4, ElsewhereStored
    <3>6. ASSUME NEW u \in Threads \ {t}, pc[u] \in OnObject
          PROVE  /\ PartlyAdded(links, added, local[u]) => PartlyAdded(links', added, local[u])
                 /\ \A k \in 1..Len(added) :
                      PartlyRemoved(links, added, local[u], k)
                        => PartlyRemoved(links', added, local[u], k)
                 /\ Alone(links, local[u].thread) => Alone(links', local[u].thread)
      BY <1>b, <1>c, <3>1, <3>2, <3>4, <3>6, ElsewhereStored
    <3>7. Distinct(added)
      BY <1>0 DEF ListIsLinked
    <3>8. (\A u \in Threads : pc'[u] \notin {"adding", "removing"}) => Rings(links', added)
      BY <1>0, <1>b, <3>3, <3>5 DEF ListIsLinked
    <3>9. ASSUME NEW u \in Threads
          PROVE  /\ pc'[u] \in OnObject \ {"adding", "removing"} => local'[u].i = 0
                 /\ pc'[u] \in Creating \ {"adding"} => Alone(links', local'[u].thread)
                 /\ pc'[u] = "adding" => PartlyAdded(links', added, local'[u])
                 /\ pc'[u] = "removing" =>
                      \E k \in 1..Len(added) : PartlyRemoved(links', added, local'[u], k)
      <4>1. CASE u = t
        BY <1>b, <3>2, <3>3, <4>1 DEF OnObject, Creating
      <4>2. CASE u # t
        <5>1. pc'[u] = pc[u] /\ local'[u] = local[u]
          BY <1>b, <3>3, <4>2
        <5> QED BY <1>0, <3>6, <4>2, <5>1 DEF ListIsLinked, OnObject, Creating, Destroying
      <4> QED BY <4>1, <4>2
    <3> QED BY <3>3, <3>7, <3>8, <3>9 DEF ListIsLinked
  <2>4. ASSUME NEW object \in Threads, StartThread(t, object)
        PROVE  ListIsLinked'
    BY <1>b, <1>d, <2>4 DEF StartThread, Instant, OnObject, Creating, Destroying
  <2>5. ASSUME NEW object \in Threads, DestroyThread(t, object)
        PROVE  ListIsLinked'
    BY <1>b, <1>d, <2>5 DEF DestroyThread, CallFor, Call, NoLocals, OnObject, Creating, Destroying
  <2>6. ASSUME NEW object \in Threads, NEW length \in NameLengths, SetName(t, object, length)
        PROVE  ListIsLinked'
    BY <1>b, <1>d, <2>6 DEF SetName, Instant, OnObject, Creating, Destroying
  <2> QED BY <1>7, <2>1, <2>2, <2>3, <2>4, <2>5, <2>6 DEF NewCall
<1> QED BY <1>1, <1>2, <1>3, <1>4, <1>5, <1>6, <1>7 DEF Continue

(* Nobody changes the list under a walker.                                 *)
LEMMA RingForWalkers ==
  ASSUME IInv, NEW t \in Threads, pc[t] \in {"begin", "walking"}
  PROVE  Rings(links, added)
<1>1. \A u \in Threads : pc[u] \notin {"adding", "removing"}
  BY InsideAlone DEF InSection
<1> QED BY <1>1 DEF IInv, ListIsLinked

(* and what walkers have seen.                                             *)
LEMMA StepWalk ==
  ASSUME IInv, NEW t \in Threads, Running(t),
         Continue(t) \/ EntrypointReturns(t) \/ NewCall(t)
  PROVE  WalkersKeepPlace'
<1> USE DEF Go, Goto, Stay, Return, objects, system, monitorVars
<1>0. TypeOK /\ WhoRuns /\ HolderIsCurrent /\ ListIsLinked /\ WalkersKeepPlace
  BY DEF IInv
<1>a. CASE Abort
  BY <1>a, Untouched DEF Abort, IInv
<1>b. /\ pc \in [Threads -> Labels] /\ local \in [Threads -> Locals]
      /\ links \in Memory /\ added \in Seq(Threads)
  BY <1>0 DEF TypeOK
(* Steps of a thread that does not walk, while the list stays what it is   *)
(* or nobody walks it.                                                     *)
<1>d. ASSUME added' = added \/ \A u \in Threads : pc[u] \notin {"walking", "walkLeave"},
             \A u \in Threads \ {t} : local'[u] = local[u] /\ pc'[u] = pc[u],
             pc'[t] \notin Walking
      PROVE  WalkersKeepPlace'
  <2> HIDE DEF Go, Goto, Stay, Return, objects, system, monitorVars
  <2> QED BY <1>0, <1>d DEF WalkersKeepPlace, Walking
<1>1. CASE Start(t)
  <2>1. CASE ThreadListCtor(t)
    <3>1. \A u \in Threads : pc[u] \notin {"walking", "walkLeave"}
      BY <1>0, <1>b, <2>1 DEF ThreadListCtor, WhoRuns, Startup
    <3> QED BY <1>b, <1>d, <2>1, <3>1 DEF ThreadListCtor, Walking
  <2>2. CASE InitMainThread(t)
    BY <1>b, <1>d, <2>2 DEF InitMainThread, Assign, Walking
  <2>3. CASE InitializeVirtualMemoryAllocators(t)
    BY <1>a, <1>b, <1>d, <2>3 DEF InitializeVirtualMemoryAllocators, Assign, Walking
  <2> QED BY <1>1, <2>1, <2>2, <2>3 DEF Start
<1>2. CASE EntryWrapper(t)
  BY <1>b, <1>d, <1>2 DEF EntryWrapper, EntryContext, EntryTest, EntryExit, Walking
<1>3. CASE CreateStep(t)
  <2>1. CASE (CreateAliasStack(t) \/ CreateThreadUnsafe(t) \/ NameThread(t)) /\ ~Abort
    BY <1>b, <1>d, <2>1 DEF CreateAliasStack, CreateThreadUnsafe, NameThread, Walking
  <2>2. CASE EnterList(t, "addEnter", "adding")
    BY <1>b, <1>d, <2>2 DEF EnterList, Walking
  <2>3. CASE PushBack(t)
    <3>1. InSection(t) /\ pc[t] \notin Walking /\ pc'[t] \notin Walking
      BY <1>b, <2>3 DEF PushBack, InSection, Walking
    <3>2. \A u \in Threads : pc[u] \notin {"walking", "walkLeave"}
      BY <3>1, InsideAlone DEF InSection, Walking
    <3> HIDE DEF Go, Goto, Stay, Return, objects, system, monitorVars
    <3> QED BY <1>d, <2>3, <3>1, <3>2, Adding
  <2>4. CASE Return(t, "addLeave") /\ LeaveList(t) /\ UNCHANGED <<objects, system, calls, added>>
    BY <1>b, <1>d, <2>4 DEF Walking
  <2> QED BY <1>3, <1>a, <2>1, <2>2, <2>3, <2>4 DEF CreateStep, AddThread
<1>4. CASE DestroyStep(t)
  <2>1. CASE WaitForExitThread(t) \/ DestroyThreadUnsafe(t) \/ ResetThread(t)
    BY <1>b, <1>d, <2>1 DEF WaitForExitThread, DestroyThreadUnsafe, ResetThread, Walking
  <2>2. CASE EnterList(t, "removeEnter", "removing")
    BY <1>b, <1>d, <2>2 DEF EnterList, Walking
  <2>3. CASE UnlinkThread(t)
    <3>1. InSection(t) /\ pc[t] \notin Walking /\ pc'[t] \notin Walking
      BY <1>b, <2>3 DEF UnlinkThread, InSection, Walking
    <3>2. \A u \in Threads : pc[u] \notin {"walking", "walkLeave"}
      BY <3>1, InsideAlone DEF InSection, Walking
    <3> HIDE DEF Go, Goto, Stay, Return, objects, system, monitorVars
    <3> QED BY <1>d, <2>3, <3>1, <3>2, Removing
  <2>4. CASE Go(t, "removeLeave", "reset") /\ LeaveList(t)
             /\ UNCHANGED <<objects, system, local, calls, added>>
    BY <1>b, <1>d, <2>4 DEF Walking
  <2> QED BY <1>4, <2>1, <2>2, <2>3, <2>4 DEF DestroyStep, RemoveThread
<1>5. CASE WalkStep(t)
  <2>1. CASE Aquire(t)
    BY <1>0, <1>b, <2>1 DEF Aquire, EnterList, WalkersKeepPlace
  <2>2. CASE Begin(t)
    <3>1. /\ local[t].seen = <<>> /\ added' = added /\ pc' = [pc EXCEPT ![t] = "walking"]
          /\ \A u \in Threads \ {t} : local'[u] = local[u] /\ pc'[u] = pc[u]
          /\ local'[t].seen = local[t].seen /\ local'[t].link = links.next[Root]
      BY <1>0, <1>b, <2>2 DEF Begin, Assign, WalkersKeepPlace, Locals
    <3>2. links.next[Root] = Node(added, 1)
      <4>1. Rings(links, added) /\ Node(added, 0) = Root /\ 0 \in 0..Len(added)
        BY <1>b, <2>2, RingForWalkers DEF Begin, Node
      <4> QED BY <4>1 DEF Rings, NextFrom
    <3> HIDE DEF Go, Goto, Stay, Return, objects, system, monitorVars
    <3> QED BY <1>0, <1>b, <3>1, <3>2 DEF WalkersKeepPlace
  <2>3. CASE Visit(t)
    <3> DEFINE seen == local[t].seen
               node == local[t].link
    <3>1. /\ pc[t] = "walking" /\ seen \in Seq(Threads) /\ Len(seen) <= Len(added)
          /\ \A i \in 1..Len(seen) : seen[i] = added[i]
          /\ node = Node(added, Len(seen) + 1)
      BY <1>0, <1>b, <2>3 DEF Visit, WalkersKeepPlace, Locals
    <3>2. added' = added /\ \A u \in Threads \ {t} : local'[u] = local[u] /\ pc'[u] = pc[u]
      BY <1>b, <2>3 DEF Visit
    <3>3. CASE node # Root
      <4>1. Len(seen) + 1 \in 1..Len(added) /\ node = added[Len(seen) + 1] /\ node \in Threads
        BY <1>b, <3>1, <3>3 DEF Node
      <4>2. /\ pc'[t] = "walking" /\ local'[t].seen = Append(seen, node)
            /\ local'[t].link = links.next[node]
        BY <1>b, <2>3, <3>3 DEF Visit, Locals
      <4>3. links.next[node] = Node(added, Len(seen) + 2)
        <5>1. Rings(links, added)
          BY <3>1, RingForWalkers
        <5>2. links.next[Node(added, Len(seen) + 1)] = Node(added, (Len(seen) + 1) + 1)
          BY <4>1, <5>1 DEF Rings, NextFrom
        <5>3. (Len(seen) + 1) + 1 = Len(seen) + 2
          BY <3>1
        <5> QED BY <3>1, <5>2, <5>3
      <4> HIDE DEF seen, node, Go, Goto, Stay, Return, objects, system, monitorVars
      <4>4. /\ Len(Append(seen, node)) = Len(seen) + 1
            /\ \A i \in 1..Len(Append(seen, node)) : Append(seen, node)[i] = added[i]
            /\ links.next[node] = Node(added, Len(Append(seen, node)) + 1)
        BY <1>b, <3>1, <4>1, <4>3
      <4>5. Len(Append(seen, node)) <= Len(added)
        BY <1>b, <3>1, <4>1, <4>4
      <4>6. /\ Len(local'[t].seen) <= Len(added)
            /\ \A i \in 1..Len(local'[t].seen) : local'[t].seen[i] = added[i]
            /\ local'[t].link = Node(added, Len(local'[t].seen) + 1)
        BY <4>2, <4>4, <4>5
      <4>7. pc'[t] = "walking"
        BY <4>2
      <4> QED BY <1>0, <3>2, <4>6, <4>7 DEF WalkersKeepPlace
    <3>4. CASE node = Root
      <4>1. Len(seen) = Len(added)
        BY <1>b, <3>1, <3>4 DEF Node
      <4>2. seen = added
        BY <1>b, <3>1, <4>1
      <4>3. pc'[t] = "walkLeave" /\ local' = local
        BY <1>b, <2>3, <3>4 DEF Visit
      <4> HIDE DEF Go, Goto, Stay, Return, objects, system, monitorVars
      <4> QED BY <1>0, <3>2, <4>2, <4>3 DEF WalkersKeepPlace
    <3> QED BY <3>3, <3>4
  <2>4. CASE ReleaseList(t)
    BY <1>b, <1>d, <2>4 DEF ReleaseList, Walking
  <2> QED BY <1>5, <2>1, <2>2, <2>3, <2>4 DEF WalkStep
<1>6. CASE EntrypointReturns(t)
  BY <1>b, <1>d, <1>6 DEF EntrypointReturns, Walking
<1>7. CASE NewCall(t)
  <2>1. CASE Walk(t)
    BY <1>0, <1>b, <2>1 DEF Walk, Call, NoLocals, WalkersKeepPlace
  <2>2. CASE ExitProcess(t)
    BY <2>2, Untouched DEF ExitProcess, IInv
  <2>3. ASSUME NEW object \in Threads, CreateThread(t, object)
        PROVE  WalkersKeepPlace'
    BY <1>b, <1>d, <2>3 DEF CreateThread, CallFor, Call, Walking
  <2>4. ASSUME NEW object \in Threads, StartThread(t, object)
        PROVE  WalkersKeepPlace'
    BY <1>b, <1>d, <2>4 DEF StartThread, Instant, Walking
  <2>5. ASSUME NEW object \in Threads, DestroyThread(t, object)
        PROVE  WalkersKeepPlace'
    BY <1>b, <1>d, <2>5 DEF DestroyThread, CallFor, Call, Walking
  <2>6. ASSUME NEW object \in Threads, NEW length \in NameLengths, SetName(t, object, length)
        PROVE  WalkersKeepPlace'
    BY <1>b, <1>d, <2>6 DEF SetName, Instant, Walking
  <2> QED BY <1>7, <2>1, <2>2, <2>3, <2>4, <2>5, <2>6 DEF NewCall
<1> QED BY <1>1, <1>2, <1>3, <1>4, <1>5, <1>6, <1>7 DEF Continue

-----------------------------------------------------------------------------
(* All of it together.                                                     *)
LEMMA StepIInv == IInv /\ [Next]_vars => IInv'
<1> SUFFICES ASSUME IInv, [Next]_vars PROVE IInv'
  OBVIOUS
<1>1. CASE UNCHANGED vars
  BY <1>1, Untouched DEF vars, system
<1>2. ASSUME NEW t \in Threads, Running(t), Continue(t) \/ EntrypointReturns(t) \/ NewCall(t)
      PROVE  IInv'
  BY <1>2, StepTypes, StepWho, StepCalls, StepListed, StepProgress, StepHolder, StepLinks, StepWalk
  DEF IInv
<1> QED BY <1>1, <1>2 DEF Next

LEMMA Invariance == Spec => []IInv
<1>1. Init => IInv
  BY InitIInv
<1>2. IInv /\ [Next]_vars => IInv'
  BY StepIInv
<1> QED BY <1>1, <1>2, PTL DEF Spec

(* The lock of the list is held under the handle of the one thread that is *)
(* between Enter and Leave: InitMainThread and _thread_entry_wrapper set   *)
(* the context, and creation the handle, before the first Enter.           *)
THEOREM HolderIsRight == Spec => []HolderIsCurrent
<1>1. IInv => HolderIsCurrent
  BY DEF IInv
<1> QED BY <1>1, Invariance, PTL

(* A loop between Aquire and Release meets the listed objects, each once,  *)
(* in the order of their AddThread, its own thread's among them; each has  *)
(* a name that fits and, the main thread's aside, is not destroyed.        *)
THEOREM WalkIsRight == Spec => []WalkMeetsThreads
<1>1. ASSUME IInv, NEW t \in Threads, pc[t] = "walkLeave"
      PROVE  /\ local[t].seen = added
             /\ \E i \in 1..Len(added) : added[i] = t
             /\ \A i \in 1..Len(added) :
                  /\ thread_name[added[i]] \in Names
                  /\ added[i] # MainThread => state[added[i]] # "Uninitialized"
  <2>1. local[t].seen = added
    BY <1>1 DEF IInv, WalkersKeepPlace
  <2>2. t \in OnList
    BY <1>1 DEF IInv, WhoRuns, WhoIsListed
  <2>3. \A o \in OnList :
          thread_name[o] \in Names /\ (o # MainThread => state[o] # "Uninitialized")
    BY <1>1 DEF IInv, WhoIsListed
  <2> QED BY <2>1, <2>2, <2>3 DEF OnList
<1>2. IInv => WalkMeetsThreads
  BY <1>1 DEF WalkMeetsThreads
<1> QED BY <1>2, Invariance, PTL

-----------------------------------------------------------------------------
(* What is true of 0 and passes from i - 1 to i is true up to n.           *)
LEMMA UpTo ==
  ASSUME NEW n \in Nat, NEW S, 0 \in S, \A i \in 1..n : i - 1 \in S => i \in S
  PROVE  0..n \subseteq S
<1> DEFINE Less == OpToRel(<, Nat)
           Rest == {i \in 0..n : i \notin S}
<1>1. IsWellFoundedOn(Less, Nat)
  BY NatLessThanWellFounded
<1>2. \A x, y \in Nat : x < y => <<x, y>> \in Less
  BY DEF OpToRel
<1>3. Rest \in SUBSET Nat
  OBVIOUS
<1>4. ASSUME Rest # {} PROVE FALSE
  <2> HIDE DEF Less, Rest
  <2>1. PICK x \in Rest : \A y \in Rest : <<y, x>> \notin Less
    BY <1>1, <1>3, <1>4, WFMin
  <2>2. \A y \in Rest : ~(y < x)
    BY <1>2, <1>3, <2>1
  <2> USE DEF Rest
  <2>3. x \in 1..n /\ x - 1 \in 0..n
    BY <2>1
  <2>4. x - 1 \in S
    BY <2>2, <2>3
  <2> QED BY <2>1, <2>3, <2>4
<1> QED BY <1>4

(* There are not more different threads than threads.                      *)
LEMMA DistinctAreFew ==
  ASSUME NEW s \in Seq(Threads), Distinct(s)
  PROVE  Cardinality(Threads) \in Nat /\ Len(s) <= Cardinality(Threads)
<1>1. Cardinality(Threads) \in Nat
  BY FS_CardinalityType, FiniteAssumption
<1>2. IsFiniteSet(1..Len(s)) /\ Cardinality(1..Len(s)) = Len(s)
  <2>1. Len(s) \in Nat
    OBVIOUS
  <2> QED BY <2>1, FS_Interval
<1>3. s \in [1..Len(s) -> Threads]
  OBVIOUS
<1>4. ASSUME Cardinality(Threads) < Len(s) PROVE FALSE
  <2>1. \E i, j \in 1..Len(s) : i # j /\ s[i] = s[j]
    BY <1>2, <1>3, <1>4, FiniteAssumption, FS_PigeonHole
  <2> QED BY <2>1 DEF Distinct
<1> QED BY <1>1, <1>4

(* The first i elements, and one more step of the equation of Steps.       *)
Prefix(s, i) == IF i <= Len(s) THEN SubSeq(s, 1, i) ELSE s

StepFrom(s) ==
  LET n == links.next[IF s = <<>> THEN Root ELSE s[Len(s)]]
  IN IF n = Root THEN s ELSE Append(s, n)

(* The prefixes of a ring satisfy the equation of Steps.                   *)
LEMMA PrefixGrows ==
  ASSUME NEW s \in Seq(Threads), NextFrom(links, s, 0..Len(s)), NEW i \in Nat \ {0}
  PROVE  Prefix(s, i) = StepFrom(Prefix(s, i - 1))
<1> DEFINE before == Prefix(s, i - 1)
           n == links.next[IF before = <<>> THEN Root ELSE before[Len(before)]]
<1>1. CASE i <= Len(s)
  <2>1. before = SubSeq(s, 1, i - 1) /\ Prefix(s, i) = SubSeq(s, 1, i)
    BY <1>1 DEF Prefix
  <2>2. Len(before) = i - 1 /\ (\A j \in 1 .. i - 1 : before[j] = s[j]) /\ before \in Seq(Threads)
    BY <1>1, <2>1
  <2>3. (IF before = <<>> THEN Root ELSE before[Len(before)]) = Node(s, i - 1)
    BY <1>1, <2>2 DEF Node
  <2>4. n = s[i] /\ s[i] \in Threads /\ s[i] # Root
    BY <1>1, <2>3 DEF NextFrom, Node
  <2>5. SubSeq(s, 1, i) = Append(before, s[i])
    BY <1>1, <2>1
  <2>6. StepFrom(before) = IF n = Root THEN before ELSE Append(before, n)
    BY DEF StepFrom
  <2>7. Prefix(s, i) = StepFrom(before)
    <3> HIDE DEF before, n
    <3> QED BY <2>1, <2>4, <2>5, <2>6
  <2> QED BY <2>7
<1>2. CASE i > Len(s)
  <2>1. before = s /\ Prefix(s, i) = s
    BY <1>2 DEF Prefix
  <2>2. (IF s = <<>> THEN Root ELSE s[Len(s)]) = Node(s, Len(s))
    BY DEF Node
  <2>3. links.next[Node(s, Len(s))] = Root
    BY DEF NextFrom, Node
  <2> QED BY <2>1, <2>2, <2>3 DEF StepFrom
<1> QED BY <1>1, <1>2

(* Steps satisfies its equation, as something does; so it is the prefixes. *)
LEMMA RingIsListed ==
  ASSUME NEW s \in Seq(Threads), Distinct(s), NextFrom(links, s, 0..Len(s))
  PROVE  Listed = s
<1> DEFINE c == Cardinality(Threads)
           W == [i \in 0..c |-> Prefix(s, i)]
           F(g) == [i \in 0..c |-> IF i = 0 THEN <<>> ELSE StepFrom(g[i - 1])]
<1>1. c \in Nat /\ Len(s) <= c
  BY DistinctAreFew
<1> HIDE DEF c
<1>2. Prefix(s, 0) = <<>>
  BY DEF Prefix
<1>3. W = F(W)
  BY <1>1, <1>2, PrefixGrows
<1>4. Steps = CHOOSE g : g = F(g)
  BY DEF Steps, StepFrom, c
<1>5. Steps = F(Steps)
  BY <1>3, <1>4
<1> DEFINE S == {i \in 0..c : Steps[i] = Prefix(s, i)}
<1>6. 0 \in S
  BY <1>1, <1>2, <1>5
<1>7. \A i \in 1..c : i - 1 \in S => i \in S
  BY <1>1, <1>5, PrefixGrows
<1>8. c \in S
  <2> HIDE DEF S
  <2>1. 0..c \subseteq S
    BY <1>1, <1>6, <1>7, UpTo
  <2> QED BY <1>1, <2>1
<1>9. Prefix(s, c) = s
  BY <1>1 DEF Prefix
<1> QED BY <1>8, <1>9 DEF Listed, c

(* Between two changes the list links exactly the objects that AddThread   *)
(* has added and RemoveThread not removed, in that order and backwards.    *)
THEOREM ListIsRight == Spec => []ListIsExact
<1>1. ASSUME IInv, holder = InvalidHandle
      PROVE  /\ Listed = added
             /\ \A n \in {Root} \cup OnList : links.prev[links.next[n]] = n
  <2>1. \A t \in Threads : pc[t] \notin {"adding", "removing"}
    BY <1>1, NobodyAssumption DEF IInv, HolderIsCurrent, InSection
  <2>2. Rings(links, added) /\ Distinct(added) /\ added \in Seq(Threads)
    BY <1>1, <2>1 DEF IInv, ListIsLinked, TypeOK
  <2>3. Listed = added
    BY <2>2, RingIsListed DEF Rings
  <2>4. ASSUME NEW n \in {Root} \cup OnList PROVE \E i \in 0..Len(added) : n = Node(added, i)
    <3>1. CASE n = Root
      BY <2>2, <3>1 DEF Node
    <3>2. CASE n \in OnList
      BY <2>2, <3>2 DEF Node, OnList
    <3> QED BY <2>4, <3>1, <3>2
  <2>5. \A i \in 0..Len(added) : links.prev[links.next[Node(added, i)]] = Node(added, i)
    BY <2>2 DEF Rings, NextFrom, PrevInto
  <2> QED BY <2>3, <2>4, <2>5
<1>2. IInv => ListIsExact
  BY <1>1 DEF ListIsExact, OnList
<1> QED BY <1>2, Invariance, PTL

=============================================================================
