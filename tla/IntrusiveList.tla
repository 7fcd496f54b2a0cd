--------------------------- MODULE IntrusiveList ----------------------------
(***************************************************************************)
(* hs::util::IntrusiveList: a list is a root element in a ring of elements *)
(* that carry the pointers themselves, used without concurrency (its users *)
(* hold a lock).  A node is an element or the root of a list, named like   *)
(* the list.  Before its constructor runs, an element holds garbage.       *)
(* size and clear are loops, taken one round at a time.                    *)
(***************************************************************************)
EXTENDS IntrusiveListElement, SequencesExt

CONSTANTS Elements, Lists

ASSUME NamesApart == Elements \cap Lists = {}

(* Memory is finite.                                                       *)
ASSUME FiniteAssumption == IsFiniteSet(Elements)

VARIABLES
  links,   \* the pointers of all nodes
  alive,   \* the elements that were constructed
  loop,    \* the loop of size or clear that is under way
  last     \* the last call that returned, its arguments and its value

vars == <<links, alive, loop, last>>

Nodes == Elements \cup Lists
Live == alive \cup Lists

NoLoop == [what |-> "none"]
Loops == {NoLoop}
         \cup [what : {"size"}, list : Lists, temp : Nodes, result : Nat]
         \cup [what : {"clear"}, list : Lists]

TypeOK ==
  /\ links \in [prev : [Nodes -> Nodes], next : [Nodes -> Nodes]]
  /\ alive \subseteq Elements
  /\ loop \in Loops

-----------------------------------------------------------------------------
(* The nodes that follow a node in its ring, and the elements of a list.   *)
After(node) ==
  LET Steps[i \in 0..Cardinality(Elements)] ==
        IF i = 0 THEN <<>>
        ELSE LET s == Steps[i - 1]
                 n == links.next[IF s = <<>> THEN node ELSE Last(s)]
             IN IF n = node THEN s ELSE Append(s, n)
  IN Steps[Cardinality(Elements)]

Members(l) == After(l)

begin(l) == links.next[l]
end(l) == l
empty(l) == ~HasNext(links, l)

(* What ++ and -- make of either kind of iterator.                         *)
increment(position) == links.next[position]
decrement(position) == links.prev[position]

(* An element that may be added: on its own, or in a ring without a root.  *)
Alone(x) == x \in alive /\ ~HasNext(links, x)
Loose(x) == x \in alive /\ ToSet(After(x)) \cap Lists = {}

(* The places an iterator of a list may point to.                          *)
Positions == {n \in Live : (ToSet(After(n)) \cup {n}) \cap Lists # {}}

Init ==
  /\ \E garbage \in Nodes :
       LET Root(n, own) == IF n \in Lists THEN own ELSE garbage
       IN links = [prev |-> [n \in Nodes |-> Root(n, n)], next |-> [n \in Nodes |-> Root(n, n)]]
  /\ alive = {}
  /\ loop = NoLoop
  /\ last = <<"none">>

-----------------------------------------------------------------------------
Quiet == loop = NoLoop

Links(m, call) ==
  Quiet /\ links' = m /\ last' = call /\ UNCHANGED <<alive, loop>>

IntrusiveListElementCtor(x) ==
  /\ Quiet /\ x \notin alive
  /\ links' = Construct(links, x)
  /\ alive' = alive \cup {x}
  /\ UNCHANGED <<loop, last>>

push_front(l, x) ==
  Alone(x) /\ Links(LinkNext(links, l, x, x), <<"push_front", l, x>>)

push_back(l, x) ==
  Alone(x) /\ Links(LinkPrev(links, l, x, x), <<"push_back", l, x>>)

UnlinkOne(x) == Unlink(links, x, links.next[x])

(* Faulty variant: the element before the last one is taken out.           *)
pop_backTooEarly(l) == Links(UnlinkOne(links.prev[links.prev[l]]), <<"pop_back", l>>)

pop_back(l) == Links(UnlinkOne(links.prev[l]), <<"pop_back", l>>)

pop_front(l) == Links(UnlinkOne(links.next[l]), <<"pop_front", l>>)

insert(position, x) ==
  /\ Alone(x) /\ position \in Positions
  /\ Links(LinkPrev(links, position, x, x), <<"insert", position, x>>)

(* An element's own functions, which take a ring as a whole.               *)
ElementLinkPrev(position, x) ==
  /\ Loose(x) /\ position \in Positions
  /\ Links(LinkPrev(links, position, x, x), <<"LinkPrev", position, x>>)

ElementLinkNext(position, x) ==
  /\ Loose(x) /\ position \in Positions
  /\ Links(LinkNext(links, position, x, x), <<"LinkNext", position, x>>)

ElementUnlink(x) == x \in alive /\ Links(UnlinkOne(x), <<"Unlink", x, links.next[x]>>)

(* [first, past) of one ring; in a list the root is not part of it.        *)
ElementUnlinkRange(first, past) ==
  /\ first \in alive /\ past \in Live
  /\ \E i \in DOMAIN After(first) :
       /\ After(first)[i] = past
       /\ ToSet(SubSeq(After(first), 1, i - 1)) \cap Lists = {}
  /\ Links(Unlink(links, first, past), <<"Unlink", first, past>>)

-----------------------------------------------------------------------------
CallSize(l) ==
  /\ Quiet
  /\ loop' = [what |-> "size", list |-> l, temp |-> begin(l), result |-> 0]
  /\ UNCHANGED <<links, alive, last>>

SizeRound ==
  /\ loop.what = "size" /\ loop.temp # end(loop.list)
  /\ loop' = [loop EXCEPT !.temp = increment(@), !.result = @ + 1]
  /\ UNCHANGED <<links, alive, last>>

SizeReturns ==
  /\ loop.what = "size" /\ loop.temp = end(loop.list)
  /\ last' = <<"size", loop.list, loop.result>>
  /\ loop' = NoLoop
  /\ UNCHANGED <<links, alive>>

CallClear(l) ==
  Quiet /\ loop' = [what |-> "clear", list |-> l] /\ UNCHANGED <<links, alive, last>>

ClearRound ==
  /\ loop.what = "clear" /\ ~empty(loop.list)
  /\ links' = UnlinkOne(links.next[loop.list])
  /\ last' = <<"pop_front", loop.list>>
  /\ UNCHANGED <<alive, loop>>

ClearReturns ==
  /\ loop.what = "clear" /\ empty(loop.list)
  /\ last' = <<"clear", loop.list>>
  /\ loop' = NoLoop
  /\ UNCHANGED <<links, alive>>

-----------------------------------------------------------------------------
Query(call) == Links(links, call)

Emptiness(l) == Query(<<"empty", l, empty(l)>>)
Begin(l) == Query(<<"begin", l, begin(l)>>)
front(l) == ~empty(l) /\ Query(<<"front", l, links.next[l]>>)
back(l) == ~empty(l) /\ Query(<<"back", l, links.prev[l]>>)

(* Moving an iterator, forwards from anywhere but the end, backwards from  *)
(* anywhere but the beginning.                                             *)
Forward(position) ==
  /\ position \in Positions \ Lists
  /\ Query(<<"++", position, increment(position)>>)

Backward(position) ==
  /\ position \in Positions \ {begin(l) : l \in Lists}
  /\ Query(<<"--", position, decrement(position)>>)

Next ==
  \/ \E l \in Lists :
       \/ pop_front(l) \/ pop_back(l) \/ CallSize(l) \/ CallClear(l)
       \/ Emptiness(l) \/ Begin(l) \/ front(l) \/ back(l)
       \/ \E x \in Elements : push_front(l, x) \/ push_back(l, x)
  \/ \E x \in Elements : IntrusiveListElementCtor(x) \/ ElementUnlink(x)
  \/ \E position \in Nodes :
       \/ Forward(position) \/ Backward(position)
       \/ \E x \in Elements :
            \/ insert(position, x) \/ ElementUnlinkRange(x, position)
            \/ ElementLinkPrev(position, x) \/ ElementLinkNext(position, x)
  \/ SizeRound \/ SizeReturns \/ ClearRound \/ ClearReturns

Spec == Init /\ [][Next]_vars

-----------------------------------------------------------------------------
(* After any sequence of calls every list and every element is in one ring *)
(* that reads the same in both directions, and no pointer leads to memory  *)
(* whose constructor has not run: the four stores of LinkPrev, LinkNext    *)
(* and Unlink overlap when their nodes are neighbours or the same.         *)
LinksMirror ==
  \A n \in Live :
    /\ links.next[n] \in Live /\ links.prev[links.next[n]] = n
    /\ links.prev[n] \in Live /\ links.next[links.prev[n]] = n

Abstract == INSTANCE OrderedLists WITH content <- [l \in Lists |-> Members(l)]

(* The pointers implement sequences: every call puts its elements where    *)
(* its name says, changes no other list, and returns what a sequence would *)
(* return, the loops of size and clear included.                           *)
ImplementsOrderedLists == Abstract!OrderedSpec

=============================================================================
