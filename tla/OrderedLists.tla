---------------------------- MODULE OrderedLists ----------------------------
(***************************************************************************)
(* What hs::util::IntrusiveList promises: every list is a sequence of      *)
(* elements, no element is in two places, and each call changes and        *)
(* returns what its name says.  A position is an element or, past the end, *)
(* the list itself.                                                        *)
(***************************************************************************)
EXTENDS SequencesExt

CONSTANTS Elements, Lists

VARIABLES
  content,   \* content[l]: the elements of l, in order
  last       \* the last call that returned, its arguments and its value

Listed == UNION {ToSet(content[l]) : l \in Lists}

Returns(call) == last' = call

Change(l, s) == content' = [content EXCEPT ![l] = s]

OrderedInit == content = [l \in Lists |-> <<>>] /\ last = <<"none">>

push_front(l, x) ==
  Returns(<<"push_front", l, x>>) /\ x \notin Listed /\ Change(l, <<x>> \o content[l])

push_back(l, x) ==
  Returns(<<"push_back", l, x>>) /\ x \notin Listed /\ Change(l, Append(content[l], x))

(* Taking an element out of an empty list is allowed and does nothing.     *)
pop_front(l) ==
  /\ Returns(<<"pop_front", l>>)
  /\ Change(l, IF content[l] = <<>> THEN <<>> ELSE Tail(content[l]))

pop_back(l) ==
  /\ Returns(<<"pop_back", l>>)
  /\ Change(l, IF content[l] = <<>> THEN <<>> ELSE Front(content[l]))

(* Where in l a position is: past the end for l itself, 0 for nowhere.     *)
Index(l, position) ==
  IF position = l THEN Len(content[l]) + 1
  ELSE SelectInSeq(content[l], LAMBDA e : e = position)

(* Elements that are in no list are put before the i-th element of l.      *)
Link(l, i, s) ==
  /\ IsInjective(s)
  /\ ToSet(s) \cap Listed = {}
  /\ Change(l, SubSeq(content[l], 1, i - 1) \o s \o SubSeq(content[l], i, Len(content[l])))

insert(position, x) ==
  /\ Returns(<<"insert", position, x>>)
  /\ \E l \in Lists : Index(l, position) > 0 /\ Link(l, Index(l, position), <<x>>)

(* A ring of elements goes in as a whole, beginning with x.                *)
Rings(x) == {s \in SetToAllKPermutations(Elements \ Listed) : s # <<>> /\ s[1] = x}

LinkPrev(position, x) ==
  /\ Returns(<<"LinkPrev", position, x>>)
  /\ \E l \in Lists, s \in Rings(x) : Index(l, position) > 0 /\ Link(l, Index(l, position), s)

LinkNext(position, x) ==
  /\ Returns(<<"LinkNext", position, x>>)
  /\ \E l \in Lists, s \in Rings(x) :
       /\ Index(l, position) > 0
       /\ Link(l, (Index(l, position) % (Len(content[l]) + 1)) + 1, s)

(* The elements from first to before past leave their list, if any.        *)
Unlink(first, past) ==
  /\ Returns(<<"Unlink", first, past>>)
  /\ \/ first \notin Listed /\ UNCHANGED content
     \/ \E l \in Lists :
          LET i == Index(l, first)
              j == Index(l, past)
          IN /\ 0 < i /\ i < j
             /\ Change(l, SubSeq(content[l], 1, i - 1) \o SubSeq(content[l], j, Len(content[l])))

(* clear returns when the list is empty.                                   *)
clear(l) == Returns(<<"clear", l>>) /\ content[l] = <<>> /\ UNCHANGED content

Query(call) == Returns(call) /\ UNCHANGED content

At(l, i) == IF i \in DOMAIN content[l] THEN content[l][i] ELSE l

Queries(l) ==
  \/ Query(<<"size", l, Len(content[l])>>)
  \/ Query(<<"empty", l, content[l] = <<>> >>)
  \/ Query(<<"begin", l, At(l, 1)>>)
  \/ content[l] # <<>> /\ Query(<<"front", l, Head(content[l])>>)
  \/ content[l] # <<>> /\ Query(<<"back", l, Last(content[l])>>)
  \/ \E i \in 1..Len(content[l]) :
       \/ Query(<<"++", At(l, i), At(l, i + 1)>>)
       \/ Query(<<"--", At(l, i + 1), At(l, i)>>)

OrderedNext ==
  \/ \E l \in Lists :
       \/ pop_front(l) \/ pop_back(l) \/ clear(l) \/ Queries(l)
       \/ \E x \in Elements : push_front(l, x) \/ push_back(l, x)
  \/ \E position \in Elements \cup Lists :
       \E x \in Elements :
         \/ insert(position, x) \/ Unlink(x, position)
         \/ LinkPrev(position, x) \/ LinkNext(position, x)

OrderedSpec == OrderedInit /\ [][OrderedNext]_<<content, last>>

=============================================================================
