------------------------ MODULE IntrusiveListElement ------------------------
(***************************************************************************)
(* hs::util::IntrusiveListElement: the prev and next pointers that every   *)
(* element of a list carries, and the root of every list.  The pointers of *)
(* all nodes are a memory m with two functions; a member function is a     *)
(* handful of stores to it.  The stores of one call may hit the same node  *)
(* under two names, so they are kept apart and in the order of the code;   *)
(* a module whose threads race takes them one at a time.                   *)
(***************************************************************************)
EXTENDS Naturals

SetPrev(m, node, value) == [m EXCEPT !.prev[node] = value]
SetNext(m, node, value) == [m EXCEPT !.next[node] = value]

(* The constructor: a node on its own is its own neighbour.                *)
Construct(m, node) == SetNext(SetPrev(m, node, node), node, node)

HasNext(m, this) == m.next[this] # this

(* link is last_link->prev, read before the first store.                   *)
LinkPrevStore(m, i, this, first_link, link) ==
  CASE i = 1 -> SetPrev(m, first_link, m.prev[this])
    [] i = 2 -> SetNext(m, link, this)
    [] i = 3 -> SetNext(m, m.prev[this], first_link)
    [] i = 4 -> SetPrev(m, this, link)

LinkPrev(m, this, first_link, last_link) ==
  LET Store(n, i) == LinkPrevStore(n, i, this, first_link, m.prev[last_link])
  IN Store(Store(Store(Store(m, 1), 2), 3), 4)

LinkNext(m, this, first_link, last_link) ==
  LET link == m.prev[last_link]
      m1 == SetPrev(m, first_link, this)
      m2 == SetNext(m1, link, m1.next[this])
      m3 == SetPrev(m2, m2.next[this], link)
  IN SetNext(m3, this, first_link)

(* Faulty variant: the neighbours are joined, the range keeps its own      *)
(* pointers into the list.                                                 *)
UnlinkNeighbours(m, this, last_link) ==
  SetPrev(SetNext(m, m.prev[this], last_link), last_link, m.prev[this])

UnlinkStore(m, i, this, last_link, link) ==
  CASE i = 1 -> SetNext(m, m.prev[this], last_link)
    [] i = 2 -> SetPrev(m, last_link, m.prev[this])
    [] i = 3 -> SetNext(m, link, this)
    [] i = 4 -> SetPrev(m, this, link)

(* The nodes from this to last_link, which is not one of them, leave their *)
(* ring and become one of their own; Unlink(this->next) takes one out.     *)
Unlink(m, this, last_link) ==
  LET Store(n, i) == UnlinkStore(n, i, this, last_link, m.prev[last_link])
  IN Store(Store(Store(Store(m, 1), 2), 3), 4)

=============================================================================
