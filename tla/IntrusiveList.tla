---------------------------- MODULE IntrusiveList ---------------------------
(***************************************************************************)
(* The doubly-linked lists the price levels keep their orders in           *)
(* (core/include/lob/IntrusiveList.h).  The links are fields of the        *)
(* orders, so all lists share them: an order has one next and one prev     *)
(* whatever list it is on, and no operation can tell which one that is.    *)
(* The callers must; their contract is the guards below.                   *)
(***************************************************************************)
EXTENDS Integers, Sequences, FiniteSets

CONSTANTS
  Lists, Orders,
  Null,         \* nullptr
  SizeModulus   \* size_ is a size_t

ListAssumption ==
  /\ Null \notin Orders
  /\ IsFiniteSet(Orders)
  /\ SizeModulus \in Nat /\ Cardinality(Orders) < SizeModulus

VARIABLES
  head, tail, size,  \* head_, tail_ and size_ of each list
  next, prev         \* the links in each order

vars == <<head, tail, size, next, prev>>

Pointers == Orders \cup {Null}

Init ==
  /\ head = [l \in Lists |-> Null]
  /\ tail = [l \in Lists |-> Null]
  /\ size = [l \in Lists |-> 0]
  /\ next = [o \in Orders |-> Null]
  /\ prev = [o \in Orders |-> Null]

(***************************************************************************)
(* Iteration from begin(): the pointers operator++ goes through, and those *)
(* of them it meets before end().                                          *)
(***************************************************************************)
Positions(l) ==
  LET position[i \in 1 .. Cardinality(Orders)] ==
        IF i = 1 THEN head[l]
        ELSE IF position[i - 1] = Null THEN Null
        ELSE next[position[i - 1]]
  IN  position

Traversal(l) ==
  LET position == Positions(l)
      met == {i \in 1 .. Cardinality(Orders) : position[i] # Null}
  IN  [i \in 1 .. Cardinality(met) |-> position[i]]

Member(l, o) ==
  \E i \in 1 .. Len(Traversal(l)) : Traversal(l)[i] = o

-----------------------------------------------------------------------------
\* Mutant: the back pointer of the new order is forgotten.
PushBackOneWay(l, o) ==
  /\ \A other \in Lists : ~Member(other, o)
  /\ IF head[l] = Null
       THEN /\ head' = [head EXCEPT ![l] = o]
            /\ next' = [next EXCEPT ![o] = Null]
       ELSE /\ next' = [next EXCEPT ![tail[l]] = o, ![o] = Null]
            /\ UNCHANGED head
  /\ tail' = [tail EXCEPT ![l] = o]
  /\ size' = [size EXCEPT ![l] = (@ + 1) % SizeModulus]
  /\ UNCHANGED prev

\* push_back(o): the links o had are overwritten.
PushBack(l, o) ==
  /\ \A other \in Lists : ~Member(other, o)
  /\ IF head[l] = Null
       THEN /\ head' = [head EXCEPT ![l] = o]
            /\ next' = [next EXCEPT ![o] = Null]
            /\ prev' = [prev EXCEPT ![o] = Null]
       ELSE /\ next' = [next EXCEPT ![tail[l]] = o, ![o] = Null]
            /\ prev' = [prev EXCEPT ![o] = tail[l]]
            /\ UNCHANGED head
  /\ tail' = [tail EXCEPT ![l] = o]
  /\ size' = [size EXCEPT ![l] = (@ + 1) % SizeModulus]

\* Mutant: the only order of a list is not taken for linked.
WasLinkedToAnother(l, o) == prev[o] # Null \/ next[o] # Null

\* The test remove() makes to decide whether o is on this list.
WasLinked(l, o) == prev[o] # Null \/ next[o] # Null \/ head[l] = o

\* Mutant: the tail is not moved.
RemoveButTail(l, o) ==
  /\ Member(l, o)
  /\ next' = [x \in Orders |-> IF x = o THEN Null
                               ELSE IF x = prev[o] THEN next[o] ELSE next[x]]
  /\ prev' = [x \in Orders |-> IF x = o THEN Null
                               ELSE IF x = next[o] THEN prev[o] ELSE prev[x]]
  /\ head' = [head EXCEPT ![l] = IF prev[o] = Null THEN next[o] ELSE @]
  /\ size' = [size EXCEPT ![l] = IF WasLinked(l, o)
                                 THEN (@ - 1) % SizeModulus ELSE @]
  /\ UNCHANGED tail

\* remove(o): the neighbours of o are joined, o loses its links, and a
\* neighbour that is not there is taken to be this list's end.  remove of
\* nullptr returns at once.
Remove(l, o) ==
  /\ Member(l, o)
  /\ next' = [x \in Orders |-> IF x = o THEN Null
                               ELSE IF x = prev[o] THEN next[o] ELSE next[x]]
  /\ prev' = [x \in Orders |-> IF x = o THEN Null
                               ELSE IF x = next[o] THEN prev[o] ELSE prev[x]]
  /\ head' = [head EXCEPT ![l] = IF prev[o] = Null THEN next[o] ELSE @]
  /\ tail' = [tail EXCEPT ![l] = IF next[o] = Null THEN prev[o] ELSE @]
  /\ size' = [size EXCEPT ![l] = IF WasLinked(l, o)
                                 THEN (@ - 1) % SizeModulus ELSE @]

\* clear(): the orders keep their links.
Clear(l) ==
  /\ head' = [head EXCEPT ![l] = Null]
  /\ tail' = [tail EXCEPT ![l] = Null]
  /\ size' = [size EXCEPT ![l] = 0]
  /\ UNCHANGED <<next, prev>>

Next ==
  \E l \in Lists : Clear(l) \/ \E o \in Orders : PushBack(l, o) \/ Remove(l, o)

Spec == Init /\ [][Next]_vars

-----------------------------------------------------------------------------
\* The type of the state.  size_ never wraps below zero (42, 48).
TypeOK ==
  /\ head \in [Lists -> Pointers]
  /\ tail \in [Lists -> Pointers]
  /\ size \in [Lists -> 0 .. Cardinality(Orders)]
  /\ next \in [Orders -> Pointers]
  /\ prev \in [Orders -> Pointers]

\* What is met from head_ along next is met from tail_ along prev the other
\* way round, and front() and back() are its ends: a removal anywhere finds
\* both neighbours (16-25, 39-49).  Links left by clear() do not show here.
LinksMirror ==
  \A l \in Lists :
    LET t == Traversal(l)
    IN  IF t = << >> THEN tail[l] = Null
        ELSE /\ tail[l] = t[Len(t)]
             /\ prev[t[1]] = Null
             /\ \A i \in 2 .. Len(t) : prev[t[i]] = t[i - 1]

\* size() and empty() say how many orders an iteration meets (71-78).
SizeIsCount ==
  \A l \in Lists : size[l] = Len(Traversal(l))

Fifo == INSTANCE FifoLists WITH queue <- [l \in Lists |-> Traversal(l)]

\* Iterating over the lists shows first-in first-out queues, no order on two
\* of them, whatever orders come, leave from the middle and come again
\* (8-9, 15-58, 87-120).
ImplementsFifo == Fifo!Spec

=============================================================================
