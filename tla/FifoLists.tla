------------------------------ MODULE FifoLists -----------------------------
(***************************************************************************)
(* What the lists of orders promise: each is a first-in first-out queue    *)
(* from which any member can be taken, and no order is in two of them      *)
(* (IntrusiveList.h:8-9 and its use by the price levels).                  *)
(***************************************************************************)
EXTENDS Naturals, Sequences

CONSTANTS
  Lists,   \* the lists: the price levels of a book
  Orders   \* the orders that can be put on them

VARIABLE queue

Init == queue = [l \in Lists |-> << >>]

On(l, o) == \E i \in 1 .. Len(queue[l]) : queue[l][i] = o

Join(l, o) ==
  /\ \A other \in Lists : ~On(other, o)
  /\ queue' = [queue EXCEPT ![l] = Append(@, o)]

Leave(l, o) ==
  \E at \in 1 .. Len(queue[l]) :
    /\ queue[l][at] = o
    /\ queue' = [queue EXCEPT ![l] =
                   SubSeq(@, 1, at - 1) \o SubSeq(@, at + 1, Len(@))]

Empty(l) == queue' = [queue EXCEPT ![l] = << >>]

Next == \E l \in Lists : Empty(l) \/ \E o \in Orders : Join(l, o) \/ Leave(l, o)

Spec == Init /\ [][Next]_queue

=============================================================================
