---------------------------- MODULE PriceTimeBook ---------------------------
(***************************************************************************)
(* What the matching engine promises its clients: a set of resting orders  *)
(* and price-time priority (README "Price-Time Priority", OrderBook.h).    *)
(* There are no price levels, lists, maps or pool here: the order an       *)
(* incoming order trades with is described, not found, and the only trace  *)
(* of the pool is that no more than Capacity orders fit.                   *)
(*                                                                         *)
(* An add is not one step: every trade is reported to the client's         *)
(* callback before it is settled, and the client may act in between.  A    *)
(* callback that throws ends the add, and what is left of the order being  *)
(* matched is lost: it takes up room and is in no book.                    *)
(***************************************************************************)
EXTENDS LobCommon, FiniteSets

CONSTANTS
  Capacity,         \* how many orders the book can hold
  CallbackCancels,  \* whether a trade callback may cancel orders
  CallbackThrows,   \* whether a trade callback may throw
  LostIdsStay,      \* whether a lost order keeps its id, to be cancelled
  MayClose,         \* whether the book can be closed
  MaxTime           \* bound on the number of accepted orders

VARIABLES
  resting,   \* the orders in the book
  lost,      \* the orders a throwing callback left outside it
  closed,    \* whether the book takes no more orders
  incoming,  \* the order being matched, or NoOrder
  fill,      \* the trade being reported to the client, or NoOrder
  now,       \* how many orders were accepted: the time stamp of the next
  result     \* what the last call returned

vars == <<resting, lost, closed, incoming, fill, now, result>>

\* What a client knows of an order and of a trade.
Orders == [id : OrderIDs, price : Prices, quantity : 0 .. MAX_QUANTITY,
           side : Sides, timestamp : Nat]

Fills == [maker_order_id : OrderIDs, taker_order_id : OrderIDs,
          price : Prices, quantity : 0 .. MAX_QUANTITY, side : Sides]

Init ==
  /\ resting = {}
  /\ lost = {}
  /\ closed = FALSE
  /\ incoming = NoOrder
  /\ fill = NoOrder
  /\ now = 0
  /\ result = "SUCCESS"

\* Price first, then time.
HasPriority(o, other) ==
  /\ AtLeastAsGood(o.side, o.price, other.price)
  /\ o.price = other.price => o.timestamp < other.timestamp

\* The orders the incoming order may trade with, and the one it must.
Matchable ==
  {o \in resting : /\ o.side = Opposite(incoming.side)
                   /\ Crosses(incoming.side, incoming.price, o.price)}

IsMaker(o) ==
  /\ o \in Matchable
  /\ \A other \in Matchable \ {o} : HasPriority(o, other)

\* The orders a client can cancel.
Known == IF LostIdsStay THEN resting \cup lost ELSE resting

\* The result of an add, as far as it is known when the call begins.
Refusal(r) ==
  IF closed THEN "UNKNOWN_ERROR"
  ELSE IF ArgumentError(r) # "SUCCESS" THEN ArgumentError(r)
  ELSE IF \E o \in Known : o.id = r.id THEN "INVALID_ORDER_ID"
  ELSE IF Cardinality(resting \cup lost) = Capacity THEN "POOL_EXHAUSTED"
  ELSE "SUCCESS"

-----------------------------------------------------------------------------
Reject(r) ==
  /\ incoming = NoOrder
  /\ Refusal(r) # "SUCCESS"
  /\ result' = Refusal(r)
  /\ UNCHANGED <<resting, lost, closed, incoming, fill, now>>

Accept(r) ==
  /\ incoming = NoOrder
  /\ Refusal(r) = "SUCCESS"
  /\ now < MaxTime
  /\ incoming' = [id |-> r.id, price |-> r.price, quantity |-> r.quantity,
                  side |-> r.side, timestamp |-> now]
  /\ now' = now + 1
  /\ UNCHANGED <<resting, lost, closed, fill, result>>

\* The trade is with the order that has priority, at that order's price, for
\* as much as both want.
Report(o) ==
  /\ incoming # NoOrder /\ fill = NoOrder
  /\ incoming.quantity > 0
  /\ IsMaker(o)
  /\ \E q \in {o.quantity, incoming.quantity} :
       /\ q <= o.quantity /\ q <= incoming.quantity
       /\ fill' = [maker_order_id |-> o.id, taker_order_id |-> incoming.id,
                   price |-> o.price, quantity |-> q, side |-> o.side]
  /\ UNCHANGED <<resting, lost, closed, incoming, now, result>>

\* Both orders lose what was reported; a maker with nothing left is gone.
Settle ==
  /\ fill # NoOrder
  /\ \E o \in resting :
       /\ o.id = fill.maker_order_id
       /\ resting' = (resting \ {o}) \cup
            (IF o.quantity = fill.quantity THEN {}
             ELSE {[o EXCEPT !.quantity = @ - fill.quantity]})
  /\ incoming' = [incoming EXCEPT !.quantity = @ - fill.quantity]
  /\ fill' = NoOrder
  /\ UNCHANGED <<lost, closed, now, result>>

\* What cannot trade rests, and only what is left of it.
Finish ==
  /\ incoming # NoOrder /\ fill = NoOrder
  /\ \/ incoming.quantity = 0 /\ UNCHANGED resting
     \/ /\ incoming.quantity > 0 /\ Matchable = {}
        /\ resting' = resting \cup {incoming}
  /\ incoming' = NoOrder
  /\ result' = "SUCCESS"
  /\ UNCHANGED <<lost, closed, fill, now>>

\* The callback threw: the reported trade is not settled.
Abandon ==
  /\ CallbackThrows /\ fill # NoOrder
  /\ lost' = lost \cup {incoming}
  /\ incoming' = NoOrder
  /\ fill' = NoOrder
  /\ result' = "UNKNOWN_ERROR"
  /\ UNCHANGED <<resting, closed, now>>

\* Between calls any resting order can be cancelled; from a callback any but
\* the one whose trade is being reported.
Cancel(id) ==
  /\ \/ incoming = NoOrder
     \/ CallbackCancels /\ fill # NoOrder /\ fill.maker_order_id # id
  /\ resting' = {o \in resting : o.id # id}
  /\ lost' = IF LostIdsStay THEN {o \in lost : o.id # id} ELSE lost
  /\ result' = IF \E o \in Known : o.id = id THEN "SUCCESS"
               ELSE "ORDER_NOT_FOUND"
  /\ UNCHANGED <<closed, incoming, fill, now>>

\* A closed book is empty and stays so.
Close ==
  /\ MayClose /\ incoming = NoOrder
  /\ closed' = TRUE
  /\ resting' = {}
  /\ lost' = {}
  /\ UNCHANGED <<incoming, fill, now, result>>

Next ==
  \/ \E r \in Requests : Accept(r) \/ Reject(r)
  \/ \E o \in resting : Report(o)
  \/ Settle
  \/ Finish
  \/ Abandon
  \/ Close
  \/ \E id \in OrderIDs : Cancel(id)

Spec == Init /\ [][Next]_vars

=============================================================================
