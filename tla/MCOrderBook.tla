----------------------------- MODULE MCOrderBook ----------------------------
(***************************************************************************)
(* Small instances of the matching engine.                                 *)
(***************************************************************************)
EXTENDS OrderBook, TLC

CONSTANTS o1, o2, o3, o4

Request(id, price, quantity, side) ==
  [id |-> id, price |-> price, quantity |-> quantity, side |-> side]

\* All that clients can ask within the limits.
RequestsOf(ids) ==
  {Request(id, price, quantity, side) :
     id \in ids, price \in Prices, quantity \in Quantities, side \in Sides}

\* Calls that an argument check refuses, one for each check.
BadRequests(id) ==
  {Request(id, 1, 0, "BUY"), Request(id, 1, MAX_QUANTITY + 1, "SELL"),
   Request(id, 0, 1, "BUY"), Request(id, MAX_PRICE + 1, 1, "SELL"),
   Request(id, 1, 1, "OTHER")}

\* Three orders of every kind, and a fourth that finds the pool full when
\* they rest; its id is also that of the bad calls.
FourOrders ==
  RequestsOf({o1, o2, o3}) \cup BadRequests(o4) \cup {Request(o4, 1, 1, "BUY")}

TwoOrders == RequestsOf({o1, o2})

\* The ids of the three are interchangeable: no definition tells them apart.
IdSymmetry == Permutations({o1, o2, o3})

=============================================================================
