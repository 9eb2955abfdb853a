------------------------------ MODULE LobCommon -----------------------------
(***************************************************************************)
(* The vocabulary the engine's modules share (core/include/lob/Common.h):  *)
(* sides, error codes, the limits add_limit_order validates against, the   *)
(* requests clients issue, and what it means for prices to cross.          *)
(*                                                                         *)
(* Prices are the fixed-point integers of Common.h, quantities the uint32  *)
(* values below QuantityModulus.                                           *)
(***************************************************************************)
EXTENDS Integers

CONSTANTS
  MIN_PRICE,        \* Common.h:86; the Go engine accepts 0
  MAX_PRICE,        \* Common.h:87
  MAX_QUANTITY,     \* Common.h:88
  QuantityModulus,  \* 2^32: Quantity is a uint32_t
  Requests,         \* the add_limit_order calls a client may make
  NoOrder           \* where there is no order

Sides == {"BUY", "SELL"}

OrderIDs   == {r.id : r \in Requests}
Prices     == MIN_PRICE .. MAX_PRICE
Quantities == 1 .. MAX_QUANTITY

\* A request carries whatever the caller passed: any id, price and quantity,
\* and a side that a cast may have put outside the enumeration.
ASSUME LimitsAssumption ==
  /\ MIN_PRICE \in Nat
  /\ MAX_PRICE \in Nat
  /\ MAX_QUANTITY \in Nat
  /\ QuantityModulus \in Nat
  /\ MAX_QUANTITY < QuantityModulus

ASSUME RequestsAssumption ==
  \A r \in Requests :
    /\ r.price \in Int
    /\ r.quantity \in Nat

Opposite(side) == IF side = "BUY" THEN "SELL" ELSE "BUY"

\* Mutant: equal prices do not trade.
CrossesStrictly(side, limit, price) ==
  IF side = "BUY" THEN price < limit ELSE limit < price

\* An incoming order of this side and limit price may trade at a resting
\* order's price (the negations of OrderBook.cpp:145 and 178).
Crosses(side, limit, price) ==
  IF side = "BUY" THEN price <= limit ELSE limit <= price

\* Of two resting prices of one side, the first is not worse: the orders of
\* the two maps of price levels (OrderBook.h:115-116).
AtLeastAsGood(side, p, q) ==
  IF side = "BUY" THEN q <= p ELSE p <= q

\* Addition and subtraction of Quantity values.
Plus(x, y)  == (x + y) % QuantityModulus
Minus(x, y) == (x - y) % QuantityModulus

\* Mutant: the price is not checked against the upper limit.
ArgumentErrorHalfChecked(r) ==
  CASE r.quantity \notin Quantities -> "INVALID_QUANTITY"
    [] r.quantity \in Quantities /\ r.price < MIN_PRICE -> "INVALID_PRICE"
    [] r.quantity \in Quantities /\ r.price >= MIN_PRICE /\ r.side \notin Sides
         -> "INVALID_SIDE"
    [] OTHER -> "SUCCESS"

\* The checks of add_limit_order that look only at its arguments, in the
\* order of the code (OrderBook.cpp:20-42).
ArgumentError(r) ==
  CASE r.quantity \notin Quantities -> "INVALID_QUANTITY"
    [] r.quantity \in Quantities /\ r.price \notin Prices -> "INVALID_PRICE"
    [] r.quantity \in Quantities /\ r.price \in Prices /\ r.side \notin Sides
         -> "INVALID_SIDE"
    [] OTHER -> "SUCCESS"

ErrorCodes ==
  {"SUCCESS", "INVALID_QUANTITY", "INVALID_PRICE", "INVALID_SIDE",
   "INVALID_ORDER_ID", "POOL_EXHAUSTED", "ORDER_NOT_FOUND", "UNKNOWN_ERROR"}

=============================================================================
