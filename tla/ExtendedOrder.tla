---------------------------- MODULE ExtendedOrder ---------------------------
(***************************************************************************)
(* A conditional order (core/include/lob/OrderTypes.h) and the prices its  *)
(* owner asks should_activate() about, one after the other.  For a         *)
(* trailing stop the call also moves activation_price, const or not.  The  *)
(* side passed with the price is taken to be the order's own.  is_active   *)
(* is TRUE from construction; no code clears it, but it is a public field, *)
(* and owners switch orders off with it (tests/unit/Test_OrderTypes.cpp).  *)
(*                                                                         *)
(* peak and trough are history: the extremes of the prices asked about     *)
(* while the order was active, 0 while there were none.                    *)
(***************************************************************************)
EXTENDS Integers

CONSTANTS
  MarketPrices,   \* what the market can show
  Orders          \* the orders, as their owners built them

\* A price is positive: 0 stands for an activation price that is not set.
OrdersAssumption ==
  /\ MarketPrices \subseteq Nat \ {0}
  /\ \A o \in Orders :
       /\ o.side \in {"BUY", "SELL"}
       /\ o.quantity \in Nat /\ o.trail_amount \in Nat
       /\ o.activation_price \in Nat
       /\ o.stop_price \in Nat /\ o.take_profit_price \in Nat

VARIABLES
  order,    \* the order as built
  activation_price, display_quantity, hidden_quantity, is_active,
  peak, trough,
  price,    \* the price last asked about, 0 if the order was changed since
  fired     \* and the answer

vars == <<order, activation_price, display_quantity, hidden_quantity,
          is_active, peak, trough, price, fired>>

\* The constructor splits the quantity of an iceberg.
Init ==
  /\ order \in Orders
  /\ activation_price = order.activation_price
  /\ display_quantity = IF order.order_type = "ICEBERG"
                        THEN order.quantity \div 2 ELSE 0
  /\ hidden_quantity = IF order.order_type = "ICEBERG"
                       THEN order.quantity - display_quantity ELSE 0
  /\ is_active = TRUE
  /\ peak = 0 /\ trough = 0
  /\ price = 0 /\ fired = FALSE

IsConditional ==
  order.order_type
    \in {"STOP_LOSS", "TAKE_PROFIT", "STOP_LIMIT", "TRAILING_STOP"}

\* Mutant: activation_price follows the market both ways.
TrailFollows(p) ==
  IF order.side = "BUY" THEN p - order.trail_amount ELSE p + order.trail_amount

\* activation_price after a trailing stop was asked about p.
Trail(p) ==
  LET new == IF order.side = "BUY" THEN p - order.trail_amount
             ELSE p + order.trail_amount
  IN  IF \/ order.side = "BUY" /\ new > activation_price
         \/ /\ order.side = "SELL"
            /\ new < activation_price \/ activation_price = 0
      THEN new ELSE activation_price

\* The answer, given the activation price a trailing stop has by then.
Activates(p, activation) ==
  CASE order.order_type \in {"STOP_LOSS", "STOP_LIMIT"} ->
         IF order.side = "BUY" THEN p >= order.stop_price
         ELSE p <= order.stop_price
    [] order.order_type = "TAKE_PROFIT" ->
         IF order.side = "BUY" THEN p <= order.take_profit_price
         ELSE p >= order.take_profit_price
    [] order.order_type = "TRAILING_STOP" ->
         IF order.side = "BUY" THEN p <= activation ELSE p >= activation

\* Line 80: anything else is answered before it is looked at.
Considered == IsConditional /\ is_active

\* should_activate(p).  Nothing is remembered of having fired: an order that
\* fired answers as before.
ShouldActivate(p) ==
  /\ price' = p
  /\ \/ /\ ~Considered
        /\ fired' = FALSE
        /\ UNCHANGED <<activation_price, peak, trough>>
     \/ /\ Considered
        /\ activation_price' = IF order.order_type = "TRAILING_STOP"
                               THEN Trail(p) ELSE activation_price
        /\ fired' = Activates(p, activation_price')
        /\ peak' = IF p > peak THEN p ELSE peak
        /\ trough' = IF trough = 0 \/ p < trough THEN p ELSE trough
  /\ UNCHANGED <<order, is_active, display_quantity, hidden_quantity>>

\* The owner switches the order off or on.
Switch ==
  /\ is_active' = ~is_active
  /\ price' = 0 /\ fired' = FALSE
  /\ UNCHANGED <<order, activation_price, display_quantity, hidden_quantity,
                 peak, trough>>

Next == Switch \/ \E p \in MarketPrices : ShouldActivate(p)

Spec == Init /\ [][Next]_vars

-----------------------------------------------------------------------------
\* Of two prices, the one more favourable to a trailing BUY (SELL).
Higher(x, y) == IF x > y THEN x ELSE y
Lower(x, y)  == IF x < y THEN x ELSE y

\* A trailing stop that was not told where to start fires exactly when the
\* market has come back by trail_amount from the best price it was shown:
\* down from the peak for a BUY, up from the trough for a SELL.  One that was
\* told so fires there too.  One that is switched off never fires, and the
\* prices it is asked about meanwhile do not count (79-112).
TrailFiresOnReversal ==
  order.order_type = "TRAILING_STOP" /\ price # 0 =>
    LET start == order.activation_price IN
    fired <=>
      /\ is_active
      /\ IF order.side = "BUY"
           THEN price <= Higher(start, peak - order.trail_amount)
           ELSE price >= IF start = 0 THEN trough + order.trail_amount
                         ELSE Lower(start, trough + order.trail_amount)

=============================================================================
