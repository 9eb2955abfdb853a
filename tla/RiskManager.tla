----------------------------- MODULE RiskManager ----------------------------
(***************************************************************************)
(* Pre-trade checks and position tracking (core/include/lob/               *)
(* RiskManager.h).  Each method runs under the object's mutex, so it is    *)
(* one step; but the check of an order and the update for its trades are   *)
(* two calls, and between them other threads may have theirs.  Each client *)
(* is a thread that does what the documentation shows                      *)
(* (.github/README.md): check_order, then add to the book if approved,     *)
(* then update_position for every trade.  It has one approved order under  *)
(* way; the orders of different clients overlap as they like.              *)
(*                                                                         *)
(* The limits are the constants below, in any relation to each other, as   *)
(* the constructor and set_limits take them; set_limits is called before.  *)
(***************************************************************************)
EXTENDS Integers, FiniteSets, Functions

CONSTANTS
  Clients,                    \* threads that check and trade
  None,                       \* no approved order
  Symbols,
  Prices,                     \* limit and trade prices, fixed-point
  Sizes,                      \* quantities that clients ask for
  QuantityModulus,            \* 2^32: Quantity is a uint32_t
  PRICE_SCALE_FACTOR,         \* Common.h:85
  max_position_per_symbol, max_order_size, max_daily_volume,
  max_price_deviation, max_orders_per_second, circuit_breaker_threshold,
  enable_circuit_breaker,
  MaxGross,                   \* bound on a symbol's traded quantity
  MaxSecond                   \* bound on the clock

ASSUME RiskAssumption ==
  /\ Prices \subseteq Nat \ {0}
  /\ Sizes \subseteq Nat \ {0}
  /\ {QuantityModulus, PRICE_SCALE_FACTOR, max_position_per_symbol,
      max_order_size, max_daily_volume, max_price_deviation,
      max_orders_per_second, circuit_breaker_threshold, MaxGross,
      MaxSecond} \subseteq Nat
  /\ enable_circuit_breaker \in BOOLEAN
  /\ MaxGross < QuantityModulus
  /\ IsFiniteSet(Clients) /\ Clients # {}

VARIABLES
  positions,           \* positions_: a Position for each symbol that traded
  daily_volume,
  orders_this_second, last_second,
  circuit_breaker_triggered,
  last_trade_price,
  second,              \* the clock, in seconds
  approved,            \* each client's checked order that may still trade
  approvals            \* history: how many checks passed this second

vars == <<positions, daily_volume, orders_this_second, last_second,
          circuit_breaker_triggered, last_trade_price, second, approved,
          approvals>>

Sides  == {"BUY", "SELL"}
Orders == [symbol : Symbols, side : Sides, quantity : Sizes, price : Prices]

\* Clients whose checked order may still trade.
Trading == {client \in Clients : approved[client] # None}

(***************************************************************************)
(* A position keeps the quantity and the average price of each side.       *)
(* trades and cost are history: the trades of a side and their exact cost. *)
(***************************************************************************)
NoTrades == [quantity |-> 0, avg_price |-> 0, trades |-> 0, cost |-> 0]

Position == [Sides -> [quantity : Nat, avg_price : Nat,
                       trades : Nat, cost : Nat]]

\* find(): the position of a symbol, if it has one.
Known(symbol) == symbol \in DOMAIN positions

\* get_position().
GetPosition(symbol) ==
  IF Known(symbol) THEN positions[symbol] ELSE [side \in Sides |-> NoTrades]

Init ==
  /\ positions = [symbol \in {} |-> NoTrades]
  /\ daily_volume = 0
  /\ orders_this_second = 0
  /\ last_second = 0
  /\ circuit_breaker_triggered = FALSE
  /\ last_trade_price = 0
  /\ second = 1
  /\ approved = [client \in Clients |-> None]
  /\ approvals = 0

-----------------------------------------------------------------------------
(***************************************************************************)
(* The tests of check_order.                                               *)
(***************************************************************************)
Distance(p, q) == IF p > q THEN p - q ELSE q - p

TooFar(price) ==
  /\ last_trade_price > 0
  /\ (Distance(price, last_trade_price) * PRICE_SCALE_FACTOR)
       \div last_trade_price > max_price_deviation

\* What is held of the symbol on a side once the order has traded.
HeldAfter(order, side) ==
  (positions[order.symbol][side].quantity
     + (IF side = order.side THEN order.quantity ELSE 0)) % QuantityModulus

\* Mutant: the side of the order is not looked at.
PositionTooLargeForBuys(order) ==
  /\ Known(order.symbol)
  /\ order.side = "BUY"
  /\ HeldAfter(order, "BUY") - HeldAfter(order, "SELL")
       > max_position_per_symbol

\* new_net is a Quantity, so a net short position is a large number here.
PositionTooLarge(order) ==
  /\ Known(order.symbol)
  /\ (HeldAfter(order, "BUY") - HeldAfter(order, "SELL")) % QuantityModulus
       > max_position_per_symbol

\* Mutant: the volume traded so far is compared without the new order.
VolumeSpent(order) == daily_volume > max_daily_volume

VolumeTooLarge(order) ==
  (daily_volume + order.quantity) % QuantityModulus > max_daily_volume

\* Mutant: every check starts the counter over.
OrdersForgotten == 0

\* The rate counter as the check finds it: it starts over with a new second.
OrdersBefore == IF second # last_second THEN 0 ELSE orders_this_second

\* Refused before the rate counter is looked at.
RefusedEarly(order) ==
  \/ circuit_breaker_triggered
  \/ order.quantity > max_order_size
  \/ TooFar(order.price)

\* Mutant: one order too many in a second.
RateExceededLate == OrdersBefore > max_orders_per_second

\* Refused by the rate limit, or after having been counted.
RateExceeded == OrdersBefore >= max_orders_per_second

RefusedLate(order) == PositionTooLarge(order) \/ VolumeTooLarge(order)

CheckRefusedEarly(client, order) ==
  /\ approved[client] = None
  /\ RefusedEarly(order)
  /\ UNCHANGED vars

CheckRateLimited(client, order) ==
  /\ approved[client] = None
  /\ ~RefusedEarly(order)
  /\ RateExceeded
  /\ last_second' = second
  /\ orders_this_second' = OrdersBefore
  /\ UNCHANGED <<positions, daily_volume, circuit_breaker_triggered,
                 last_trade_price, second, approved, approvals>>

\* The order is counted whether the last two tests let it pass or not.
CheckCounted(client, order) ==
  /\ approved[client] = None
  /\ ~RefusedEarly(order)
  /\ ~RateExceeded
  /\ last_second' = second
  /\ orders_this_second' = OrdersBefore + 1
  /\ IF RefusedLate(order)
       THEN UNCHANGED <<approved, approvals>>
       ELSE /\ approved' = [approved EXCEPT ![client] = order]
            /\ approvals' = approvals + 1
  /\ UNCHANGED <<positions, daily_volume, circuit_breaker_triggered,
                 last_trade_price, second>>

-----------------------------------------------------------------------------
(***************************************************************************)
(* update_position, for a trade of an approved order.                      *)
(***************************************************************************)
\* Mutant: the average is weighted with the quantity after the trade.
AveragePriceLate(held, quantity, price) ==
  IF held.quantity > 0
    THEN (held.avg_price * (held.quantity + quantity) + price * quantity)
           \div (held.quantity + quantity)
    ELSE price

AveragePrice(held, quantity, price) ==
  IF held.quantity > 0
    THEN (held.avg_price * held.quantity + price * quantity)
           \div (held.quantity + quantity)
    ELSE price

Traded(held, quantity, price) ==
  [quantity  |-> (held.quantity + quantity) % QuantityModulus,
   avg_price |-> AveragePrice(held, quantity, price),
   trades    |-> held.trades + 1,
   cost      |-> held.cost + price * quantity]

\* check_circuit_breaker(current): an integer division of prices, compared
\* with the threshold.  last is last_trade_price_ at the time of the call.
Trips(current, last) ==
  /\ enable_circuit_breaker
  /\ last # 0
  /\ Distance(current, last) \div last >= circuit_breaker_threshold

\* The new last_trade_price_ is stored before the breaker is checked.
UpdatePosition(order, quantity, price) ==
  LET position == GetPosition(order.symbol)
  IN  /\ positions' =
           [symbol \in DOMAIN positions \cup {order.symbol} |->
              IF symbol = order.symbol
                THEN [position EXCEPT ![order.side] =
                        Traded(@, quantity, price)]
                ELSE positions[symbol]]
      /\ daily_volume' = (daily_volume + quantity) % QuantityModulus
      /\ last_trade_price' = price
      /\ circuit_breaker_triggered' =
           (circuit_breaker_triggered \/ Trips(price, last_trade_price'))

\* A trade of part or all of the client's order, at its limit or better.
Trade(client, quantity, price) ==
  LET order == approved[client]
  IN  /\ IF order.side = "BUY"
           THEN price <= order.price ELSE price >= order.price
      /\ GetPosition(order.symbol)[order.side].quantity + quantity <= MaxGross
      /\ UpdatePosition(order, quantity, price)
      /\ approved' =
           [approved EXCEPT ![client] =
              IF quantity = order.quantity THEN None
              ELSE [order EXCEPT !.quantity = @ - quantity]]
      /\ UNCHANGED <<orders_this_second, last_second, second, approvals>>

\* The client cancels what is left of its order.
Cancel(client) ==
  /\ approved' = [approved EXCEPT ![client] = None]
  /\ UNCHANGED <<positions, daily_volume, orders_this_second, last_second,
                 circuit_breaker_triggered, last_trade_price, second,
                 approvals>>

ResetDailyVolume ==
  /\ daily_volume' = 0
  /\ UNCHANGED <<positions, orders_this_second, last_second,
                 circuit_breaker_triggered, last_trade_price, second,
                 approved, approvals>>

ResetCircuitBreaker ==
  /\ circuit_breaker_triggered' = FALSE
  /\ UNCHANGED <<positions, daily_volume, orders_this_second, last_second,
                 last_trade_price, second, approved, approvals>>

Tick ==
  /\ second < MaxSecond
  /\ second' = second + 1
  /\ approvals' = 0
  /\ UNCHANGED <<positions, daily_volume, orders_this_second, last_second,
                 circuit_breaker_triggered, last_trade_price, approved>>

Next ==
  \/ \E client \in Clients, order \in Orders :
       \/ CheckRefusedEarly(client, order)
       \/ CheckRateLimited(client, order)
       \/ CheckCounted(client, order)
  \/ \E client \in Trading :
       \/ Cancel(client)
       \/ \E quantity \in 1 .. approved[client].quantity, price \in Prices :
            Trade(client, quantity, price)
  \/ ResetDailyVolume
  \/ ResetCircuitBreaker
  \/ Tick

Spec == Init /\ [][Next]_vars

-----------------------------------------------------------------------------
Checked == [symbol : Symbols, side : Sides, quantity : Nat \ {0},
            price : Prices]

\* The type of the state.  The rate counter never passes its limit: an order
\* that finds it reached is not counted (91-94).
TypeOK ==
  /\ DOMAIN positions \subseteq Symbols
  /\ \A symbol \in DOMAIN positions : positions[symbol] \in Position
  /\ daily_volume \in 0 .. QuantityModulus - 1
  /\ orders_this_second \in 0 .. max_orders_per_second
  /\ last_second \in 0 .. second
  /\ circuit_breaker_triggered \in BOOLEAN
  /\ last_trade_price \in Prices \cup {0}
  /\ approved \in [Clients -> Checked \cup {None}]
  /\ approvals \in Nat

\* No second sees more approvals than the limit, whatever refused orders used
\* up and however late in the second the counter was last reset (85-94).
RateWithinLimit == approvals <= max_orders_per_second

\* What the approved order of each client may still trade.
Pending ==
  [client \in Clients |->
     IF client \in Trading THEN approved[client].quantity ELSE 0]

\* What the other clients may have approved when an order is checked.
Overlap == (Cardinality(Clients) - 1) * max_order_size

\* check_order counts what has traded, not what is approved: the clients go
\* over the daily limit together, but never by more than one order of each
\* of the others, through partial fills, cancels and resets (120-123, 154).
VolumeWithinLimit ==
  daily_volume + SumFunctionOnSet(Pending, Clients)
    <= max_daily_volume + Overlap

Net(symbol) == GetPosition(symbol)["BUY"].quantity
                 - GetPosition(symbol)["SELL"].quantity

Higher(a, b) == IF a > b THEN a ELSE b

\* "Max net position per symbol" (38), as far as it holds: a symbol without a
\* position is not checked at all (98-99), so its first order passes however
\* large the order limit lets it be; and what the other clients have approved
\* comes on top.  Later orders stay within the limit, and the wrapped
\* difference refuses whatever would end net short (96-118).
NetWithinLimit ==
  \A symbol \in Symbols :
    /\ Net(symbol) <= Higher(max_position_per_symbol, max_order_size) + Overlap
    /\ -Net(symbol) <= max_order_size + Overlap

\* The average price of a side never exceeds what was paid on average, and
\* lags behind it by less than one tick per trade, since each update rounds
\* down (134-152).
AverageTracksCost ==
  \A symbol \in DOMAIN positions, side \in Sides :
    LET held == positions[symbol][side]
    IN  /\ held.avg_price * held.quantity <= held.cost
        /\ held.trades > 0 =>
             held.cost < held.avg_price * held.quantity
                           + held.trades * held.quantity

\* The claim of RiskManager.h:45, "20% price move triggers halt": a trade
\* whose price is that far from that of the trade before it trips the
\* breaker.  The threshold is in the units of max_price_deviation.
BigMovesTrip ==
  [][ /\ enable_circuit_breaker
      /\ last_trade_price # 0
      /\ Distance(last_trade_price', last_trade_price) * PRICE_SCALE_FACTOR
           >= circuit_breaker_threshold * last_trade_price
      => circuit_breaker_triggered' ]_vars

=============================================================================
