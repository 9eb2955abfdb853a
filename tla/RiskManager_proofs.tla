-------------------------- MODULE RiskManager_proofs ------------------------
(***************************************************************************)
(* Proofs about the risk manager, for every set of limits, prices, sizes,  *)
(* symbols and clients.  Quantities wrap: the limits on volume and         *)
(* position hold only below the bounds that VolumeFits and PositionFits    *)
(* state.                                                                  *)
(***************************************************************************)
EXTENDS RiskManager, NumberLemmas

\* What is kept of one side of a position: a side without trades is as at the
\* start, and the average follows the cost.
Tracks(held) ==
  /\ held.quantity \in 0 .. MaxGross
  /\ held.trades = 0 <=> held.quantity = 0
  /\ held.trades = 0 => held.cost = 0
  /\ held.avg_price * held.quantity <= held.cost
  /\ held.trades > 0 =>
       held.cost < held.avg_price * held.quantity + held.trades * held.quantity

PositionsTrack ==
  \A symbol \in DOMAIN positions, side \in Sides :
    Tracks(positions[symbol][side])

\* The inductive invariant: the approvals of this second are among the orders
\* the rate counter has, and no approved order is larger than an order may be.
RiskInv ==
  /\ TypeOK
  /\ second \in Nat
  /\ approvals <= OrdersBefore
  /\ PositionsTrack
  /\ \A client \in Trading : approved[client].quantity <= max_order_size

\* daily_volume_ + quantity does not wrap, also when every client has gone
\* over the limit by an order (RiskManager.h:120-123).
VolumeFits ==
  max_daily_volume + Cardinality(Clients) * max_order_size < QuantityModulus

\* new_net wraps below zero to more than any position allowed, also from the
\* shortest position with the largest order (RiskManager.h:96-118).
PositionFits ==
  max_position_per_symbol + (Cardinality(Clients) + 1) * max_order_size
    < QuantityModulus

-----------------------------------------------------------------------------
LEMMA RiskFacts ==
  /\ QuantityModulus \in Nat /\ PRICE_SCALE_FACTOR \in Nat
  /\ max_position_per_symbol \in Nat /\ max_order_size \in Nat
  /\ max_daily_volume \in Nat /\ max_orders_per_second \in Nat
  /\ MaxGross \in Nat /\ MaxSecond \in Nat
  /\ MaxGross < QuantityModulus
  /\ enable_circuit_breaker \in BOOLEAN
  /\ IsFiniteSet(Clients) /\ Clients # {}
  /\ \A price \in Prices : price \in Nat /\ price > 0
  /\ \A size \in Sizes : size \in Nat /\ size > 0
BY RiskAssumption

\* One more trade at the average: rounding down loses less than the new
\* quantity, so less than one tick per trade is lost in all.
LEMMA AverageRoundsDown ==
  ASSUME NEW avg \in Nat, NEW held \in Nat, NEW trades \in Nat, NEW cost \in Nat,
         NEW n \in Nat, NEW price \in Nat, held > 0, n > 0,
         avg * held <= cost, cost < avg * held + trades * held,
         NEW new, new = (avg * held + price * n) \div (held + n)
  PROVE  /\ new \in Nat
         /\ new * (held + n) <= cost + price * n
         /\ cost + price * n < new * (held + n) + (trades + 1) * (held + n)
<1>1. PICK paid \in Nat, total \in Nat \ {0} :
        paid = avg * held + price * n /\ total = held + n
  OBVIOUS
<1>2. new \in Nat /\ new * total <= paid /\ paid < new * total + total
  <2>1. /\ paid \div total \in Nat
        /\ paid = total * (paid \div total) + (paid % total)
        /\ paid % total \in 0 .. total - 1
    BY <1>1
  <2>2. total * new = new * total
    BY <1>1, <2>1
  <2> QED
    BY <1>1, <2>1, <2>2
<1>3. trades * held <= trades * total
  <2>1. trades * total = trades * held + trades * n /\ trades * n \in Nat
    BY <1>1
  <2> QED
    BY <2>1
<1>4. (trades + 1) * total = trades * total + total
  BY <1>1
<1>5. PICK a, b, c, d : /\ a = avg * held /\ b = price * n
                        /\ c = trades * held /\ d = new * total
  OBVIOUS
<1>6. a \in Nat /\ b \in Nat /\ c \in Nat /\ d \in Nat /\ trades * total \in Nat
  BY <1>1, <1>2, <1>5
<1>7. cost + b < d + (trades * total + total) /\ d <= cost + b
  BY <1>1, <1>2, <1>3, <1>5, <1>6
<1> QED
  BY <1>1, <1>2, <1>4, <1>5, <1>7

-----------------------------------------------------------------------------
(***************************************************************************)
(* The inductive invariant.                                                *)
(***************************************************************************)
LEMMA InitInv ==
  ASSUME Init
  PROVE  RiskInv
<1>1. DOMAIN positions = {}
  BY DEF Init
<1>2. TypeOK
  <2>1. circuit_breaker_triggered \in BOOLEAN
    BY DEF Init
  <2>2. daily_volume \in 0 .. QuantityModulus - 1
    BY RiskFacts DEF Init
  <2> QED
    BY <1>1, <2>1, <2>2, RiskFacts DEF Init, TypeOK
<1>3. PositionsTrack
  BY <1>1 DEF PositionsTrack
<1>4. Trading = {}
  BY DEF Init, Trading
<1> QED
  BY <1>2, <1>3, <1>4 DEF Init, RiskInv, OrdersBefore

LEMMA CheckInv ==
  ASSUME RiskInv, NEW client \in Clients, NEW order \in Orders,
         CheckRateLimited(client, order) \/ CheckCounted(client, order)
  PROVE  RiskInv'
<1>1. /\ TypeOK /\ second \in Nat /\ approvals <= OrdersBefore
      /\ PositionsTrack
      /\ \A c \in Trading : approved[c].quantity <= max_order_size
  BY DEF RiskInv
<1>2. /\ ~RefusedEarly(order)
      /\ last_second' = second
      /\ UNCHANGED <<positions, daily_volume, circuit_breaker_triggered,
                     last_trade_price, second>>
  BY DEF CheckRateLimited, CheckCounted
<1>3. OrdersBefore \in 0 .. max_orders_per_second /\ approvals \in Nat
  BY <1>1, RiskFacts DEF OrdersBefore, TypeOK
<1>4. last_second' \in 0 .. second' /\ second' \in Nat
      /\ OrdersBefore' = orders_this_second'
  BY <1>1, <1>2 DEF OrdersBefore
<1>5. PositionsTrack'
  BY <1>1, <1>2 DEF PositionsTrack
<1>6. CASE CheckRateLimited(client, order)
  <2>1. orders_this_second' = OrdersBefore /\ UNCHANGED <<approved, approvals>>
    BY <1>6 DEF CheckRateLimited
  <2>2. TypeOK'
    BY <1>1, <1>2, <1>3, <1>4, <2>1 DEF TypeOK
  <2> QED
    BY <1>1, <1>4, <1>5, <2>1, <2>2 DEF RiskInv, Trading
<1>7. CASE CheckCounted(client, order)
  <2>1. /\ orders_this_second' = OrdersBefore + 1
        /\ OrdersBefore < max_orders_per_second
        /\ \/ UNCHANGED <<approved, approvals>>
           \/ /\ approved' = [approved EXCEPT ![client] = order]
              /\ approvals' = approvals + 1
    BY <1>3, <1>7, RiskFacts DEF CheckCounted, RateExceeded
  <2>2. order \in Checked /\ order.quantity <= max_order_size
    BY <1>2, RiskFacts DEF Orders, RefusedEarly, Checked
  <2>3. approved' \in [Clients -> Checked \cup {None}]
    BY <1>1, <2>1, <2>2 DEF TypeOK
  <2>4. TypeOK'
    BY <1>1, <1>2, <1>3, <1>4, <2>1, <2>3, RiskFacts DEF TypeOK
  <2>5. approvals' <= OrdersBefore'
    BY <1>1, <1>3, <1>4, <2>1
  <2>6. \A c \in Trading' : approved'[c].quantity <= max_order_size
    BY <1>1, <2>1, <2>2 DEF TypeOK, Trading
  <2> QED
    BY <1>4, <1>5, <2>4, <2>5, <2>6 DEF RiskInv
<1> QED
  BY <1>6, <1>7

\* The position of a symbol that may not have one yet.
LEMMA PositionFacts ==
  ASSUME RiskInv, NEW symbol
  PROVE  /\ GetPosition(symbol) \in Position
         /\ \A side \in Sides : Tracks(GetPosition(symbol)[side])
<1>1. /\ \A s \in DOMAIN positions : positions[s] \in Position
      /\ PositionsTrack
  BY DEF RiskInv, TypeOK
<1>2. CASE Known(symbol)
  BY <1>1, <1>2 DEF Known, GetPosition, PositionsTrack
<1>3. CASE ~Known(symbol)
  <2>1. GetPosition(symbol) = [side \in Sides |-> NoTrades]
    BY <1>3 DEF GetPosition
  <2> QED
    BY <2>1, RiskFacts DEF NoTrades, Position, Tracks
<1> QED
  BY <1>2, <1>3

LEMMA TradedTracks ==
  ASSUME NEW held \in [quantity : Nat, avg_price : Nat, trades : Nat, cost : Nat],
         Tracks(held), NEW n \in Nat \ {0}, NEW price \in Nat,
         held.quantity + n <= MaxGross
  PROVE  /\ Traded(held, n, price)
              \in [quantity : Nat, avg_price : Nat, trades : Nat, cost : Nat]
         /\ Traded(held, n, price).quantity = held.quantity + n
         /\ Tracks(Traded(held, n, price))
<1> DEFINE avg  == AveragePrice(held, n, price)
           paid == price * n
<1>1. PICK q \in Nat, a \in Nat, k \in Nat, c \in Nat :
        /\ held.quantity = q /\ held.avg_price = a
        /\ held.trades = k /\ held.cost = c
  OBVIOUS
<1>2. (q + n) % QuantityModulus = q + n
  BY <1>1, RiskFacts
<1>3. paid \in Nat
  OBVIOUS
<1>4. Traded(held, n, price)
        = [quantity |-> q + n, avg_price |-> avg, trades |-> k + 1,
           cost |-> c + paid]
  BY <1>1, <1>2 DEF Traded
<1>5. /\ avg \in Nat
      /\ avg * (q + n) <= c + paid
      /\ c + paid < avg * (q + n) + (k + 1) * (q + n)
  <2>1. CASE q > 0
    <3>1. avg = (a * q + price * n) \div (q + n)
      BY <1>1, <2>1 DEF AveragePrice
    <3>2. a * q <= c /\ c < a * q + k * q
      BY <1>1, <2>1 DEF Tracks
    <3> QED
      BY <1>1, <2>1, <3>1, <3>2, AverageRoundsDown
  <2>2. CASE q = 0
    <3>1. avg = price /\ k = 0 /\ c = 0
      BY <1>1, <2>2 DEF AveragePrice, Tracks
    <3>2. avg * (q + n) = paid /\ (k + 1) * (q + n) = n
      BY <2>2, <3>1
    <3> QED
      BY <1>3, <2>2, <3>1, <3>2
  <2> QED
    BY <1>1, <2>1, <2>2
<1> HIDE DEF avg, paid
<1>6. q + n \in 0 .. MaxGross /\ q + n # 0 /\ k + 1 # 0 /\ k + 1 > 0
  BY <1>1, RiskFacts
<1> QED
  BY <1>1, <1>3, <1>4, <1>5, <1>6 DEF Tracks

\* What a trade does to the positions, seen from outside.
LEMMA TradeMovesOne ==
  ASSUME RiskInv, NEW client \in Trading, NEW order, order = approved[client],
         NEW n \in 1 .. order.quantity, NEW price \in Prices,
         Trade(client, n, price)
  PROVE  /\ order \in Checked
         /\ order.symbol \in Symbols /\ order.side \in Sides
         /\ order.quantity \in Nat \ {0} /\ n \in Nat \ {0}
         /\ DOMAIN positions' = DOMAIN positions \cup {order.symbol}
         /\ \A symbol \in DOMAIN positions' \ {order.symbol} :
              positions'[symbol] = positions[symbol]
         /\ positions'[order.symbol] \in Position
         /\ \A side \in Sides \ {order.side} :
              positions'[order.symbol][side] = GetPosition(order.symbol)[side]
         /\ positions'[order.symbol][order.side].quantity
              = GetPosition(order.symbol)[order.side].quantity + n
         /\ Tracks(positions'[order.symbol][order.side])
<1>1. /\ order \in Checked
      /\ order.symbol \in Symbols /\ order.side \in Sides
      /\ order.quantity \in Nat \ {0}
  BY DEF RiskInv, TypeOK, Trading, Checked
<1>2. n \in Nat \ {0} /\ price \in Nat
  BY <1>1, RiskFacts
<1>3. PICK pos : pos = GetPosition(order.symbol)
  OBVIOUS
<1>4. /\ pos \in Position
      /\ \A side \in Sides : Tracks(pos[side])
  BY <1>3, PositionFacts
<1>5. PICK new : new = Traded(pos[order.side], n, price)
  OBVIOUS
<1>6. /\ pos[order.side].quantity + n <= MaxGross
      /\ positions' =
           [symbol \in DOMAIN positions \cup {order.symbol} |->
              IF symbol = order.symbol
                THEN [pos EXCEPT ![order.side] = new]
                ELSE positions[symbol]]
  BY <1>1, <1>3, <1>4, <1>5 DEF Trade, UpdatePosition, Position
<1>7. /\ new \in [quantity : Nat, avg_price : Nat, trades : Nat, cost : Nat]
      /\ new.quantity = pos[order.side].quantity + n
      /\ Tracks(new)
  BY <1>1, <1>2, <1>4, <1>5, <1>6, TradedTracks DEF Position
<1>8. positions'[order.symbol] = [pos EXCEPT ![order.side] = new]
  BY <1>6
<1>9. positions'[order.symbol] \in Position
  BY <1>1, <1>4, <1>7, <1>8 DEF Position
<1> QED
  BY <1>1, <1>2, <1>3, <1>4, <1>6, <1>7, <1>8, <1>9 DEF Position

\* What a trade leaves of its order.
LEMMA TradeLeaves ==
  ASSUME RiskInv, NEW client \in Trading, NEW order, order = approved[client],
         NEW n \in 1 .. order.quantity, NEW price \in Prices,
         Trade(client, n, price)
  PROVE  /\ client \in Clients
         /\ \A other \in Clients \ {client} :
              approved'[other] = approved[other]
         /\ \/ n = order.quantity /\ approved'[client] = None
            \/ /\ n # order.quantity
               /\ approved'[client] \in Checked
               /\ approved'[client].quantity = order.quantity - n
               /\ approved'[client].symbol = order.symbol
               /\ approved'[client].side = order.side
         /\ approved' \in [Clients -> Checked \cup {None}]
<1>1. client \in Clients /\ approved \in [Clients -> Checked \cup {None}]
  BY DEF RiskInv, TypeOK, Trading
<1>2. order \in Checked /\ order.quantity \in Nat \ {0} /\ n \in Nat \ {0}
  BY TradeMovesOne
<1>3. PICK rest : rest = [order EXCEPT !.quantity = @ - n]
  OBVIOUS
<1>4. approved' = [approved EXCEPT ![client] =
                     IF n = order.quantity THEN None ELSE rest]
  BY <1>3 DEF Trade
<1>5. n # order.quantity => rest \in Checked /\ rest.quantity = order.quantity - n
  BY <1>2, <1>3 DEF Checked
<1>6. rest.symbol = order.symbol /\ rest.side = order.side
  BY <1>2, <1>3 DEF Checked
<1> QED
  BY <1>1, <1>3, <1>4, <1>5, <1>6

LEMMA TradeInv ==
  ASSUME RiskInv, NEW client \in Trading,
         NEW n \in 1 .. approved[client].quantity,
         NEW price \in Prices, Trade(client, n, price)
  PROVE  RiskInv'
<1>1. /\ TypeOK /\ second \in Nat /\ approvals <= OrdersBefore
      /\ PositionsTrack
      /\ \A c \in Trading : approved[c].quantity <= max_order_size
  BY DEF RiskInv
<1>2. PICK order : order = approved[client]
  OBVIOUS
<1>3. /\ order.symbol \in Symbols /\ order.side \in Sides
      /\ order.quantity \in Nat \ {0} /\ n \in Nat \ {0}
      /\ DOMAIN positions' = DOMAIN positions \cup {order.symbol}
      /\ \A symbol \in DOMAIN positions' \ {order.symbol} :
           positions'[symbol] = positions[symbol]
      /\ positions'[order.symbol] \in Position
      /\ \A side \in Sides \ {order.side} :
           positions'[order.symbol][side] = GetPosition(order.symbol)[side]
      /\ Tracks(positions'[order.symbol][order.side])
  <2>1. order = approved[client] /\ n \in 1 .. order.quantity
    BY <1>2
  <2> QED
    BY <2>1, TradeMovesOne, ZenonT(60)
<1>4. /\ client \in Clients
      /\ approved' \in [Clients -> Checked \cup {None}]
      /\ \A other \in Clients \ {client} : approved'[other] = approved[other]
      /\ \/ approved'[client] = None
         \/ approved'[client].quantity = order.quantity - n
  BY <1>2, TradeLeaves
<1>5. /\ daily_volume' = (daily_volume + n) % QuantityModulus
      /\ last_trade_price' = price
      /\ UNCHANGED <<orders_this_second, last_second, second, approvals>>
  BY <1>2 DEF Trade, UpdatePosition
<1>6. circuit_breaker_triggered' \in BOOLEAN
  BY DEF Trade, UpdatePosition
<1>7. TypeOK'
  <2>1. daily_volume' \in 0 .. QuantityModulus - 1
    BY <1>1, <1>3, <1>5, RiskFacts DEF TypeOK
  <2>2. /\ DOMAIN positions' \subseteq Symbols
        /\ \A symbol \in DOMAIN positions' : positions'[symbol] \in Position
    BY <1>1, <1>3 DEF TypeOK
  <2> QED
    BY <1>1, <1>4, <1>5, <1>6, <2>1, <2>2 DEF TypeOK
<1>8. PositionsTrack'
  <2> SUFFICES ASSUME NEW symbol \in DOMAIN positions', NEW side \in Sides
               PROVE  Tracks(positions'[symbol][side])
    BY DEF PositionsTrack, Tracks
  <2>1. CASE symbol # order.symbol
    BY <1>1, <1>3, <2>1 DEF PositionsTrack
  <2>2. CASE symbol = order.symbol /\ side # order.side
    BY <1>3, <2>2, PositionFacts
  <2>3. CASE symbol = order.symbol /\ side = order.side
    BY <1>3, <2>3
  <2> QED
    BY <2>1, <2>2, <2>3
<1>9. \A c \in Trading' : approved'[c].quantity <= max_order_size
  <2> SUFFICES ASSUME NEW c \in Trading'
               PROVE  approved'[c].quantity <= max_order_size
    OBVIOUS
  <2>1. CASE c # client
    BY <1>1, <1>4, <2>1 DEF Trading
  <2>2. CASE c = client
    <3>1. approved'[client].quantity = order.quantity - n
      BY <1>4, <2>2 DEF Trading
    <3>2. order.quantity <= max_order_size
      BY <1>1, <1>2
    <3> QED
      BY <1>3, <2>2, <3>1, <3>2, RiskFacts
  <2> QED
    BY <2>1, <2>2
<1>10. approvals' <= OrdersBefore'
  BY <1>1, <1>5 DEF OrdersBefore
<1> QED
  BY <1>1, <1>5, <1>7, <1>8, <1>9, <1>10 DEF RiskInv

\* A cancel, the resets, the clock.
LEMMA OtherStepsInv ==
  ASSUME RiskInv,
         \/ \E client \in Trading : Cancel(client)
         \/ ResetDailyVolume \/ ResetCircuitBreaker \/ Tick
         \/ UNCHANGED vars
  PROVE  RiskInv'
<1>1. /\ TypeOK /\ second \in Nat /\ approvals <= OrdersBefore
      /\ PositionsTrack
      /\ \A c \in Trading : approved[c].quantity <= max_order_size
  BY DEF RiskInv
<1>2. /\ UNCHANGED <<positions, orders_this_second, last_second,
                     last_trade_price>>
      /\ daily_volume' \in {0, daily_volume}
      /\ \/ UNCHANGED <<second, approvals>>
         \/ second' = second + 1 /\ approvals' = 0
  BY DEF Cancel, ResetDailyVolume, ResetCircuitBreaker, Tick, vars
<1>3. \/ approved' = approved
      \/ \E client \in Clients : approved' = [approved EXCEPT ![client] = None]
  BY DEF Cancel, ResetDailyVolume, ResetCircuitBreaker, Tick, vars, Trading
<1>4. /\ approved' \in [Clients -> Checked \cup {None}]
      /\ \A c \in Clients : approved'[c] \in {approved[c], None}
  BY <1>1, <1>3 DEF TypeOK
<1>5. circuit_breaker_triggered' \in BOOLEAN
  BY <1>1 DEF TypeOK, Cancel, ResetDailyVolume, ResetCircuitBreaker, Tick, vars
<1>6. TypeOK' /\ second' \in Nat
  BY <1>1, <1>2, <1>4, <1>5, RiskFacts DEF TypeOK
<1>7. approvals' <= OrdersBefore'
  BY <1>1, <1>2, RiskFacts DEF OrdersBefore, TypeOK
<1>8. PositionsTrack'
  BY <1>1, <1>2 DEF PositionsTrack
<1>9. \A c \in Trading' : approved'[c].quantity <= max_order_size
  BY <1>1, <1>4 DEF Trading
<1> QED
  BY <1>1, <1>6, <1>7, <1>8, <1>9 DEF RiskInv

LEMMA NextInv ==
  ASSUME RiskInv, [Next]_vars
  PROVE  RiskInv'
<1>1. ASSUME NEW client \in Clients, NEW order \in Orders,
             CheckRefusedEarly(client, order)
      PROVE  RiskInv'
  BY <1>1, OtherStepsInv DEF CheckRefusedEarly
<1> QED
  BY <1>1, CheckInv, TradeInv, OtherStepsInv DEF Next

\* The inductive invariant holds in every reachable state.
THEOREM RiskInvariance == Spec => []RiskInv
<1>1. Init => RiskInv
  BY InitInv
<1>2. RiskInv /\ [Next]_vars => RiskInv'
  BY NextInv
<1> QED
  BY <1>1, <1>2, PTL DEF Spec

\* Every variable keeps its type, and the rate counter never passes its limit
\* (RiskManager.h:62-181).
THEOREM TypeCorrectness == Spec => []TypeOK
<1>1. RiskInv => TypeOK
  BY DEF RiskInv
<1> QED
  BY <1>1, RiskInvariance, PTL

\* No second sees more approvals than max_orders_per_second
\* (RiskManager.h:85-94).
THEOREM RateStaysWithinLimit == Spec => []RateWithinLimit
<1>1. ASSUME RiskInv
      PROVE  RateWithinLimit
  <2>1. /\ approvals <= OrdersBefore /\ approvals \in Nat
        /\ orders_this_second \in 0 .. max_orders_per_second
    BY <1>1 DEF RiskInv, TypeOK
  <2> QED
    BY <2>1, RiskFacts DEF RateWithinLimit, OrdersBefore
<1> QED
  BY <1>1, RiskInvariance, PTL

\* The average price of a side follows its cost to within a tick per trade
\* (RiskManager.h:134-152).
THEOREM AverageAlwaysTracksCost == Spec => []AverageTracksCost
<1>1. RiskInv => AverageTracksCost
  BY DEF RiskInv, PositionsTrack, Tracks, AverageTracksCost
<1> QED
  BY <1>1, RiskInvariance, PTL

-----------------------------------------------------------------------------
(***************************************************************************)
(* What is approved.                                                       *)
(***************************************************************************)
\* What the approved orders of some symbols and sides may still trade.
PendingOf(symbols, sides) ==
  [client \in Clients |->
     IF /\ client \in Trading
        /\ approved[client].symbol \in symbols
        /\ approved[client].side \in sides
       THEN approved[client].quantity ELSE 0]

Total(symbols, sides) == SumFunctionOnSet(PendingOf(symbols, sides), Clients)

LEMMA OverlapFacts ==
  /\ Overlap \in Nat
  /\ Cardinality(Clients) * max_order_size = Overlap + max_order_size
  /\ (Cardinality(Clients) + 1) * max_order_size
        = Overlap + max_order_size + max_order_size
<1>1. PICK n : n = Cardinality(Clients)
  OBVIOUS
<1>2. n \in Nat /\ n # 0
  BY <1>1, RiskFacts, FS_CardinalityType, FS_EmptySet
<1>3. PICK k \in Nat : n = k + 1
  <2>1. n - 1 \in Nat /\ n = (n - 1) + 1
    BY <1>2
  <2> QED
    BY <2>1
<1>4. PICK S \in Nat : S = max_order_size
  BY RiskFacts
<1>5. k * S \in Nat /\ (k + 1) * S = k * S + S /\ (k + 2) * S = k * S + S + S
  OBVIOUS
<1>6. n - 1 = k /\ n + 1 = k + 2
  BY <1>3
<1>7. Overlap = k * S
  BY <1>1, <1>4, <1>6 DEF Overlap
<1> QED
  BY <1>1, <1>3, <1>4, <1>5, <1>6, <1>7

\* Each client has one order at most, so the others have approved no more
\* than an order each.
LEMMA PendingFacts ==
  ASSUME RiskInv, NEW symbols, NEW sides
  PROVE  /\ \A c \in Clients :
              PendingOf(symbols, sides)[c] \in 0 .. max_order_size
         /\ Total(symbols, sides) \in Nat
         /\ \A c \in Clients :
              /\ Total(symbols, sides) <= PendingOf(symbols, sides)[c] + Overlap
              /\ PendingOf(symbols, sides)[c] <= Total(symbols, sides)
<1> DEFINE f == PendingOf(symbols, sides)
<1>1. \A c \in Trading : /\ approved[c] \in Checked
                          /\ approved[c].quantity <= max_order_size
  BY DEF RiskInv, TypeOK, Trading
<1>2. \A c \in Trading : approved[c].quantity \in 0 .. max_order_size
  <2>1. \A order \in Checked : order.quantity \in Nat
    BY DEF Checked
  <2> QED
    BY <1>1, <2>1, RiskFacts
<1>3. \A c \in Clients : f[c] \in 0 .. max_order_size
  BY <1>2, RiskFacts DEF PendingOf
<1> HIDE DEF f
<1>4. \A c \in Clients : f[c] \in Nat
  BY <1>3, RiskFacts
<1>5. SumFunctionOnSet(f, Clients) \in Nat
  BY <1>4, RiskFacts, SumType
<1>6. ASSUME NEW c \in Clients
      PROVE  SumFunctionOnSet(f, Clients) <= f[c] + Overlap
  BY <1>3, RiskFacts, SumButOne DEF Overlap
<1>7. ASSUME NEW c \in Clients
      PROVE  f[c] <= SumFunctionOnSet(f, Clients)
  <2>1. SumFunctionOnSet(f, Clients) = f[c] + SumFunctionOnSet(f, Clients \ {c})
    BY <1>4, RiskFacts, SumRemove
  <2>2. SumFunctionOnSet(f, Clients \ {c}) \in Nat
    BY <1>4, RiskFacts, SumType, FS_RemoveElement
  <2> QED
    BY <1>4, <2>1, <2>2
<1> QED
  BY <1>3, <1>5, <1>6, <1>7 DEF f, Total

\* A step of one client changes its own share.
LEMMA PendingMoves ==
  ASSUME RiskInv, RiskInv', NEW symbols, NEW sides, NEW client \in Clients,
         \A other \in Clients \ {client} : approved'[other] = approved[other]
  PROVE  Total(symbols, sides)' =
           (Total(symbols, sides) - PendingOf(symbols, sides)[client])
             + PendingOf(symbols, sides)'[client]
<1>1. PICK f : f = PendingOf(symbols, sides)
  OBVIOUS
<1>2. PICK g : g = PendingOf(symbols, sides)'
  OBVIOUS
<1>3. \A c \in Clients : f[c] \in 0 .. max_order_size
  BY <1>1, PendingFacts
<1>4. \A c \in Clients : g[c] \in 0 .. max_order_size
  <2>1. \A c \in Trading' : /\ approved'[c] \in Checked
                             /\ approved'[c].quantity <= max_order_size
    BY DEF RiskInv, TypeOK, Trading
  <2>2. \A order \in Checked : order.quantity \in Nat
    BY DEF Checked
  <2>3. \A c \in Trading' : approved'[c].quantity \in 0 .. max_order_size
    BY <2>1, <2>2, RiskFacts
  <2> QED
    BY <1>2, <2>3, RiskFacts DEF PendingOf
<1>5. \A c \in Clients : f[c] \in Nat /\ g[c] \in Nat
  BY <1>3, <1>4, RiskFacts
<1>6. \A c \in Clients \ {client} : f[c] = g[c]
  BY <1>1, <1>2 DEF PendingOf, Trading
<1>7. SumFunctionOnSet(g, Clients)
        = (SumFunctionOnSet(f, Clients) - f[client]) + g[client]
  BY <1>5, <1>6, RiskFacts, SumBump
<1> QED
  BY <1>1, <1>2, <1>7 DEF Total

-----------------------------------------------------------------------------
(***************************************************************************)
(* The volume of the day.                                                  *)
(***************************************************************************)
\* Inductive with RiskInv: no approved order alone is over the limit either.
VolumeInv ==
  /\ daily_volume + Total(Symbols, Sides) <= max_daily_volume + Overlap
  /\ \A client \in Trading : approved[client].quantity <= max_daily_volume

LEMMA AllPending ==
  ASSUME TypeOK
  PROVE  Pending = PendingOf(Symbols, Sides)
<1>1. \A c \in Trading : /\ approved[c].symbol \in Symbols
                         /\ approved[c].side \in Sides
  BY DEF TypeOK, Trading, Checked
<1> QED
  BY <1>1 DEF Pending, PendingOf

LEMMA InitVolume ==
  ASSUME Init
  PROVE  VolumeInv
<1>1. Trading = {}
  BY DEF Init, Trading
<1>2. Total(Symbols, Sides) = 0
  <2>1. PICK f : f = PendingOf(Symbols, Sides)
    OBVIOUS
  <2>2. \A c \in Clients : f[c] = 0
    BY <1>1, <2>1 DEF PendingOf
  <2>3. SumFunctionOnSet(f, Clients) = 0
    BY <2>2, RiskFacts, SumZero
  <2> QED
    BY <2>1, <2>3 DEF Total
<1> QED
  BY <1>1, <1>2, OverlapFacts, RiskFacts DEF Init, VolumeInv

\* An order is let pass by what has traded; the others add an order each.
LEMMA CheckVolume ==
  ASSUME VolumeFits, RiskInv, RiskInv', VolumeInv, NEW client \in Clients,
         NEW order \in Orders, CheckCounted(client, order)
  PROVE  VolumeInv'
<1>1. CASE UNCHANGED approved
  BY <1>1 DEF CheckCounted, VolumeInv, Total, PendingOf, Trading
<1>2. CASE ~VolumeTooLarge(order) /\ approved' = [approved EXCEPT ![client] = order]
  <2>1. /\ approved[client] = None /\ daily_volume' = daily_volume
        /\ order.quantity \in Nat /\ order.quantity <= max_order_size
    BY RiskFacts DEF CheckCounted, RefusedEarly, Orders
  <2>2. /\ daily_volume \in Nat /\ approved \in [Clients -> Checked \cup {None}]
        /\ daily_volume + Total(Symbols, Sides) <= max_daily_volume + Overlap
        /\ \A c \in Trading : approved[c].quantity <= max_daily_volume
    BY RiskFacts DEF RiskInv, TypeOK, VolumeInv
  <2>3. PICK total \in Nat : total = Total(Symbols, Sides)
    BY PendingFacts
  <2>4. PendingOf(Symbols, Sides)[client] = 0
    BY <2>1 DEF PendingOf, Trading
  <2>5. total <= Overlap
    BY <2>3, <2>4, PendingFacts, OverlapFacts
  <2>6. /\ \A other \in Clients \ {client} : approved'[other] = approved[other]
        /\ approved'[client] = order
    BY <1>2, <2>2
  <2>7. PendingOf(Symbols, Sides)'[client] \in {0, order.quantity}
    BY <2>6 DEF PendingOf
  <2>8. Total(Symbols, Sides)' = total + PendingOf(Symbols, Sides)'[client]
    <3>1. Total(Symbols, Sides)' =
            (total - 0) + PendingOf(Symbols, Sides)'[client]
      BY <2>3, <2>4, <2>6, PendingMoves
    <3> QED
      BY <3>1
  <2>9. daily_volume + order.quantity < QuantityModulus
    BY <2>1, <2>2, <2>3, OverlapFacts, RiskFacts DEF VolumeFits
  <2>10. daily_volume + order.quantity <= max_daily_volume
    <3>1. (daily_volume + order.quantity) % QuantityModulus
            = daily_volume + order.quantity
      BY <2>1, <2>2, <2>9, RiskFacts
    <3> QED
      BY <1>2, <2>1, <2>2, <3>1, RiskFacts DEF VolumeTooLarge
  <2>11. daily_volume' + Total(Symbols, Sides)' <= max_daily_volume + Overlap
    BY <2>1, <2>2, <2>5, <2>7, <2>8, <2>10, OverlapFacts, RiskFacts
  <2>12. \A c \in Trading' : approved'[c].quantity <= max_daily_volume
    <3>1. order.quantity <= max_daily_volume
      BY <2>1, <2>2, <2>10, RiskFacts
    <3> QED
      BY <2>2, <2>6, <3>1 DEF Trading
  <2> QED
    BY <2>11, <2>12 DEF VolumeInv
<1> QED
  BY <1>1, <1>2 DEF CheckCounted, RefusedLate

\* A trade moves its quantity from what is approved to what has traded.
LEMMA TradeVolume ==
  ASSUME VolumeFits, RiskInv, RiskInv', VolumeInv, NEW client \in Trading,
         NEW n \in 1 .. approved[client].quantity,
         NEW price \in Prices, Trade(client, n, price)
  PROVE  VolumeInv'
<1>1. PICK order : order = approved[client]
  OBVIOUS
<1>2. /\ order \in Checked /\ order.symbol \in Symbols /\ order.side \in Sides
      /\ order.quantity \in Nat \ {0} /\ n \in Nat \ {0} /\ n <= order.quantity
  <2>1. /\ order \in Checked /\ order.symbol \in Symbols /\ order.side \in Sides
        /\ order.quantity \in Nat \ {0} /\ n \in Nat \ {0}
    BY <1>1, TradeMovesOne
  <2> QED
    BY <1>1, <2>1
<1>3. /\ client \in Clients
      /\ \A other \in Clients \ {client} : approved'[other] = approved[other]
      /\ \/ n = order.quantity /\ approved'[client] = None
         \/ /\ approved'[client] \in Checked
            /\ approved'[client].quantity = order.quantity - n
            /\ approved'[client].symbol = order.symbol
            /\ approved'[client].side = order.side
  BY <1>1, TradeLeaves
<1>4. /\ daily_volume \in Nat
      /\ daily_volume + Total(Symbols, Sides) <= max_daily_volume + Overlap
      /\ \A c \in Trading : approved[c].quantity <= max_daily_volume
  BY RiskFacts DEF RiskInv, TypeOK, VolumeInv
<1>5. PICK total \in Nat : total = Total(Symbols, Sides)
  BY PendingFacts
<1>6. PendingOf(Symbols, Sides)[client] = order.quantity
  BY <1>1, <1>2, <1>3 DEF PendingOf
<1>7. order.quantity <= total
  BY <1>3, <1>5, <1>6, PendingFacts
<1>8. PendingOf(Symbols, Sides)'[client] <= order.quantity - n
      /\ PendingOf(Symbols, Sides)'[client] \in Nat
  BY <1>2, <1>3 DEF PendingOf, Trading
<1>9. Total(Symbols, Sides)' = (total - order.quantity)
                                 + PendingOf(Symbols, Sides)'[client]
  BY <1>3, <1>5, <1>6, PendingMoves
<1>10. daily_volume' = daily_volume + n
  <2>1. daily_volume + n < QuantityModulus
    BY <1>2, <1>4, <1>5, <1>7, OverlapFacts, RiskFacts DEF VolumeFits
  <2>2. daily_volume' = (daily_volume + n) % QuantityModulus
    BY DEF Trade, UpdatePosition
  <2> QED
    BY <1>2, <1>4, <2>1, <2>2, RiskFacts
<1>11. daily_volume' + Total(Symbols, Sides)' <= max_daily_volume + Overlap
  BY <1>2, <1>4, <1>5, <1>8, <1>9, <1>10, OverlapFacts, RiskFacts
<1>12. \A c \in Trading' : approved'[c].quantity <= max_daily_volume
  <2> SUFFICES ASSUME NEW c \in Trading'
               PROVE  approved'[c].quantity <= max_daily_volume
    OBVIOUS
  <2>1. CASE c # client
    BY <1>3, <1>4, <2>1 DEF Trading
  <2>2. CASE c = client
    <3>1. approved'[client].quantity <= order.quantity
      BY <1>2, <1>3, <2>2 DEF Trading
    <3>2. approved'[client].quantity \in Nat
      BY <1>2, <1>3, <2>2 DEF Trading
    <3>3. order.quantity <= max_daily_volume
      BY <1>1, <1>4
    <3> QED
      BY <1>2, <2>2, <3>1, <3>2, <3>3, RiskFacts
  <2> QED
    BY <2>1, <2>2
<1> QED
  BY <1>11, <1>12 DEF VolumeInv

\* A cancel takes away; a new day starts with what is approved alone.
LEMMA OtherStepsVolume ==
  ASSUME RiskInv, RiskInv', VolumeInv, daily_volume' \in {0, daily_volume},
         \/ \E client \in Trading : Cancel(client)
         \/ UNCHANGED approved
  PROVE  VolumeInv'
<1>1. /\ daily_volume \in Nat
      /\ daily_volume + Total(Symbols, Sides) <= max_daily_volume + Overlap
      /\ \A c \in Trading : approved[c].quantity <= max_daily_volume
  BY RiskFacts DEF RiskInv, TypeOK, VolumeInv
<1>2. PICK total \in Nat : total = Total(Symbols, Sides)
  BY PendingFacts
<1>3. CASE UNCHANGED approved
  <2>1. Total(Symbols, Sides)' = total /\ Trading' = Trading
    BY <1>2, <1>3 DEF Total, PendingOf, Trading
  <2>2. total <= max_daily_volume + Overlap
    BY <1>1, <1>2, OverlapFacts, RiskFacts
  <2> QED
    BY <1>1, <1>2, <1>3, <2>1, <2>2 DEF VolumeInv
<1>4. ASSUME NEW client \in Trading, Cancel(client)
      PROVE  VolumeInv'
  <2>1. /\ client \in Clients /\ approved'[client] = None
        /\ \A other \in Clients \ {client} : approved'[other] = approved[other]
    BY <1>4 DEF Cancel, Trading, RiskInv, TypeOK
  <2>2. PICK share \in Nat : share = PendingOf(Symbols, Sides)[client]
    BY <2>1, PendingFacts, RiskFacts
  <2>3. PendingOf(Symbols, Sides)'[client] = 0
    BY <2>1 DEF PendingOf, Trading
  <2>4. Total(Symbols, Sides)' = (total - share) + 0
    BY <1>2, <2>1, <2>2, <2>3, PendingMoves
  <2>5. Total(Symbols, Sides)' \in Int /\ Total(Symbols, Sides)' <= total
    BY <1>2, <2>2, <2>4
  <2>6. daily_volume' \in Nat /\ daily_volume' <= daily_volume
    BY <1>1
  <2>7. daily_volume' + Total(Symbols, Sides)' <= max_daily_volume + Overlap
    BY <1>1, <1>2, <2>5, <2>6, OverlapFacts, RiskFacts
  <2>8. \A c \in Trading' : c \in Trading /\ approved'[c] = approved[c]
    BY <2>1 DEF Trading
  <2> QED
    BY <1>1, <2>7, <2>8 DEF VolumeInv
<1> QED
  BY <1>3, <1>4

\* The traded volume and what is approved stay within the limit and an order
\* of each of the other clients, when their sum does not wrap
\* (RiskManager.h:120-123,154).
THEOREM VolumeStaysWithinLimit ==
  VolumeFits => (Spec => []VolumeWithinLimit)
<1> SUFFICES ASSUME VolumeFits
             PROVE  Spec => []VolumeWithinLimit
  OBVIOUS
<1>1. Init => VolumeInv
  BY InitVolume
<1>2. ASSUME RiskInv, VolumeInv, [Next]_vars
      PROVE  VolumeInv'
  <2>1. RiskInv'
    BY <1>2, NextInv
  <2>2. ASSUME NEW client \in Clients, NEW order \in Orders,
               CheckRefusedEarly(client, order)
                 \/ CheckRateLimited(client, order)
        PROVE  VolumeInv'
    BY <1>2, <2>1, <2>2, OtherStepsVolume
       DEF CheckRefusedEarly, CheckRateLimited, vars
  <2>3. ASSUME NEW client \in Trading, Cancel(client)
        PROVE  VolumeInv'
    BY <1>2, <2>1, <2>3, OtherStepsVolume DEF Cancel
  <2>4. ASSUME ResetDailyVolume \/ ResetCircuitBreaker \/ Tick \/ UNCHANGED vars
        PROVE  VolumeInv'
    BY <1>2, <2>1, <2>4, OtherStepsVolume
       DEF ResetDailyVolume, ResetCircuitBreaker, Tick, vars
  <2> QED
    BY <1>2, <2>1, <2>2, <2>3, <2>4, CheckVolume, TradeVolume DEF Next
<1>3. RiskInv /\ VolumeInv => VolumeWithinLimit
  BY AllPending DEF RiskInv, VolumeInv, VolumeWithinLimit, Total
<1> QED
  BY <1>1, <1>2, <1>3, RiskInvariance, PTL DEF Spec

-----------------------------------------------------------------------------
(***************************************************************************)
(* The net position.                                                       *)
(***************************************************************************)
\* What the approved orders may still add keeps the net position in bounds.
RoomLeft ==
  \A symbol \in Symbols :
    /\ Net(symbol) + Total({symbol}, {"BUY"})
         <= Higher(max_position_per_symbol, max_order_size) + Overlap
    /\ Total({symbol}, {"SELL"}) - Net(symbol) <= max_order_size + Overlap

LEMMA NetFacts ==
  ASSUME RiskInv, NEW symbol
  PROVE  /\ GetPosition(symbol)["BUY"].quantity \in 0 .. MaxGross
         /\ GetPosition(symbol)["SELL"].quantity \in 0 .. MaxGross
         /\ Net(symbol) \in Int
         /\ ~Known(symbol) => Net(symbol) = 0
<1>1. /\ GetPosition(symbol)["BUY"].quantity \in 0 .. MaxGross
      /\ GetPosition(symbol)["SELL"].quantity \in 0 .. MaxGross
  BY PositionFacts DEF Sides, Tracks
<1>2. ~Known(symbol) => Net(symbol) = 0
  BY DEF Net, GetPosition, NoTrades, Sides
<1> QED
  BY <1>1, <1>2, RiskFacts DEF Net

\* A difference of quantities, taken to 32 bits.
Wrap(x) == x % QuantityModulus

\* What wraps is off by the modulus at least.
LEMMA WrapFacts ==
  ASSUME NEW x \in Int
  PROVE  /\ Wrap(x) \in 0 .. QuantityModulus - 1
         /\ x >= 0 /\ x < QuantityModulus => Wrap(x) = x
         /\ x < 0 => x <= Wrap(x) - QuantityModulus
<1>1. PICK m \in Nat \ {0} : m = QuantityModulus
  BY RiskFacts
<1>2. PICK k \in Int, r \in 0 .. m - 1 : x = m * k + r /\ r = x % m
  BY <1>1, IntegerDivision
<1>3. CASE k = 0
  BY <1>1, <1>2, <1>3 DEF Wrap
<1>4. CASE k >= 1
  <2>1. m * (k - 1) >= 0 /\ m * k = m * (k - 1) + m
    BY <1>2, <1>4
  <2> QED
    BY <1>1, <1>2, <1>4, <2>1 DEF Wrap
<1>5. CASE k <= -1
  <2>1. m * (-1 - k) >= 0 /\ m * k = -m - m * (-1 - k)
    BY <1>2, <1>5
  <2> QED
    BY <1>1, <1>2, <1>5, <2>1 DEF Wrap
<1> QED
  BY <1>2, <1>3, <1>4, <1>5


\* Wrapping each side first changes nothing.
LEMMA WrapOfDifference ==
  ASSUME NEW a \in Nat, NEW b \in Nat
  PROVE  Wrap(Wrap(a) - Wrap(b)) = Wrap(a - b)
<1>1. PICK m \in Nat \ {0} : m = QuantityModulus
  BY RiskFacts
<1>2. PICK r \in Int : r = b % m
  BY <1>1, IntegerDivision
<1>3. PICK k \in Int : b = m * k + r
  <2>1. PICK k \in Int : k = b \div m
    BY <1>1, IntegerDivision
  <2>2. b = m * (b \div m) + (b % m)
    BY <1>1, IntegerDivision
  <2> QED
    BY <1>2, <2>1, <2>2
<1>4. ((a % m) - r) % m = (a - r) % m
  <2>1. a \in Int
    OBVIOUS
  <2> QED
    BY <1>1, <1>2, <2>1, RestOfSum
<1>5. (a - r) % m = (a - b) % m
  <2>1. PICK x \in Int : x = a - r
    OBVIOUS
  <2>2. PICK y \in Int : y = a - b
    OBVIOUS
  <2>3. x = y + m * k
    BY <1>1, <1>3, <2>1, <2>2
  <2>4. x % m = y % m
    BY <1>1, <2>3, SameRest
  <2> QED
    BY <2>1, <2>2, <2>4
<1> QED
  BY <1>1, <1>2, <1>4, <1>5 DEF Wrap

\* What a check lets pass: a symbol without a position takes an order of any
\* size allowed, another stays between flat and its limit.
LEMMA ApprovedLeavesRoom ==
  ASSUME PositionFits, RiskInv, RoomLeft,
         NEW order \in Orders, ~RefusedEarly(order), ~PositionTooLarge(order)
  PROVE  /\ order.side = "BUY" =>
              Net(order.symbol) + order.quantity
                <= Higher(max_position_per_symbol, max_order_size)
         /\ order.side = "SELL" =>
              order.quantity - Net(order.symbol) <= max_order_size
<1>1. PICK symbol, q : symbol = order.symbol /\ q = order.quantity
  OBVIOUS
<1>2. /\ symbol \in Symbols /\ q \in Nat \ {0} /\ q <= max_order_size
      /\ order.side \in Sides
  BY <1>1, RiskFacts DEF RefusedEarly, Orders
<1>3. PICK net \in Int : net = Net(symbol)
  BY NetFacts
<1>4. CASE ~Known(symbol)
  BY <1>1, <1>2, <1>3, <1>4, NetFacts, RiskFacts DEF Higher
<1>5. CASE Known(symbol)
  <2>1. PICK buys \in Nat, sells \in Nat :
          buys = Total({symbol}, {"BUY"}) /\ sells = Total({symbol}, {"SELL"})
    BY PendingFacts
  <2>2. /\ net <= Higher(max_position_per_symbol, max_order_size) + Overlap
        /\ -net <= max_order_size + Overlap
    <3>1. /\ net + buys
               <= Higher(max_position_per_symbol, max_order_size) + Overlap
          /\ sells - net <= max_order_size + Overlap
      BY <1>2, <1>3, <2>1 DEF RoomLeft
    <3> QED
      BY <3>1, OverlapFacts, RiskFacts DEF Higher
  <2>3. PICK x \in Int : x = IF order.side = "BUY" THEN net + q ELSE net - q
    BY <1>2, <1>3
  <2>4. Wrap(x) <= max_position_per_symbol
    <3>1. PICK buy \in Nat, sell \in Nat :
            /\ buy = positions[symbol]["BUY"].quantity
            /\ sell = positions[symbol]["SELL"].quantity
      BY <1>5, NetFacts, RiskFacts DEF GetPosition, Known
    <3>2. net = buy - sell
      BY <1>3, <1>5, <3>1 DEF Net, GetPosition, Known
    <3>3. CASE order.side = "BUY"
      <4>1. /\ HeldAfter(order, "BUY") = Wrap(buy + q)
            /\ HeldAfter(order, "SELL") = Wrap(sell)
        BY <1>1, <3>1, <3>3 DEF HeldAfter, Wrap
      <4>2. x = (buy + q) - sell /\ buy + q \in Nat
        BY <1>2, <2>3, <3>2, <3>3
      <4>3. Wrap(Wrap(buy + q) - Wrap(sell)) = Wrap(x)
        BY <1>2, <4>2, WrapOfDifference
      <4>4. ~(Wrap(x) > max_position_per_symbol)
        BY <1>1, <1>5, <4>1, <4>3 DEF PositionTooLarge, Wrap
      <4> QED
        BY <4>4, WrapFacts, RiskFacts
    <3>4. CASE order.side = "SELL"
      <4>1. /\ HeldAfter(order, "BUY") = Wrap(buy)
            /\ HeldAfter(order, "SELL") = Wrap(sell + q)
        BY <1>1, <3>1, <3>4 DEF HeldAfter, Wrap
      <4>2. x = buy - (sell + q) /\ sell + q \in Nat
        BY <1>2, <2>3, <3>2, <3>4
      <4>3. Wrap(Wrap(buy) - Wrap(sell + q)) = Wrap(x)
        BY <1>2, <4>2, WrapOfDifference
      <4>4. ~(Wrap(x) > max_position_per_symbol)
        BY <1>1, <1>5, <4>1, <4>3 DEF PositionTooLarge, Wrap
      <4> QED
        BY <4>4, WrapFacts, RiskFacts
    <3> QED
      BY <1>2, <3>3, <3>4 DEF Sides
  <2>5. /\ x >= -(max_order_size + Overlap + max_order_size)
        /\ x <= Higher(max_position_per_symbol, max_order_size)
                  + Overlap + max_order_size
    BY <1>2, <2>2, <2>3, OverlapFacts, RiskFacts DEF Higher
  <2>6. max_position_per_symbol + Overlap + max_order_size + max_order_size
          < QuantityModulus
    BY OverlapFacts, RiskFacts DEF PositionFits
  <2>7. x < QuantityModulus
    BY <2>5, <2>6, OverlapFacts, RiskFacts DEF Higher
  <2>8. x >= 0 /\ x <= max_position_per_symbol
    BY <2>4, <2>5, <2>6, <2>7, WrapFacts, OverlapFacts, RiskFacts
  <2> QED
    BY <1>1, <1>2, <1>3, <2>3, <2>8, RiskFacts DEF Higher
<1> QED
  BY <1>4, <1>5

LEMMA InitNet ==
  ASSUME Init, RiskInv
  PROVE  RoomLeft
<1> SUFFICES ASSUME NEW symbol \in Symbols
             PROVE  /\ Net(symbol) + Total({symbol}, {"BUY"})
                         <= Higher(max_position_per_symbol, max_order_size)
                              + Overlap
                    /\ Total({symbol}, {"SELL"}) - Net(symbol)
                         <= max_order_size + Overlap
  BY DEF RoomLeft
<1>1. Net(symbol) = 0
  BY NetFacts DEF Init, Known
<1>2. ASSUME NEW sides
      PROVE  Total({symbol}, sides) = 0
  <2>1. PICK f : f = PendingOf({symbol}, sides)
    OBVIOUS
  <2>2. \A c \in Clients : f[c] = 0
    BY <2>1 DEF Init, PendingOf, Trading
  <2>3. SumFunctionOnSet(f, Clients) = 0
    BY <2>2, RiskFacts, SumZero
  <2> QED
    BY <2>1, <2>3 DEF Total
<1>3. Total({symbol}, {"BUY"}) = 0 /\ Total({symbol}, {"SELL"}) = 0
  BY <1>2
<1> QED
  BY <1>1, <1>3, OverlapFacts, RiskFacts DEF Higher

\* An approved order takes the room that is left; what the other clients have
\* approved is no more than the overlap.
LEMMA CheckNet ==
  ASSUME PositionFits, RiskInv, RiskInv', RoomLeft, NEW client \in Clients,
         NEW order \in Orders, CheckCounted(client, order)
  PROVE  RoomLeft'
<1>1. UNCHANGED positions /\ approved[client] = None
  BY DEF CheckCounted
<1>2. \A symbol : Net(symbol)' = Net(symbol)
  BY <1>1 DEF Net, GetPosition, Known
<1>3. CASE UNCHANGED approved
  BY <1>2, <1>3 DEF RoomLeft, Total, PendingOf, Trading
<1>4. CASE ~PositionTooLarge(order) /\ approved' = [approved EXCEPT ![client] = order]
  <2> SUFFICES ASSUME NEW symbol \in Symbols
               PROVE  /\ Net(symbol) + Total({symbol}, {"BUY"})'
                           <= Higher(max_position_per_symbol, max_order_size)
                                + Overlap
                      /\ Total({symbol}, {"SELL"})' - Net(symbol)
                           <= max_order_size + Overlap
    BY <1>2 DEF RoomLeft, Overlap, Higher
  <2>1. /\ ~RefusedEarly(order) /\ order.side \in Sides
        /\ order.quantity \in Nat \ {0}
    BY RiskFacts DEF CheckCounted, Orders
  <2>2. /\ \A other \in Clients \ {client} : approved'[other] = approved[other]
        /\ approved'[client] = order
    BY <1>4 DEF RiskInv, TypeOK
  <2>3. PICK net \in Int, buys \in Nat, sells \in Nat :
          /\ net = Net(symbol)
          /\ buys = Total({symbol}, {"BUY"}) /\ sells = Total({symbol}, {"SELL"})
    BY NetFacts, PendingFacts
  <2>4. /\ PendingOf({symbol}, {"BUY"})[client] = 0
        /\ PendingOf({symbol}, {"SELL"})[client] = 0
    BY <1>1 DEF PendingOf, Trading
  <2>5. buys <= Overlap /\ sells <= Overlap
    <3>1. /\ Total({symbol}, {"BUY"})
               <= PendingOf({symbol}, {"BUY"})[client] + Overlap
          /\ Total({symbol}, {"SELL"})
               <= PendingOf({symbol}, {"SELL"})[client] + Overlap
      BY PendingFacts
    <3> QED
      BY <2>3, <2>4, <3>1, OverlapFacts
  <2>6. PICK bought, sold :
          /\ bought = PendingOf({symbol}, {"BUY"})'[client]
          /\ sold = PendingOf({symbol}, {"SELL"})'[client]
    OBVIOUS
  <2>7. /\ \/ bought = 0
           \/ /\ order.symbol = symbol /\ order.side = "BUY"
              /\ bought = order.quantity
        /\ \/ sold = 0
           \/ /\ order.symbol = symbol /\ order.side = "SELL"
              /\ sold = order.quantity
    BY <2>2, <2>6 DEF PendingOf, Trading
  <2>8. /\ Total({symbol}, {"BUY"})' = (buys - 0) + bought
        /\ Total({symbol}, {"SELL"})' = (sells - 0) + sold
    <3>1. Total({symbol}, {"BUY"})' = (buys - 0) + bought
      BY <2>2, <2>3, <2>4, <2>6, PendingMoves
    <3>2. Total({symbol}, {"SELL"})' = (sells - 0) + sold
      BY <2>2, <2>3, <2>4, <2>6, PendingMoves
    <3> QED
      BY <3>1, <3>2
  <2>9. /\ net + buys <= Higher(max_position_per_symbol, max_order_size) + Overlap
        /\ sells - net <= max_order_size + Overlap
    BY <2>3 DEF RoomLeft
  <2>10. /\ bought # 0 => net + bought <= Higher(max_position_per_symbol, max_order_size)
         /\ sold # 0 => sold - net <= max_order_size
         /\ bought \in Nat /\ sold \in Nat
    BY <1>4, <2>1, <2>3, <2>7, ApprovedLeavesRoom
  <2> QED
    BY <2>3, <2>5, <2>8, <2>9, <2>10, OverlapFacts, RiskFacts DEF Higher
<1> QED
  BY <1>3, <1>4 DEF CheckCounted, RefusedLate

\* A trade stays within the room its order was given.
LEMMA TradeNet ==
  ASSUME RiskInv, RiskInv', RoomLeft, NEW client \in Trading,
         NEW n \in 1 .. approved[client].quantity,
         NEW price \in Prices, Trade(client, n, price)
  PROVE  RoomLeft'
<1> SUFFICES ASSUME NEW symbol \in Symbols
             PROVE  /\ Net(symbol)' + Total({symbol}, {"BUY"})'
                         <= Higher(max_position_per_symbol, max_order_size)
                              + Overlap
                    /\ Total({symbol}, {"SELL"})' - Net(symbol)'
                         <= max_order_size + Overlap
  BY DEF RoomLeft, Overlap, Higher
<1>1. PICK order : order = approved[client]
  OBVIOUS
<1>2. /\ order.side \in Sides /\ order.quantity \in Nat \ {0} /\ n \in Nat \ {0}
      /\ DOMAIN positions' = DOMAIN positions \cup {order.symbol}
      /\ \A s \in DOMAIN positions' \ {order.symbol} :
           positions'[s] = positions[s]
      /\ \A side \in Sides \ {order.side} :
           positions'[order.symbol][side] = GetPosition(order.symbol)[side]
      /\ positions'[order.symbol][order.side].quantity
           = GetPosition(order.symbol)[order.side].quantity + n
  BY <1>1, TradeMovesOne
<1>3. /\ client \in Clients
      /\ \A other \in Clients \ {client} : approved'[other] = approved[other]
      /\ \/ n = order.quantity /\ approved'[client] = None
         \/ /\ approved'[client] \in Checked
            /\ approved'[client].quantity = order.quantity - n
            /\ approved'[client].symbol = order.symbol
            /\ approved'[client].side = order.side
  BY <1>1, TradeLeaves
<1>4. PICK net \in Int, buys \in Nat, sells \in Nat :
        /\ net = Net(symbol)
        /\ buys = Total({symbol}, {"BUY"}) /\ sells = Total({symbol}, {"SELL"})
  BY NetFacts, PendingFacts
<1>5. /\ net + buys <= Higher(max_position_per_symbol, max_order_size) + Overlap
      /\ sells - net <= max_order_size + Overlap
  BY <1>4 DEF RoomLeft
<1>6. PICK share, left :
        /\ share = [side \in Sides |-> PendingOf({symbol}, {side})[client]]
        /\ left = [side \in Sides |-> PendingOf({symbol}, {side})'[client]]
  OBVIOUS
<1>7. /\ Total({symbol}, {"BUY"})' = (buys - share["BUY"]) + left["BUY"]
      /\ Total({symbol}, {"SELL"})' = (sells - share["SELL"]) + left["SELL"]
  BY <1>3, <1>4, <1>6, PendingMoves DEF Sides
<1>8. CASE order.symbol # symbol
  <2>1. Net(symbol)' = net
    BY <1>2, <1>4, <1>8 DEF Net, GetPosition, Known
  <2>2. /\ share["BUY"] = 0 /\ share["SELL"] = 0
        /\ left["BUY"] = 0 /\ left["SELL"] = 0
    BY <1>1, <1>3, <1>6, <1>8 DEF PendingOf, Trading, Sides
  <2> QED
    BY <1>4, <1>5, <1>7, <2>1, <2>2
<1>9. CASE order.symbol = symbol
  <2>1. PICK buy \in Nat, sell \in Nat :
          /\ buy = GetPosition(symbol)["BUY"].quantity
          /\ sell = GetPosition(symbol)["SELL"].quantity
    BY NetFacts, RiskFacts
  <2>2. net = buy - sell
    BY <1>4, <2>1 DEF Net
  <2>3. GetPosition(symbol)' = positions'[symbol]
    BY <1>2, <1>9 DEF GetPosition, Known
  <2>4. \A side \in Sides :
          /\ share[side] = IF side = order.side THEN order.quantity ELSE 0
          /\ left[side] \in Nat
          /\ left[side] <= IF side = order.side THEN order.quantity - n ELSE 0
    BY <1>1, <1>2, <1>3, <1>6, <1>9 DEF PendingOf, Trading
  <2>5. CASE order.side = "BUY"
    <3>1. Net(symbol)' = net + n
      BY <1>2, <1>9, <2>1, <2>2, <2>3, <2>5 DEF Net, Sides
    <3>2. /\ share["BUY"] = order.quantity /\ share["SELL"] = 0
          /\ left["BUY"] \in Nat /\ left["SELL"] = 0
          /\ left["BUY"] <= order.quantity - n
      BY <2>4, <2>5 DEF Sides
    <3> QED
      BY <1>2, <1>4, <1>5, <1>7, <3>1, <3>2, OverlapFacts, RiskFacts DEF Higher
  <2>6. CASE order.side = "SELL"
    <3>1. Net(symbol)' = net - n
      BY <1>2, <1>9, <2>1, <2>2, <2>3, <2>6 DEF Net, Sides
    <3>2. /\ share["SELL"] = order.quantity /\ share["BUY"] = 0
          /\ left["SELL"] \in Nat /\ left["BUY"] = 0
          /\ left["SELL"] <= order.quantity - n
      BY <2>4, <2>6 DEF Sides
    <3> QED
      BY <1>2, <1>4, <1>5, <1>7, <3>1, <3>2, OverlapFacts, RiskFacts DEF Higher
  <2> QED
    BY <1>2, <2>5, <2>6 DEF Sides
<1> QED
  BY <1>8, <1>9

LEMMA OtherStepsNet ==
  ASSUME RiskInv, RiskInv', RoomLeft, UNCHANGED positions,
         \/ \E client \in Trading : Cancel(client)
         \/ UNCHANGED approved
  PROVE  RoomLeft'
<1>1. \A symbol : Net(symbol)' = Net(symbol)
  BY DEF Net, GetPosition, Known
<1>2. CASE UNCHANGED approved
  BY <1>1, <1>2 DEF RoomLeft, Total, PendingOf, Trading
<1>3. ASSUME NEW client \in Trading, Cancel(client)
      PROVE  RoomLeft'
  <2>1. /\ client \in Clients /\ approved'[client] = None
        /\ \A other \in Clients \ {client} : approved'[other] = approved[other]
    BY <1>3 DEF Cancel, Trading, RiskInv, TypeOK
  <2>2. ASSUME NEW symbols, NEW sides
        PROVE  /\ Total(symbols, sides) \in Int /\ Total(symbols, sides)' \in Int
               /\ Total(symbols, sides)' <= Total(symbols, sides)
    <3>1. PICK share \in Nat : share = PendingOf(symbols, sides)[client]
      BY <2>1, PendingFacts, RiskFacts
    <3>2. PendingOf(symbols, sides)'[client] = 0
      BY <2>1 DEF PendingOf, Trading
    <3>3. PICK total \in Nat : total = Total(symbols, sides)
      BY PendingFacts
    <3>4. Total(symbols, sides)' = (total - share) + 0
      BY <2>1, <3>1, <3>2, <3>3, PendingMoves
    <3> QED
      BY <3>1, <3>3, <3>4
  <2> SUFFICES ASSUME NEW symbol \in Symbols
               PROVE  /\ Net(symbol) + Total({symbol}, {"BUY"})'
                           <= Higher(max_position_per_symbol, max_order_size)
                                + Overlap
                      /\ Total({symbol}, {"SELL"})' - Net(symbol)
                           <= max_order_size + Overlap
    BY <1>1 DEF RoomLeft, Overlap, Higher
  <2>3. /\ Net(symbol) + Total({symbol}, {"BUY"})
             <= Higher(max_position_per_symbol, max_order_size) + Overlap
        /\ Total({symbol}, {"SELL"}) - Net(symbol) <= max_order_size + Overlap
    BY DEF RoomLeft
  <2> QED
    BY <2>2, <2>3, NetFacts, OverlapFacts, RiskFacts DEF Higher
<1> QED
  BY <1>2, <1>3

\* However the limits are set, the net position of a symbol is bounded by the
\* larger of its own limit and the order limit, and an order of each of the
\* other clients; on the short side by the order limit in place of the first.
\* No sum of the check may wrap past it (RiskManager.h:96-118).
THEOREM NetStaysWithinLimit ==
  PositionFits => (Spec => []NetWithinLimit)
<1> SUFFICES ASSUME PositionFits
             PROVE  Spec => []NetWithinLimit
  OBVIOUS
<1>1. Init => RoomLeft
  BY InitInv, InitNet
<1>2. ASSUME RiskInv, RoomLeft, [Next]_vars
      PROVE  RoomLeft'
  <2>1. RiskInv'
    BY <1>2, NextInv
  <2>2. ASSUME NEW client \in Clients, NEW order \in Orders,
               CheckRefusedEarly(client, order)
                 \/ CheckRateLimited(client, order)
        PROVE  RoomLeft'
    BY <1>2, <2>1, <2>2, OtherStepsNet
       DEF CheckRefusedEarly, CheckRateLimited, vars
  <2>3. ASSUME NEW client \in Trading, Cancel(client)
        PROVE  RoomLeft'
    BY <1>2, <2>1, <2>3, OtherStepsNet DEF Cancel
  <2>4. ASSUME ResetDailyVolume \/ ResetCircuitBreaker \/ Tick \/ UNCHANGED vars
        PROVE  RoomLeft'
    BY <1>2, <2>1, <2>4, OtherStepsNet
       DEF ResetDailyVolume, ResetCircuitBreaker, Tick, vars
  <2> QED
    BY <1>2, <2>1, <2>2, <2>3, <2>4, CheckNet, TradeNet DEF Next
<1>3. ASSUME RiskInv, RoomLeft
      PROVE  NetWithinLimit
  <2> SUFFICES ASSUME NEW symbol \in Symbols
               PROVE  /\ Net(symbol) <= Higher(max_position_per_symbol,
                                               max_order_size) + Overlap
                      /\ -Net(symbol) <= max_order_size + Overlap
    BY DEF NetWithinLimit
  <2>1. PICK net \in Int, buys \in Nat, sells \in Nat :
          /\ net = Net(symbol)
          /\ buys = Total({symbol}, {"BUY"}) /\ sells = Total({symbol}, {"SELL"})
    BY <1>3, NetFacts, PendingFacts
  <2>2. /\ net + buys <= Higher(max_position_per_symbol, max_order_size) + Overlap
        /\ sells - net <= max_order_size + Overlap
    BY <1>3, <2>1 DEF RoomLeft
  <2> QED
    BY <2>1, <2>2, OverlapFacts, RiskFacts DEF Higher
<1> QED
  BY <1>1, <1>2, <1>3, RiskInvariance, PTL DEF Spec

=============================================================================
