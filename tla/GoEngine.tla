------------------------------ MODULE GoEngine ------------------------------
(***************************************************************************)
(* The second matching engine (bindings/go/engine.go), a book in Go maps   *)
(* behind a read-write mutex.  Every method holds the mutex from its first *)
(* to its last step, so it is one step of the model, except that a trade   *)
(* callback runs in the middle of AddLimitOrder.  The mutex is held then:  *)
(* no other method runs, and a callback that calls one waits for itself.   *)
(* A callback that panics unwinds AddLimitOrder, the deferred Unlock runs, *)
(* and what was done so far stays done.                                    *)
(*                                                                         *)
(* A request's price is a float; the model counts it in Units to a tick.   *)
(***************************************************************************)
EXTENDS LobCommon, Sequences, FiniteSetsExt, SequencesExt

CONSTANTS
  Units,    \* how finely float prices are told apart
  MaxTime   \* bound on the number of accepted orders

\* A request is the arguments of AddLimitOrder; an id is a uint64.
ASSUME GoAssumption ==
  /\ MIN_PRICE = 0
  /\ IsFiniteSet(OrderIDs)
  /\ Units \in Nat \ {0}
  /\ MaxTime \in Nat
  /\ \A r \in Requests : r = [id |-> r.id, price |-> r.price,
                             quantity |-> r.quantity, side |-> r.side]

VARIABLES
  orders,          \* e.orders: for each id its order, NoOrder if none
  book,            \* e.bids and e.asks: for each side, levels by price
  closed,
  trade_callback,  \* whether e.tradeCallback is set
  call,            \* where the running AddLimitOrder is
  now,             \* history: how many orders were accepted
  result           \* what the last call returned

vars == <<orders, book, closed, trade_callback, call, now, result>>

(***************************************************************************)
(* An order struct; timestamp is history.  A level refers to its orders by *)
(* their ids.                                                              *)
(***************************************************************************)
Order == [price : Prices, quantity : 0 .. MAX_QUANTITY, side : Sides,
          timestamp : Nat]

ASSUME NoOrderAssumption == NoOrder \notin Order /\ NoOrder \notin OrderIDs

IdleCall == [at |-> "idle", taker |-> NoOrder, maker |-> NoOrder,
             quantity |-> 0]

Idle       == call.at = "idle"
Matching   == call.at = "matching"
InCallback == call.at = "callback"

Taker == orders[call.taker]
Maker == orders[call.maker]

Init ==
  /\ orders = [id \in OrderIDs |-> NoOrder]
  /\ book = [side \in Sides |-> [p \in {} |-> {}]]
  /\ closed = FALSE
  /\ trade_callback = FALSE
  /\ call = IdleCall
  /\ now = 0
  /\ result = "SUCCESS"

Levels(side) == DOMAIN book[side]

-----------------------------------------------------------------------------
(***************************************************************************)
(* Prices.                                                                 *)
(***************************************************************************)
PriceToFixed(price) == (price + Units \div 2) \div Units

\* Mutant: no upper limit.
NegativePrice(price) == price < 0

BadPrice(price) == price < 0 \/ price > MAX_PRICE * Units

\* The checks of AddLimitOrder in the order of the code.
Refusal(r) ==
  CASE closed -> "UNKNOWN_ERROR"
    [] ~closed /\ r.quantity \notin Quantities -> "INVALID_QUANTITY"
    [] ~closed /\ r.quantity \in Quantities /\ BadPrice(r.price)
         -> "INVALID_PRICE"
    [] ~closed /\ r.quantity \in Quantities /\ ~BadPrice(r.price)
         /\ r.side \notin Sides -> "INVALID_SIDE"
    [] ~closed /\ r.quantity \in Quantities /\ ~BadPrice(r.price)
         /\ r.side \in Sides /\ orders[r.id] # NoOrder -> "INVALID_ORDER_ID"
    [] OTHER -> "SUCCESS"

(***************************************************************************)
(* The levels.                                                             *)
(***************************************************************************)
\* bestBidLevel, bestAskLevel: whatever the order of the iteration.
IsBest(side, p) ==
  /\ p \in Levels(side)
  /\ \A q \in Levels(side) : AtLeastAsGood(side, p, q)

WithLevel(side, p, level) ==
  [book EXCEPT ![side] = [q \in Levels(side) \cup {p} |->
                            IF q = p THEN level ELSE book[side][q]]]

\* Mutant: the new order goes to the front.
AddOrderToFront(id, o) ==
  LET level == IF o.price \in Levels(o.side) THEN book[o.side][o.price]
               ELSE [orders |-> << >>, total_quantity |-> 0]
  IN  WithLevel(o.side, o.price,
        [orders |-> <<id>> \o level.orders,
         total_quantity |-> Plus(level.total_quantity, o.quantity)])

AddOrderToBook(id, o) ==
  LET level == IF o.price \in Levels(o.side) THEN book[o.side][o.price]
               ELSE [orders |-> << >>, total_quantity |-> 0]
  IN  WithLevel(o.side, o.price,
        [orders |-> Append(level.orders, id),
         total_quantity |-> Plus(level.total_quantity, o.quantity)])

\* Where a level refers to an order.
Places(level, id) == {i \in DOMAIN level.orders : level.orders[i] = id}

WithoutLevel(side, p) ==
  [book EXCEPT ![side] = [q \in Levels(side) \ {p} |-> book[side][q]]]

\* Mutant: an empty level stays in the map.
RemoveOrderOnly(id, o, shown) ==
  IF o.price \notin Levels(o.side) THEN book
  ELSE LET level == book[o.side][o.price]
           left  == RemoveAt(level.orders, Min(Places(level, id)))
       IN  IF Places(level, id) = {} THEN book
           ELSE WithLevel(o.side, o.price,
                  [orders |-> left,
                   total_quantity |-> Minus(level.total_quantity, shown)])

\* removeOrderFromBook of an order the level still shows that quantity of:
\* an order that is on no level changes nothing, a level left empty is
\* deleted.
RemoveOrderFromBook(id, o, shown) ==
  IF o.price \notin Levels(o.side) THEN book
  ELSE LET level == book[o.side][o.price]
           left  == RemoveAt(level.orders, Min(Places(level, id)))
       IN  IF Places(level, id) = {} THEN book
           ELSE IF left = << >> THEN WithoutLevel(o.side, o.price)
           ELSE WithLevel(o.side, o.price,
                  [orders |-> left,
                   total_quantity |-> Minus(level.total_quantity, shown)])

-----------------------------------------------------------------------------
(***************************************************************************)
(* AddLimitOrder.                                                          *)
(***************************************************************************)
AddRejected(r) ==
  /\ Idle
  /\ Refusal(r) # "SUCCESS"
  /\ result' = Refusal(r)
  /\ UNCHANGED <<orders, book, closed, trade_callback, call, now>>

\* The order is in e.orders before it is matched.
AddAccepted(r) ==
  /\ Idle
  /\ Refusal(r) = "SUCCESS"
  /\ now < MaxTime
  /\ orders' = [orders EXCEPT ![r.id] =
       [price |-> PriceToFixed(r.price), quantity |-> r.quantity,
        side |-> r.side, timestamp |-> now]]
  /\ call' = [IdleCall EXCEPT !.at = "matching", !.taker = r.id]
  /\ now' = now + 1
  /\ UNCHANGED <<book, closed, trade_callback, result>>

\* One more turn of the loop, up to the callback in executeTrade.
ExecuteTrade ==
  /\ Matching
  /\ Taker.quantity > 0
  /\ LET other == Opposite(Taker.side) IN
       \E p \in Levels(other) :
         /\ IsBest(other, p)
         /\ Crosses(Taker.side, Taker.price, p)
         /\ LET maker == Head(book[other][p].orders)
            IN  call' = [call EXCEPT !.at = "callback", !.maker = maker,
                           !.quantity = Min({Taker.quantity,
                                             orders[maker].quantity})]
  /\ UNCHANGED <<orders, book, closed, trade_callback, now, result>>

NextTurn == [call EXCEPT !.at = "matching", !.maker = NoOrder, !.quantity = 0]

\* Mutant: a partial fill is charged to copies of the two orders.
SettleCopies ==
  /\ InCallback
  /\ IF Maker.quantity = call.quantity
       THEN /\ orders' = [orders EXCEPT ![call.taker].quantity = @ - call.quantity,
                                        ![call.maker] = NoOrder]
            /\ book' = RemoveOrderFromBook(call.maker, Maker, call.quantity)
       ELSE UNCHANGED <<orders, book>>
  /\ call' = NextTurn
  /\ UNCHANGED <<closed, trade_callback, now, result>>

\* The rest of the turn: both orders and the level lose the quantity, and a
\* filled maker leaves its level and e.orders.
Settle ==
  /\ InCallback
  /\ IF Maker.quantity = call.quantity
       THEN /\ orders' = [orders EXCEPT ![call.taker].quantity = @ - call.quantity,
                                        ![call.maker] = NoOrder]
            /\ book' = RemoveOrderFromBook(call.maker, Maker, call.quantity)
       ELSE /\ orders' = [orders EXCEPT ![call.taker].quantity = @ - call.quantity,
                                        ![call.maker].quantity = @ - call.quantity]
            /\ book' = WithLevel(Maker.side, Maker.price,
                 [book[Maker.side][Maker.price] EXCEPT
                    !.total_quantity = Minus(@, call.quantity)])
  /\ call' = NextTurn
  /\ UNCHANGED <<closed, trade_callback, now, result>>

\* The callback panics.
Panic ==
  /\ InCallback
  /\ trade_callback
  /\ call' = IdleCall
  /\ result' = "UNKNOWN_ERROR"
  /\ UNCHANGED <<orders, book, closed, trade_callback, now>>

CannotTrade ==
  /\ Matching
  /\ Taker.quantity > 0
  /\ ~ \E p \in Levels(Opposite(Taker.side)) :
         /\ IsBest(Opposite(Taker.side), p)
         /\ Crosses(Taker.side, Taker.price, p)

Rest ==
  /\ CannotTrade
  /\ book' = AddOrderToBook(call.taker, Taker)
  /\ call' = IdleCall
  /\ result' = "SUCCESS"
  /\ UNCHANGED <<orders, closed, trade_callback, now>>

Filled ==
  /\ Matching
  /\ Taker.quantity = 0
  /\ orders' = [orders EXCEPT ![call.taker] = NoOrder]
  /\ call' = IdleCall
  /\ result' = "SUCCESS"
  /\ UNCHANGED <<book, closed, trade_callback, now>>

-----------------------------------------------------------------------------
(***************************************************************************)
(* The other methods.                                                      *)
(***************************************************************************)
CancelOrder(id) ==
  /\ Idle
  /\ IF orders[id] = NoOrder
       THEN /\ result' = "ORDER_NOT_FOUND"
            /\ UNCHANGED <<orders, book>>
       ELSE /\ result' = "SUCCESS"
            /\ book' = RemoveOrderFromBook(id, orders[id], orders[id].quantity)
            /\ orders' = [orders EXCEPT ![id] = NoOrder]
  /\ UNCHANGED <<closed, trade_callback, call, now>>

SetTradeCallback ==
  /\ Idle
  /\ trade_callback' \in BOOLEAN
  /\ UNCHANGED <<orders, book, closed, call, now, result>>

Close ==
  /\ Idle
  /\ closed' = TRUE
  /\ orders' = [id \in OrderIDs |-> NoOrder]
  /\ book' = [side \in Sides |-> [p \in {} |-> {}]]
  /\ UNCHANGED <<trade_callback, call, now, result>>

Engine == ExecuteTrade \/ Settle \/ Rest \/ Filled

Next ==
  \/ \E r \in Requests : AddRejected(r) \/ AddAccepted(r)
  \/ Engine
  \/ Panic
  \/ \E id \in OrderIDs : CancelOrder(id)
  \/ SetTradeCallback
  \/ Close

Spec == Init /\ [][Next]_vars

\* The goroutine inside AddLimitOrder keeps running; its callbacks return or
\* panic, and do not call the engine.
FairSpec == Spec /\ WF_vars(Engine)

-----------------------------------------------------------------------------
(***************************************************************************)
(* The queries.                                                            *)
(***************************************************************************)
\* bestPrice over one order of the iteration of the map.
BestPriceAlong(prices, highest) ==
  FoldLeft(LAMBDA best, price :
             IF (highest /\ price > best)
                \/ (~highest /\ (best = 0 \/ price < best))
             THEN price ELSE best,
           0, prices)

\* What GetBestBid or GetBestAsk may return: Go leaves the order open.
BestPrices(side) ==
  {BestPriceAlong(prices, side = "BUY") : prices \in SetToSeqs(Levels(side))}

GetQuantityAtPrice(price, side) ==
  IF PriceToFixed(price) \in Levels(side)
  THEN book[side][PriceToFixed(price)].total_quantity ELSE 0

-----------------------------------------------------------------------------
(***************************************************************************)
(* Properties.                                                             *)
(***************************************************************************)
\* The type of the state.
TypeOK ==
  /\ orders \in [OrderIDs -> Order \cup {NoOrder}]
  /\ DOMAIN book = Sides
  /\ \A side \in Sides :
       /\ Levels(side) \subseteq Prices
       /\ \A p \in Levels(side) :
            /\ book[side][p].orders \in Seq(OrderIDs)
            /\ book[side][p].total_quantity \in 0 .. QuantityModulus - 1
  /\ closed \in BOOLEAN /\ trade_callback \in BOOLEAN
  /\ call \in [at : {"idle", "matching", "callback"},
               taker : OrderIDs \cup {NoOrder},
               maker : OrderIDs \cup {NoOrder}, quantity : 0 .. MAX_QUANTITY]
  /\ now \in Nat
  /\ result \in ErrorCodes

Listed ==
  UNION {UNION {ToSet(book[side][p].orders) : p \in Levels(side)} :
           side \in Sides}

\* The two maps and the running totals describe the same orders: what
\* GetQuantityAtPrice shows at any price is, modulo 2^32, the sum over the
\* orders filed there, each filed once under its own side and price, and a
\* level without orders is gone (engine.go:328-338, 380-422).
LevelsAddUp ==
  \A side \in Sides :
    /\ \A p \in Levels(side) :
         LET list == book[side][p].orders
             filed == {id \in Listed : /\ orders[id] # NoOrder
                                       /\ orders[id].side = side
                                       /\ orders[id].price = p}
         IN  list # << >> /\ IsInjective(list) /\ ToSet(list) = filed
    /\ \A price \in 0 .. MAX_PRICE * Units :
         GetQuantityAtPrice(price, side) =
           SumFunction([id \in {other \in Listed :
                                 /\ orders[other].side = side
                                 /\ orders[other].price = PriceToFixed(price)}
                          |-> orders[id].quantity]) % QuantityModulus

OrderWith(id) ==
  [id |-> id, price |-> orders[id].price, quantity |-> orders[id].quantity,
   side |-> orders[id].side, timestamp |-> orders[id].timestamp]

\* What a client of the abstract book would see: each request with its price
\* in ticks, a bad price being any one above the limit, and the orders and
\* the trade the engine's maps and its running call stand for.
FixedRequest(r) ==
  [r EXCEPT !.price = IF BadPrice(r.price) THEN MAX_PRICE + 1
                      ELSE PriceToFixed(r.price)]

Known == {id \in OrderIDs : orders[id] # NoOrder}

Stray == Known \ (Listed \cup {call.taker})

Resting  == {OrderWith(id) : id \in Listed}
Lost     == {OrderWith(id) : id \in Stray}
Incoming == IF Idle THEN NoOrder ELSE OrderWith(call.taker)

ReportedFill ==
  IF InCallback
  THEN [maker_order_id |-> call.maker, taker_order_id |-> call.taker,
        price |-> Maker.price, quantity |-> call.quantity,
        side |-> Maker.side]
  ELSE NoOrder

PriceTime == INSTANCE PriceTimeBook WITH
  Requests        <- {FixedRequest(r) : r \in Requests},
  Capacity        <- Cardinality(OrderIDs) + 1,
  CallbackCancels <- FALSE,
  CallbackThrows  <- TRUE,
  LostIdsStay     <- TRUE,
  MayClose        <- TRUE,
  resting         <- Resting,
  lost            <- Lost,
  incoming        <- Incoming,
  fill            <- ReportedFill

ASSUME NoFillAssumption == NoOrder \notin PriceTime!Orders \cup PriceTime!Fills

\* The Go engine makes the promise the C++ engine makes, from the same
\* requests: price-time priority, trades at the maker's price, no trade
\* reported twice or left unsettled, and no order refused for want of room;
\* also when callbacks panic and when the engine is closed
\* (engine.go:134-188, 310-465).
ImplementsPriceTime == PriceTime!Spec

\* AddLimitOrder returns and releases the mutex, whatever it has to match
\* (engine.go:314-363).
AddReturns == ~Idle ~> Idle

\* "GetBestAsk returns the current best ask price" (engine.go:200): whatever
\* the order of the iteration over the map.
BestAskIsLowest ==
  \A best \in BestPrices("SELL") :
    Levels("SELL") # {} => \A p \in Levels("SELL") : best <= p

=============================================================================
