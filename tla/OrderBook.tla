------------------------------ MODULE OrderBook -----------------------------
(***************************************************************************)
(* The matching engine (core/src/OrderBook.cpp, core/include/lob/          *)
(* OrderBook.h): price levels with FIFO lists of orders, an index from ids *)
(* to orders, and the pool the orders live in.  One thread at a time calls *)
(* it (docs/architecture/concurrency.md), so a call runs without           *)
(* interruption except where it calls the client's trade callback.  The    *)
(* callback runs between the report of a trade and its settlement; it may  *)
(* call cancel_order.  An exception of the callback, or of an allocation   *)
(* when the taker comes to rest, ends the call where it is thrown.         *)
(*                                                                         *)
(* A Slots value is the address of an order in the pool, Null is nullptr.  *)
(* The list of a level is the sequence of its orders from head to tail     *)
(* (IntrusiveList.h); the pool is MemoryPool.tla.                          *)
(***************************************************************************)
EXTENDS LobCommon, Sequences, FiniteSetsExt

CONSTANTS
  POOL_CAPACITY,    \* OrderBook.h:38
  CallbackCancels,  \* whether a trade callback may call cancel_order
  Throws,           \* which of ThrowPoints may throw
  MaxTime           \* bound on the number of accepted orders

\* The trade callback; the node of a new level in bids_ or asks_; the node of
\* order_map_.  (The pool and the lists never allocate.)
ThrowPoints == {"callback", "level", "index"}

ASSUME OrderBookAssumption ==
  /\ POOL_CAPACITY \in Nat
  /\ CallbackCancels \in BOOLEAN
  /\ Throws \subseteq ThrowPoints
  /\ MaxTime \in Nat

VARIABLES
  free_list,  \* memory_pool_.free_list_
  mem,        \* the Order object in each slot of the pool, NoOrder if none
  book,       \* bids_ and asks_: for each side, its price levels by price
  order_map,  \* order_map_, Null where find() == end()
  call,       \* where the running call is: see IdleCall
  now,        \* the clock of get_timestamp, counting accepted orders
  result      \* what the last call returned

vars == <<free_list, mem, book, order_map, call, now, result>>

Live == {s \in 1 .. POOL_CAPACITY : mem[s] # NoOrder}

Pool == INSTANCE MemoryPool WITH Capacity <- POOL_CAPACITY, live <- Live

Slots == Pool!Slots
Null  == Pool!Null

(***************************************************************************)
(* An Order.  The clock orders acceptances; original and reported are      *)
(* history: the quantity the client asked for and the sum of the           *)
(* quantities of the trades reported to the callback for this order.       *)
(***************************************************************************)
Order == [id : OrderIDs, price : Prices, quantity : 0 .. MAX_QUANTITY,
          side : Sides, timestamp : Nat,
          original : Quantities, reported : Nat]

NewOrder(r) ==
  [id |-> r.id, price |-> r.price, quantity |-> r.quantity, side |-> r.side,
   timestamp |-> now, original |-> r.quantity, reported |-> 0]

ASSUME NoOrderAssumption == NoOrder \notin Order

\* A call is idle, at the head of the matching loop with its taker, or inside
\* the callback for a trade of that quantity with that maker, the front of
\* the level that best_ask (best_bid) points to.
IdleCall == [at |-> "idle", taker |-> Null, maker |-> Null,
             level |-> 0, quantity |-> 0]

Idle       == call.at = "idle"
Matching   == call.at = "matching"
InCallback == call.at = "callback"

Taker == mem[call.taker]
Maker == mem[call.maker]

Init ==
  /\ mem = [s \in Slots |-> NoOrder]
  /\ Pool!Init
  /\ book = [side \in Sides |-> [p \in {} |-> {}]]
  /\ order_map = [id \in OrderIDs |-> Null]
  /\ call = IdleCall
  /\ now = 0
  /\ result = "SUCCESS"

-----------------------------------------------------------------------------
(***************************************************************************)
(* The price levels.                                                       *)
(***************************************************************************)
Levels(side) == DOMAIN book[side]

\* Mutant: the two maps are sorted the wrong way round.
IsLast(side, p) ==
  /\ p \in Levels(side)
  /\ \A q \in Levels(side) : AtLeastAsGood(side, q, p)

\* The key of begin(): the first level in the map's order.
IsBest(side, p) ==
  /\ p \in Levels(side)
  /\ \A q \in Levels(side) : AtLeastAsGood(side, p, q)

WithLevel(side, p, level) ==
  [book EXCEPT ![side] =
     [q \in Levels(side) \cup {p} |->
        IF q = p THEN level ELSE book[side][q]]]

WithoutLevel(side, p) ==
  [book EXCEPT ![side] = [q \in Levels(side) \ {p} |-> book[side][q]]]

\* Mutant: the front is unlinked whatever the order.
RemoveFront(list, ptr) == Tail(list)

\* IntrusiveList::remove of an order that is in the list.
Remove(list, ptr) ==
  LET at == CHOOSE i \in 1 .. Len(list) : list[i] = ptr
  IN  [i \in 1 .. Len(list) - 1 |-> list[IF i < at THEN i ELSE i + 1]]

\* Mutant: a new order goes to the front of its level.
AddToFront(ptr, o) ==
  LET level == IF o.price \in Levels(o.side) THEN book[o.side][o.price]
               ELSE [orders |-> << >>, total_quantity |-> 0]
  IN  WithLevel(o.side, o.price,
        [orders |-> <<ptr>> \o level.orders,
         total_quantity |-> Plus(level.total_quantity, o.quantity)])

\* add_to_price_level: a level that is not there is created empty.
AddToPriceLevel(ptr, o) ==
  LET level == IF o.price \in Levels(o.side) THEN book[o.side][o.price]
               ELSE [orders |-> << >>, total_quantity |-> 0]
  IN  WithLevel(o.side, o.price,
        [orders |-> Append(level.orders, ptr),
         total_quantity |-> Plus(level.total_quantity, o.quantity)])

\* An order leaves its level with the quantity it still showed there; a level
\* with no orders is erased (remove_from_price_level, and the same steps for
\* a filled maker in the matching loops).
RemoveFromPriceLevel(side, p, ptr, quantity) ==
  LET level == book[side][p]
      left  == Remove(level.orders, ptr)
  IN  IF left = << >> THEN WithoutLevel(side, p)
      ELSE WithLevel(side, p,
             [orders |-> left,
              total_quantity |-> Minus(level.total_quantity, quantity)])

\* Mutant: a partial fill does not reduce what the level shows.
ReduceNothing(side, p, quantity) == book

\* What a partial fill does to the maker's level.
ReduceLevel(side, p, quantity) ==
  WithLevel(side, p,
    [book[side][p] EXCEPT !.total_quantity = Minus(@, quantity)])

-----------------------------------------------------------------------------
(***************************************************************************)
(* add_limit_order.                                                        *)
(***************************************************************************)
Refusal(r) ==
  IF ArgumentError(r) # "SUCCESS" THEN ArgumentError(r)
  ELSE IF order_map[r.id] # Null THEN "INVALID_ORDER_ID"
  ELSE IF free_list = << >> THEN "POOL_EXHAUSTED"
  ELSE "SUCCESS"

AddRejected(r) ==
  /\ Idle
  /\ Refusal(r) # "SUCCESS"
  /\ result' = Refusal(r)
  /\ UNCHANGED <<free_list, mem, book, order_map, call, now>>

\* The order is built in the pool before it is matched.
AddAccepted(r) ==
  /\ Idle
  /\ Refusal(r) = "SUCCESS"
  /\ now < MaxTime
  /\ LET ptr == Pool!Back(free_list)
     IN  /\ mem' = [mem EXCEPT ![ptr] = NewOrder(r)]
         /\ call' = [IdleCall EXCEPT !.at = "matching", !.taker = ptr]
  /\ free_list' = Pool!PopBack(free_list)
  /\ now' = now + 1
  /\ UNCHANGED <<book, order_map, result>>

\* Mutant: the larger quantity is traded.
TradeLarger(taker, maker) ==
  IF taker.quantity < maker.quantity THEN maker.quantity ELSE taker.quantity

TradeQuantity(taker, maker) ==
  IF taker.quantity < maker.quantity THEN taker.quantity ELSE maker.quantity

\* Mutant: the loop does not stop when the taker is filled.
ExecuteTradeOnAndOn ==
  /\ Matching
  /\ LET other == Opposite(Taker.side) IN
       \E p \in Levels(other) :
         /\ IsBest(other, p)
         /\ Crosses(Taker.side, Taker.price, p)
         /\ LET ptr == Head(book[other][p].orders)
                q == TradeQuantity(Taker, mem[ptr])
            IN  /\ call' = [call EXCEPT !.at = "callback", !.maker = ptr,
                                        !.level = p, !.quantity = q]
                /\ mem' = [mem EXCEPT ![ptr].reported = @ + q,
                                      ![call.taker].reported = @ + q]
  /\ UNCHANGED <<free_list, book, order_map, now, result>>

\* One more turn of the loop: the front of the best opposite level is the
\* maker, and the trade is reported before anything is changed.
ExecuteTrade ==
  /\ Matching
  /\ Taker.quantity > 0
  /\ LET other == Opposite(Taker.side) IN
       \E p \in Levels(other) :
         /\ IsBest(other, p)
         /\ Crosses(Taker.side, Taker.price, p)
         /\ LET ptr == Head(book[other][p].orders)
                q == TradeQuantity(Taker, mem[ptr])
            IN  /\ call' = [call EXCEPT !.at = "callback", !.maker = ptr,
                                        !.level = p, !.quantity = q]
                /\ mem' = [mem EXCEPT ![ptr].reported = @ + q,
                                      ![call.taker].reported = @ + q]
  /\ UNCHANGED <<free_list, book, order_map, now, result>>

\* The callback returned: the rest of the loop's body.
NextTurn == [call EXCEPT !.at = "matching", !.maker = Null,
                         !.level = 0, !.quantity = 0]

\* Mutant: only the maker is charged for a partial fill.
SettleMakerOnly ==
  /\ InCallback
  /\ Maker.quantity # call.quantity
  /\ mem' = [mem EXCEPT ![call.maker].quantity = @ - call.quantity]
  /\ book' = ReduceLevel(Maker.side, call.level, call.quantity)
  /\ call' = NextTurn
  /\ UNCHANGED <<free_list, order_map, now, result>>

SettlePartial ==
  /\ InCallback
  /\ Maker.quantity # call.quantity
  /\ mem' = [mem EXCEPT ![call.maker].quantity = @ - call.quantity,
                        ![call.taker].quantity = @ - call.quantity]
  /\ book' = ReduceLevel(Maker.side, call.level, call.quantity)
  /\ call' = NextTurn
  /\ UNCHANGED <<free_list, order_map, now, result>>

SettleFilled ==
  /\ InCallback
  /\ Maker.quantity = call.quantity
  /\ book' = RemoveFromPriceLevel(Maker.side, call.level, call.maker,
                                  call.quantity)
  /\ order_map' = [order_map EXCEPT ![Maker.id] = Null]
  /\ mem' = [mem EXCEPT ![call.maker] = NoOrder,
                        ![call.taker].quantity = @ - call.quantity]
  /\ free_list' = Pool!PushBack(free_list, call.maker)
  /\ call' = NextTurn
  /\ UNCHANGED <<now, result>>

\* The loop ended with the taker not filled: it rests.
CannotTrade ==
  /\ Matching
  /\ Taker.quantity > 0
  /\ ~ \E p \in Levels(Opposite(Taker.side)) :
         /\ IsBest(Opposite(Taker.side), p)
         /\ Crosses(Taker.side, Taker.price, p)

Rest ==
  /\ CannotTrade
  /\ book' = AddToPriceLevel(call.taker, Taker)
  /\ order_map' = [order_map EXCEPT ![Taker.id] = call.taker]
  /\ call' = IdleCall
  /\ result' = "SUCCESS"
  /\ UNCHANGED <<free_list, mem, now>>

\* Mutant: a filled taker is not given back.
FilledAndKept ==
  /\ Matching
  /\ Taker.quantity = 0
  /\ call' = IdleCall
  /\ result' = "SUCCESS"
  /\ UNCHANGED <<free_list, mem, book, order_map, now>>

\* Mutant: a filled taker is given back by the loop and after it.
FilledTwice ==
  /\ Matching
  /\ Taker.quantity = 0
  /\ mem' = [mem EXCEPT ![call.taker] = NoOrder]
  /\ free_list' = free_list \o <<call.taker, call.taker>>
  /\ call' = IdleCall
  /\ result' = "SUCCESS"
  /\ UNCHANGED <<book, order_map, now>>

\* The loop ended because the taker is filled: it never enters the book.
Filled ==
  /\ Matching
  /\ Taker.quantity = 0
  /\ mem' = [mem EXCEPT ![call.taker] = NoOrder]
  /\ free_list' = Pool!PushBack(free_list, call.taker)
  /\ call' = IdleCall
  /\ result' = "SUCCESS"
  /\ UNCHANGED <<book, order_map, now>>

\* Mutant: a guard object gives the taker back on every exception, also when
\* it is already linked.
ThrowAndRelease ==
  /\ \/ "callback" \in Throws /\ InCallback /\ UNCHANGED book
     \/ /\ "level" \in Throws /\ CannotTrade
        /\ Taker.price \notin Levels(Taker.side)
        /\ UNCHANGED book
     \/ /\ "index" \in Throws /\ CannotTrade
        /\ book' = AddToPriceLevel(call.taker, Taker)
  /\ mem' = [mem EXCEPT ![call.taker] = NoOrder]
  /\ free_list' = Pool!PushBack(free_list, call.taker)
  /\ call' = IdleCall
  /\ result' = "UNKNOWN_ERROR"
  /\ UNCHANGED <<order_map, now>>

\* An exception on the way: nothing between it and the C API's catch clause
\* cleans up, so what was done so far stays done.
Throw ==
  /\ \/ "callback" \in Throws /\ InCallback /\ UNCHANGED book
     \/ /\ "level" \in Throws /\ CannotTrade
        /\ Taker.price \notin Levels(Taker.side)
        /\ UNCHANGED book
     \/ /\ "index" \in Throws /\ CannotTrade
        /\ book' = AddToPriceLevel(call.taker, Taker)
  /\ call' = IdleCall
  /\ result' = "UNKNOWN_ERROR"
  /\ UNCHANGED <<free_list, mem, order_map, now>>

-----------------------------------------------------------------------------
(***************************************************************************)
(* cancel_order, between calls or from a callback.  A callback must not    *)
(* cancel the maker of the trade it is told of: the loop goes on to use    *)
(* that order and its level, and the code does not guard against it.       *)
(***************************************************************************)
MayCancel(id) ==
  \/ Idle
  \/ CallbackCancels /\ InCallback /\ order_map[id] # call.maker

CancelOrder(id) ==
  /\ MayCancel(id)
  /\ order_map[id] # Null
  /\ LET ptr == order_map[id]
         o == mem[ptr]
     IN  /\ book' = RemoveFromPriceLevel(o.side, o.price, ptr, o.quantity)
         /\ mem' = [mem EXCEPT ![ptr] = NoOrder]
         /\ free_list' = Pool!PushBack(free_list, ptr)
  /\ order_map' = [order_map EXCEPT ![id] = Null]
  /\ result' = "SUCCESS"
  /\ UNCHANGED <<call, now>>

CancelNotFound(id) ==
  /\ MayCancel(id)
  /\ order_map[id] = Null
  /\ result' = "ORDER_NOT_FOUND"
  /\ UNCHANGED <<free_list, mem, book, order_map, call, now>>

-----------------------------------------------------------------------------
Engine == ExecuteTrade \/ SettlePartial \/ SettleFilled \/ Rest \/ Filled

Next ==
  \/ \E r \in Requests : AddRejected(r) \/ AddAccepted(r)
  \/ Engine
  \/ Throw
  \/ \E id \in OrderIDs : CancelOrder(id) \/ CancelNotFound(id)

Spec == Init /\ [][Next]_vars

\* A call that was begun runs: nothing can stop the thread inside the loop,
\* and callbacks return.
FairSpec == Spec /\ WF_vars(Engine)

-----------------------------------------------------------------------------
(***************************************************************************)
(* What a client can ask between calls and inside a callback.              *)
(***************************************************************************)
GetBest(side) ==
  IF Levels(side) = {} THEN 0 ELSE CHOOSE p \in Levels(side) : IsBest(side, p)

GetQuantityAtPrice(p, side) ==
  IF p \in Levels(side) THEN book[side][p].total_quantity ELSE 0

GetDepth(side) == Cardinality(Levels(side))

-----------------------------------------------------------------------------
(***************************************************************************)
(* Safety.                                                                 *)
(***************************************************************************)
Level == [orders : Seq(Slots), total_quantity : 0 .. QuantityModulus - 1]

Calls == [at : {"idle", "matching", "callback"},
          taker : Slots \cup {Null}, maker : Slots \cup {Null},
          level : Prices \cup {0}, quantity : 0 .. MAX_QUANTITY]

\* The type of the state.  A remaining quantity never wraps below zero, a
\* level is never keyed by a price outside the limits.
TypeOK ==
  /\ free_list \in Seq(Slots)
  /\ mem \in [Slots -> Order \cup {NoOrder}]
  /\ DOMAIN book = Sides
  /\ \A side \in Sides :
       /\ Levels(side) \subseteq Prices
       /\ \A p \in Levels(side) : book[side][p] \in Level
  /\ order_map \in [OrderIDs -> Slots \cup {Null}]
  /\ call \in Calls
  /\ now \in Nat
  /\ result \in ErrorCodes

\* The book is never crossed, not even while an order is being matched: every
\* bid is below every ask (matching loops 142-206, resting 71-73).
NotCrossed ==
  \A bid \in Levels("BUY"), ask \in Levels("SELL") : bid < ask

\* Where an order is linked: its level's list, once.
Linked(s, side, p) ==
  \E i \in 1 .. Len(book[side][p].orders) : book[side][p].orders[i] = s

\* Every order on a level is live and not filled, and is filed under its own
\* side and price: a slot that was given back is on no list (64-77, 158-168).
ListedAreLive ==
  \A side \in Sides : \A p \in Levels(side) :
    \A i \in 1 .. Len(book[side][p].orders) :
      LET s == book[side][p].orders[i]
      IN  /\ mem[s] # NoOrder
          /\ mem[s].side = side /\ mem[s].price = p
          /\ mem[s].quantity > 0

\* Every order on a level is the one order_map_ holds for its id, so it can
\* be cancelled (71-73).
ListedAreIndexed ==
  \A side \in Sides : \A p \in Levels(side) :
    \A i \in 1 .. Len(book[side][p].orders) :
      LET s == book[side][p].orders[i]
      IN  order_map[mem[s].id] = s

\* Every entry of order_map_ is an order of that id linked in its level, so
\* cancel_order never unlinks a stranger or touches a freed slot (100-103).
IndexedAreListed ==
  \A id \in OrderIDs : order_map[id] # Null =>
    LET s == order_map[id]
    IN  /\ mem[s] # NoOrder
        /\ mem[s].id = id
        /\ mem[s].price \in Levels(mem[s].side)
        /\ Linked(s, mem[s].side, mem[s].price)

\* The index and the lists describe the same set of live orders.
MapIndexesBook == ListedAreLive /\ ListedAreIndexed /\ IndexedAreListed

\* Within a level the orders stand in the order they were accepted, each of
\* them once: front() is the oldest (152, IntrusiveList.h:14-27).
TimePriority ==
  \A side \in Sides : \A p \in Levels(side) :
    LET list == book[side][p].orders
    IN  \A i, j \in 1 .. Len(list) :
          i < j => mem[list[i]].timestamp < mem[list[j]].timestamp

\* No level is empty, so front() of a level is never nullptr (149, 182).
NoEmptyLevel ==
  \A side \in Sides : \A p \in Levels(side) : book[side][p].orders # << >>

\* What the loop read before the callback is still true after it: best_ask
\* is a level of the book, maker is at its front, the quantities are those
\* trade_qty was computed from (149-171, 182-204).
MakerStaysInFront ==
  InCallback =>
    /\ Taker # NoOrder /\ Maker # NoOrder
    /\ Maker.side = Opposite(Taker.side)
    /\ IsBest(Maker.side, call.level)
    /\ Head(book[Maker.side][call.level].orders) = call.maker
    /\ call.quantity \in {Maker.quantity, Taker.quantity}
    /\ call.quantity <= Maker.quantity /\ call.quantity <= Taker.quantity

\* The slots order_map_ leads to.
Indexed == {order_map[id] : id \in OrderIDs} \ {Null}

\* Every slot that is not free holds a resting order or the running call's
\* taker: the engine leaks nothing and frees nothing that is in use (64-77).
NothingLeaks ==
  Live = Indexed \cup (IF Idle THEN {} ELSE {call.taker})

\* What a price level should show.
RestingAt(side, p) ==
  {s \in Indexed : mem[s].side = side /\ mem[s].price = p}

QuantityResting(side, p) ==
  SumFunction([s \in RestingAt(side, p) |-> mem[s].quantity])

\* What clients are shown is what rests: the quantity at every price is the
\* sum over the orders order_map_ holds, modulo 2^32, the depth counts their
\* prices and the best bid and ask are their best prices (113-140).
QueriesShowRestingOrders ==
  \A side \in Sides :
    LET used == {mem[s].price : s \in {t \in Indexed : mem[t].side = side}}
    IN  /\ \A p \in Prices :
             GetQuantityAtPrice(p, side)
               = QuantityResting(side, p) % QuantityModulus
        /\ GetDepth(side) = Cardinality(used)
        /\ IF used = {} THEN GetBest(side) = 0
           ELSE /\ GetBest(side) \in used
                /\ \A p \in used : AtLeastAsGood(side, GetBest(side), p)

\* What was reported to the callback for an order is exactly what it lost: a
\* fill is reported once, to both orders, and no order trades for more than
\* it asked (152-171).  Between a report and its settlement the two orders
\* of the trade are ahead of their own state by that trade.
FillsAddUp ==
  \A s \in Live :
    mem[s].original = mem[s].quantity + mem[s].reported
      - (IF InCallback /\ s \in {call.taker, call.maker}
         THEN call.quantity ELSE 0)

\* The order being matched is in no list and no index, so nothing a callback
\* does can reach it, and its id is still free when it comes to rest.
TakerIsPrivate ==
  ~Idle =>
    /\ call.taker # Null /\ Taker # NoOrder
    /\ order_map[Taker.id] = Null
    /\ \A side \in Sides : \A p \in Levels(side) :
         ~Linked(call.taker, side, p)

\* Every order was accepted before the clock's next tick, and the taker after
\* every other order.
TakerIsYoungest ==
  \A s \in Live :
    /\ mem[s].timestamp < now
    /\ ~Idle /\ s # call.taker => mem[s].timestamp < Taker.timestamp

\* What holds in every state of the engine whatever throws; it follows from
\* the inductive invariant of OrderBook_proofs.tla.
EngineInv ==
  /\ TypeOK
  /\ Pool!PoolPartition
  /\ ListedAreLive
  /\ IndexedAreListed
  /\ TimePriority
  /\ NoEmptyLevel
  /\ MakerStaysInFront
  /\ TakerIsPrivate
  /\ TakerIsYoungest
  /\ NotCrossed

-----------------------------------------------------------------------------
(***************************************************************************)
(* The engine implements price-time priority.                              *)
(***************************************************************************)
OrderIn(s) == [id |-> mem[s].id, price |-> mem[s].price,
               quantity |-> mem[s].quantity, side |-> mem[s].side,
               timestamp |-> mem[s].timestamp]

OrdersAt(side, p) ==
  {book[side][p].orders[i] : i \in 1 .. Len(book[side][p].orders)}

Listed ==
  UNION {UNION {OrdersAt(side, p) : p \in Levels(side)} : side \in Sides}

\* What the variables of PriceTimeBook.tla stand for: the orders on the lists,
\* those that are on none and not being matched, the one being matched, and
\* the trade the callback is told of.
Resting  == {OrderIn(s) : s \in Listed}
Lost     == {OrderIn(s) : s \in Live \ (Listed \cup {call.taker})}
Incoming == IF Idle THEN NoOrder ELSE OrderIn(call.taker)
ReportedFill ==
  IF InCallback
    THEN [maker_order_id |-> Maker.id, taker_order_id |-> Taker.id,
          price |-> Maker.price, quantity |-> call.quantity,
          side |-> Maker.side]
    ELSE NoOrder

PriceTime == INSTANCE PriceTimeBook WITH
  Capacity       <- POOL_CAPACITY,
  CallbackThrows <- "callback" \in Throws,
  LostIdsStay    <- FALSE,
  MayClose       <- FALSE,
  closed   <- FALSE,
  resting  <- Resting,
  lost     <- Lost,
  incoming <- Incoming,
  fill     <- ReportedFill

ASSUME NoFillAssumption == NoOrder \notin PriceTime!Orders \cup PriceTime!Fills

\* The lists, the index and the pool implement the book of PriceTimeBook.tla:
\* every trade is with the order that has price-time priority, at its price,
\* a remainder rests only if nothing crosses it, and the pool refuses an
\* order only when POOL_CAPACITY orders rest (OrderBook.cpp:15-206).
ImplementsPriceTime == PriceTime!Spec

\* The engine keeps the pool's contract: it gives back only slots it holds,
\* each once (MemoryPool.h:62-67).
KeepsPoolContract == Pool!Spec

\* The list at every side and price, empty where there is no level.
Keys == Sides \X Prices

Shown == [l \in Keys |->
            IF l[2] \in Levels(l[1]) THEN book[l[1]][l[2]].orders ELSE << >>]

Queues == INSTANCE FifoLists WITH
  Lists  <- Keys,
  Orders <- Slots,
  queue  <- Shown

\* The engine keeps the lists' contract: it links only orders that are on no
\* level, and unlinks an order only from the level it is on, one at a time,
\* since neither operation can check (IntrusiveList.h:15-58).
KeepsListContract == Queues!Spec

-----------------------------------------------------------------------------
(***************************************************************************)
(* Liveness.                                                               *)
(***************************************************************************)
\* Every add_limit_order returns: the loop cannot go round for ever, since
\* each turn empties the maker or the taker (143-172).
AddReturns == ~Idle ~> Idle

=============================================================================
