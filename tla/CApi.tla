-------------------------------- MODULE CApi --------------------------------
(***************************************************************************)
(* The C API of a book (core/include/lob/CAPI.h, core/src/CAPI.cpp): a     *)
(* handle that may be null, prices as doubles, sides as ints, and no       *)
(* exception that leaves a call.  A request carries what a C client        *)
(* passes.  The trade callback may call the API with the same handle.      *)
(*                                                                         *)
(* A double is a number of 2^-GRID_BITS; computing one rounds to the       *)
(* nearest that has SIGNIFICAND bits, as doubles do with 53.  Prices are   *)
(* not negative here: lround is symmetrical, and add_limit_order refuses   *)
(* what is below MIN_PRICE.                                                *)
(***************************************************************************)
EXTENDS OrderBookReentrant

CONSTANTS
  PRICE_SCALE_FACTOR,  \* Common.h:85
  SIGNIFICAND,         \* bound: the bits of a double's significand
  GRID_BITS            \* bound: the smallest double is 2^-GRID_BITS

ASSUME CApiAssumption ==
  /\ PRICE_SCALE_FACTOR \in Nat \ {0}
  /\ SIGNIFICAND \in Nat \ {0} /\ GRID_BITS \in Nat
  /\ \A r \in Requests :
       r \in [id : OrderIDs, price : Nat, quantity : Nat, side : Int]

VARIABLES
  handle,    \* "null" or "book": what the client holds
  callback,  \* whether the book has a trade callback
  limit      \* history: the price the client passed for the order of a slot

capiVars == <<nestedVars, handle, callback, limit>>

-----------------------------------------------------------------------------
(***************************************************************************)
(* Doubles, and the conversions of Common.h.                               *)
(***************************************************************************)
TwoTo[k \in Nat] == IF k = 0 THEN 1 ELSE 2 * TwoTo[k - 1]

Grid         == TwoTo[GRID_BITS]
Significands == TwoTo[SIGNIFICAND]

\* How far apart neighbouring doubles are, depending on their size.
Units == {TwoTo[k] : k \in 0 .. GRID_BITS}

\* The double nearest to n / d, ties to even.
Double(n, d) ==
  LET unit  == Min({u \in Units : n * Grid < d * u * Significands})
      whole == (n * Grid) \div (d * unit)
      rest  == 2 * ((n * Grid) % (d * unit))
      up    == \/ rest > d * unit
               \/ rest = d * unit /\ whole % 2 = 1
  IN  unit * (IF up THEN whole + 1 ELSE whole)

\* Mutant: the product is cast to an integer without rounding it.
PriceTruncated(price) == Double(price * PRICE_SCALE_FACTOR, Grid) \div Grid

PriceToFixed(price) ==
  (2 * Double(price * PRICE_SCALE_FACTOR, Grid) + Grid) \div (2 * Grid)

PriceToDouble(price) == Double(price, PRICE_SCALE_FACTOR)

\* Any int that is not SIDE_BUY is taken for a sell.
ToSide(side) == IF side = 0 THEN "BUY" ELSE "SELL"

Converted(r) ==
  [r EXCEPT !.price = PriceToFixed(r.price), !.side = ToSide(r.side)]

-----------------------------------------------------------------------------
(***************************************************************************)
(* The life of a book.                                                     *)
(***************************************************************************)
CApiInit ==
  /\ NestedInit
  /\ handle = "null" /\ callback = FALSE
  /\ limit = [s \in Slots |-> 0]

\* create_order_book: nullptr when the book cannot be built.
CreateOrderBook ==
  /\ handle = "null"
  /\ handle' \in {"null", "book"}
  /\ UNCHANGED <<nestedVars, callback, limit>>

\* destroy_order_book: the orders go with their pool.  A client does not call
\* it from a callback of the book and forgets the handle, as nothing can tell
\* that it dangles.
DestroyOrderBook ==
  /\ handle = "book" /\ Idle
  /\ handle' = "null" /\ callback' = FALSE
  /\ limit' = [s \in Slots |-> 0]
  /\ mem' = [s \in Slots |-> NoOrder]
  /\ free_list' = [i \in Slots |-> i]
  /\ book' = [side \in Sides |-> [p \in {} |-> {}]]
  /\ order_map' = [id \in OrderIDs |-> Null]
  /\ now' = 0 /\ result' = "SUCCESS"
  /\ UNCHANGED <<call, outer>>

\* set_trade_callback, not from inside the callback it would replace.
SetTradeCallback ==
  /\ handle = "book" /\ Idle
  /\ callback' \in BOOLEAN
  /\ UNCHANGED <<nestedVars, handle, limit>>

-----------------------------------------------------------------------------
(***************************************************************************)
(* add_limit_order and cancel_order.                                       *)
(***************************************************************************)
NullHandle(error) ==
  /\ handle = "null"
  /\ result' = error
  /\ UNCHANGED <<free_list, mem, book, order_map, call, now, outer,
                 handle, callback, limit>>

AddToNull    == NullHandle("INVALID_ORDER_ID")
CancelInNull == NullHandle("ORDER_NOT_FOUND")

\* With no callback set nobody is called between report and settlement.
ClientRuns == handle = "book" /\ (InCallback => callback)

AddRefused(r) ==
  /\ ClientRuns
  /\ \/ AddRejected(Converted(r)) /\ UNCHANGED outer
     \/ NestedAddRejected(Converted(r))
  /\ UNCHANGED <<handle, callback, limit>>

AddBegins(r) ==
  /\ ClientRuns
  /\ \/ AddAccepted(Converted(r)) /\ UNCHANGED outer
     \/ NestedAddAccepted(Converted(r))
  /\ limit' = [limit EXCEPT ![Pool!Back(free_list)] = r.price]
  /\ UNCHANGED <<handle, callback>>

Cancel(id) ==
  /\ ClientRuns
  /\ NestedCancel(id)
  /\ UNCHANGED <<handle, callback, limit>>

Continue ==
  /\ NestedEngine
  /\ UNCHANGED <<handle, callback, limit>>

CApiNext ==
  \/ CreateOrderBook \/ DestroyOrderBook \/ SetTradeCallback
  \/ AddToNull \/ CancelInNull
  \/ \E r \in Requests : AddRefused(r) \/ AddBegins(r)
  \/ \E id \in OrderIDs : Cancel(id)
  \/ Continue

CApiSpec == CApiInit /\ [][CApiNext]_capiVars

-----------------------------------------------------------------------------
(***************************************************************************)
(* The queries: what a null handle answers, and a book.                    *)
(***************************************************************************)
BestPrice(side) ==
  IF handle = "null" THEN 0 ELSE PriceToDouble(GetBest(side))

QuantityAtPrice(price, side) ==
  IF handle = "null" THEN 0
  ELSE GetQuantityAtPrice(PriceToFixed(price), ToSide(side))

Depth(side) == IF handle = "null" THEN 0 ELSE GetDepth(side)

IsEmpty ==
  IF handle = "null" \/ \A side \in Sides : Levels(side) = {} THEN 1 ELSE 0

\* The price operator() passes to the callback of a trade.
CallbackPrice == PriceToDouble(Maker.price)

-----------------------------------------------------------------------------
\* A price the API shows can be passed back to it although it was rounded to
\* a double and is multiplied and rounded again: the quantity at the best
\* price is that of the orders resting there, and a best price is 0.0 exactly
\* when the side has no levels (CAPI.cpp:140-199).
ShownPricesCanBeAsked ==
  \A side \in Sides :
    LET shown == BestPrice(side)
        code  == IF side = "BUY" THEN 0 ELSE 1
    IN  /\ shown = 0 <=> Depth(side) = 0
        /\ QuantityAtPrice(shown, code)
             = QuantityResting(side, GetBest(side)) % QuantityModulus
        /\ IsEmpty = 1 => shown = 0

\* Nobody trades past the price they passed by more than three quarters of a
\* tick: half a tick for the rounding of their price to one, and the rest for
\* what the doubles lose.  The price the callback is told is so much higher
\* than the buyer's double at most, and lower than the seller's, both orders'
\* own, even when calls nest (CAPI.cpp:86-91).
LimitsHonoured ==
  InCallback =>
    LET Above(x, y) == 4 * PRICE_SCALE_FACTOR * (x - y) > 3 * Grid
        buyer  == IF Taker.side = "BUY" THEN call.taker ELSE call.maker
        seller == IF Taker.side = "BUY" THEN call.maker ELSE call.taker
    IN  ~Above(CallbackPrice, limit[buyer]) /\ ~Above(limit[seller], CallbackPrice)

=============================================================================
