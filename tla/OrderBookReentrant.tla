------------------------- MODULE OrderBookReentrant -------------------------
(***************************************************************************)
(* The matching engine when its trade callback adds orders: execute_trade  *)
(* (core/src/OrderBook.cpp:208-222) calls the client with a reported trade *)
(* not yet settled, and an add_limit_order made there runs a whole         *)
(* matching loop of its own, with callbacks of its own, before the loop it *)
(* interrupted goes on with the pointers and the quantity it read before.  *)
(*                                                                         *)
(* call is the innermost call, outer the stack of those it interrupted.    *)
(* The steps of OrderBook.tla that do not begin or end a call are used as  *)
(* they are.                                                               *)
(***************************************************************************)
EXTENDS OrderBook

Stack == INSTANCE SequencesExt

CONSTANT MaxNesting  \* bound on the number of interrupted calls

ASSUME NestingAssumption == MaxNesting \in Nat

VARIABLE outer  \* the interrupted calls, the outermost first

nestedVars == <<free_list, mem, book, order_map, call, now, result, outer>>

\* The calls in progress, and those of them whose trade is not settled.
InProgress == Stack!Range(outer) \cup (IF Idle THEN {} ELSE {call})
Reported   == {c \in InProgress : c.at = "callback"}

NestedInit == Init /\ outer = << >>

-----------------------------------------------------------------------------
(***************************************************************************)
(* What a callback may add: the code checks none of this.  An order that   *)
(* could trade with the maker of a reported trade would trade its quantity *)
(* a second time, maybe freeing it; one with the id of an order being      *)
(* matched passes the test for duplicates, as that order is in no index.   *)
(***************************************************************************)
LeavesTradesAlone(r) ==
  /\ \A c \in InProgress : mem[c.taker].id # r.id
  /\ \A c \in Reported :
       ~(/\ r.side = Opposite(mem[c.maker].side)
         /\ Crosses(r.side, r.price, mem[c.maker].price))

NestedAddRejected(r) ==
  /\ InCallback
  /\ Refusal(r) # "SUCCESS"
  /\ result' = Refusal(r)
  /\ UNCHANGED <<free_list, mem, book, order_map, call, now, outer>>

NestedAddAccepted(r) ==
  /\ InCallback
  /\ Refusal(r) = "SUCCESS"
  /\ LeavesTradesAlone(r)
  /\ now < MaxTime /\ Len(outer) < MaxNesting
  /\ LET ptr == Pool!Back(free_list)
     IN  /\ mem' = [mem EXCEPT ![ptr] = NewOrder(r)]
         /\ call' = [IdleCall EXCEPT !.at = "matching", !.taker = ptr]
  /\ free_list' = Pool!PopBack(free_list)
  /\ outer' = Append(outer, call)
  /\ now' = now + 1
  /\ UNCHANGED <<book, order_map, result>>

\* Mutant: a call that ends is taken for the outermost one.
ReturnToIdle ==
  /\ call' = IdleCall
  /\ outer' = << >>

\* add_limit_order returns, to the callback it was called from if any.
Return ==
  IF outer = << >> THEN call' = IdleCall /\ outer' = outer
  ELSE call' = Stack!Last(outer) /\ outer' = Stack!Front(outer)

NestedRest ==
  /\ CannotTrade
  /\ book' = AddToPriceLevel(call.taker, Taker)
  /\ order_map' = [order_map EXCEPT ![Taker.id] = call.taker]
  /\ Return
  /\ result' = "SUCCESS"
  /\ UNCHANGED <<free_list, mem, now>>

NestedFilled ==
  /\ Matching
  /\ Taker.quantity = 0
  /\ mem' = [mem EXCEPT ![call.taker] = NoOrder]
  /\ free_list' = Pool!PushBack(free_list, call.taker)
  /\ Return
  /\ result' = "SUCCESS"
  /\ UNCHANGED <<book, order_map, now>>

\* There was no memory for a new price level: the exception ends this call
\* only, as it does not leave the C API (CAPI.cpp:100-106).
NestedThrow ==
  /\ "level" \in Throws
  /\ CannotTrade
  /\ Taker.price \notin Levels(Taker.side)
  /\ Return
  /\ result' = "UNKNOWN_ERROR"
  /\ UNCHANGED <<free_list, mem, book, order_map, now>>

NestedEngine ==
  \/ (ExecuteTrade \/ SettlePartial \/ SettleFilled) /\ UNCHANGED outer
  \/ NestedRest \/ NestedFilled \/ NestedThrow

\* The maker of no reported trade, the interrupted ones included.
NestedCancel(id) ==
  /\ \A c \in Reported : order_map[id] # c.maker
  /\ CancelOrder(id) \/ CancelNotFound(id)
  /\ UNCHANGED outer

-----------------------------------------------------------------------------
\* However calls nest, what every interrupted loop read before its callback
\* is still true when it goes on: the level is in the book with the maker in
\* front, and the reported quantity is the smaller of what the two orders
\* have left (149-171, 182-204).
SuspendedTradesStand ==
  \A c \in Reported :
    LET maker == mem[c.maker]
        taker == mem[c.taker]
    IN  /\ maker # NoOrder /\ taker # NoOrder
        /\ maker.side = Opposite(taker.side)
        /\ c.level \in Levels(maker.side)
        /\ Head(book[maker.side][c.level].orders) = c.maker
        /\ c.quantity = TradeQuantity(taker, maker)

\* The takers of nested calls are different orders with different ids, and
\* nothing in the book or the index leads to one of them.
TakersArePrivate ==
  \A c \in InProgress :
    /\ mem[c.taker] # NoOrder
    /\ order_map[mem[c.taker].id] = Null
    /\ \A side \in Sides : \A p \in Levels(side) : ~Linked(c.taker, side, p)
    /\ \A d \in InProgress \ {c} :
         c.taker # d.taker /\ mem[c.taker].id # mem[d.taker].id

\* What the engine's own invariants become when calls nest: in every state
\* the pool is partitioned, the index and the levels hold the same orders,
\* the book is not crossed, and although a nested order is younger than the
\* one it overtakes, each level still stands in the order of acceptance.
NestedEngineInv ==
  /\ mem \in [Slots -> Order \cup {NoOrder}]
  /\ call \in Calls /\ outer \in Seq(Calls)
  /\ Pool!PoolPartition
  /\ MapIndexesBook /\ NoEmptyLevel
  /\ NotCrossed /\ TimePriority
  /\ TakersArePrivate

\* What was reported for an order is what it lost and what the interrupted
\* calls are still to take from it, once for each of them (152-171).
NestedFillsAddUp ==
  \A s \in Live :
    mem[s].original = mem[s].quantity + mem[s].reported
      - SumFunction([c \in {d \in Reported : s \in {d.taker, d.maker}} |->
                       c.quantity])

=============================================================================
