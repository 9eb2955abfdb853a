------------------------ MODULE OrderBook_refinement ------------------------
(***************************************************************************)
(* Proofs that the matching engine keeps its promises: the book is indexed *)
(* and nothing leaks, every fill is accounted for, the pool and the lists  *)
(* are used within their contracts, and the whole implements price-time    *)
(* priority (PriceTimeBook.tla).                                           *)
(***************************************************************************)
EXTENDS OrderBook_proofs, FiniteSetTheorems, SequenceTheorems

-----------------------------------------------------------------------------
(***************************************************************************)
(* The orders on the levels, as a set.                                     *)
(***************************************************************************)
LEMMA ListedMeans ==
  /\ \A s : s \in Listed
              <=> \E sd \in Sides : \E x \in Levels(sd) : Linked(s, sd, x)
  /\ \A s : s \in Listed'
              <=> \E sd \in Sides : \E x \in DOMAIN book'[sd] :
                    LinkedNext(s, sd, x)
BY DEF Listed, OrdersAt, Linked, LinkedNext, Levels

LEMMA ListedFacts ==
  ASSUME StepInv, NEW s \in Listed
  PROVE  /\ s \in Slots /\ s \in Live /\ mem[s] # NoOrder
         /\ mem[s].side \in Sides /\ mem[s].price \in Levels(mem[s].side)
         /\ Linked(s, mem[s].side, mem[s].price)
         /\ mem[s].quantity > 0
         /\ ~Idle => s # call.taker
<1>1. TypeOK /\ ListedAreLive
  BY DEF StepInv, BookInv, CallInv
<1>2. PICK sd, x : sd \in Sides /\ x \in Levels(sd) /\ Linked(s, sd, x)
  BY ListedMeans
<1>3. s \in Slots
  BY <1>1, <1>2, ListFacts DEF Linked
<1>4. /\ mem[s] # NoOrder /\ mem[s].side = sd /\ mem[s].price = x
      /\ mem[s].quantity > 0
  BY <1>1, <1>2 DEF ListedAreLive, Linked
<1>5. ~Idle => s # call.taker
  BY <1>2, TakerFacts
<1> QED
  BY <1>2, <1>3, <1>4, <1>5, SlotFacts

LEMMA KeptListed ==
  ASSUME ListsKept
  PROVE  Listed' = Listed
<1>1. \A s : s \in Listed' <=> s \in Listed
  BY ListedMeans DEF ListsKept, Linked, LinkedNext
<1> QED
  BY <1>1

LEMMA UnlinkedListed ==
  ASSUME NEW ptr, Unlinked(ptr)
  PROVE  Listed' = Listed \ {ptr}
<1>1. ASSUME NEW s \in Listed'
      PROVE  s \in Listed /\ s # ptr
  <2>1. PICK sd, x : sd \in Sides /\ x \in DOMAIN book'[sd] /\ LinkedNext(s, sd, x)
    BY ListedMeans
  <2>2. x \in Levels(sd) /\ Linked(s, sd, x) /\ s # ptr
    BY <2>1 DEF Unlinked, Survivors, LinkedNext
  <2> QED
    BY <2>1, <2>2, ListedMeans
<1>2. ASSUME NEW s \in Listed, s # ptr
      PROVE  s \in Listed'
  <2>1. PICK sd, x : sd \in Sides /\ x \in Levels(sd) /\ Linked(s, sd, x)
    BY ListedMeans
  <2>2. x \in DOMAIN book'[sd] /\ LinkedNext(s, sd, x)
    BY <1>2, <2>1 DEF Unlinked, Others, Linked, LinkedNext
  <2> QED
    BY <2>1, <2>2, ListedMeans
<1> QED
  BY <1>1, <1>2

LEMMA LinkedListed ==
  ASSUME TypeOK, NEW ptr \in Slots, NEW side \in Sides, NEW p,
         LinkedLast(ptr, side, p)
  PROVE  Listed' = Listed \cup {ptr}
<1>1. PICK list \in Seq(Slots) :
        /\ book'[side][p].orders = Append(list, ptr)
        /\ p \in Levels(side) => list = book[side][p].orders
        /\ p \notin Levels(side) => list = << >>
  BY DEF LinkedLast
<1>2. /\ Len(list) \in Nat
      /\ Len(Append(list, ptr)) = Len(list) + 1
      /\ \A k \in 1 .. Len(list) : Append(list, ptr)[k] = list[k]
      /\ Append(list, ptr)[Len(list) + 1] = ptr
  BY <1>1
<1>3. \A s : LinkedNext(s, side, p)
               <=> s = ptr \/ (p \in Levels(side) /\ Linked(s, side, p))
  <2> TAKE s
  <2>1. LinkedNext(s, side, p)
          <=> s = ptr \/ \E k \in 1 .. Len(list) : list[k] = s
    BY <1>1, <1>2 DEF LinkedNext
  <2>2. (\E k \in 1 .. Len(list) : list[k] = s)
          <=> p \in Levels(side) /\ Linked(s, side, p)
    BY <1>1 DEF Linked
  <2> QED
    BY <2>1, <2>2
<1>4. \A sd, x : sd \in Sides /\ x \in DOMAIN book'[sd] /\ ~(sd = side /\ x = p)
        => x \in Levels(sd) /\ book'[sd][x] = book[sd][x]
  BY DEF LinkedLast, Levels
<1>5. \A sd, x : sd \in Sides /\ x \in Levels(sd) /\ ~(sd = side /\ x = p)
        => x \in DOMAIN book'[sd] /\ book'[sd][x] = book[sd][x]
  BY DEF LinkedLast, Levels
<1>6. p \in DOMAIN book'[side]
  BY DEF LinkedLast
<1>7. ASSUME NEW s \in Listed'
      PROVE  s \in Listed \cup {ptr}
  <2>1. PICK sd, x : sd \in Sides /\ x \in DOMAIN book'[sd] /\ LinkedNext(s, sd, x)
    BY ListedMeans
  <2>2. CASE sd = side /\ x = p
    BY <1>3, <2>1, <2>2, ListedMeans
  <2>3. CASE ~(sd = side /\ x = p)
    <3>1. x \in Levels(sd) /\ Linked(s, sd, x)
      BY <1>4, <2>1, <2>3 DEF Linked, LinkedNext
    <3> QED
      BY <2>1, <3>1, ListedMeans
  <2> QED
    BY <2>2, <2>3
<1>8. ASSUME NEW s \in Listed \cup {ptr}
      PROVE  s \in Listed'
  <2>1. CASE s = ptr
    BY <1>3, <1>6, <2>1, ListedMeans
  <2>2. CASE s \in Listed
    <3>1. PICK sd, x : sd \in Sides /\ x \in Levels(sd) /\ Linked(s, sd, x)
      BY <2>2, ListedMeans
    <3>2. CASE sd = side /\ x = p
      BY <1>3, <1>6, <3>1, <3>2, ListedMeans
    <3>3. CASE ~(sd = side /\ x = p)
      <4>1. x \in DOMAIN book'[sd] /\ LinkedNext(s, sd, x)
        BY <1>5, <3>1, <3>3 DEF Linked, LinkedNext
      <4> QED
        BY <3>1, <4>1, ListedMeans
    <3> QED
      BY <3>2, <3>3
  <2> QED
    BY <2>1, <2>2
<1> QED
  BY <1>7, <1>8

-----------------------------------------------------------------------------
(***************************************************************************)
(* What each action does to the orders and to the set of listed ones.      *)
(***************************************************************************)
\* An order is accepted into a slot of its own.
AcceptStep(r, ptr) ==
  /\ Idle /\ Refusal(r) = "SUCCESS" /\ now < MaxTime
  /\ ptr \in Slots /\ mem[ptr] = NoOrder /\ ptr \notin Listed
  /\ NewOrder(r) \in Order /\ NewOrder(r) # NoOrder
  /\ \A s \in Slots : mem'[s] = IF s = ptr THEN NewOrder(r) ELSE mem[s]
  /\ Live' = Live \cup {ptr}
  /\ Listed' = Listed
  /\ ~Idle' /\ Matching' /\ ~InCallback' /\ call'.taker = ptr
  /\ Pool!Allocate(ptr)
  /\ now' = now + 1
  /\ UNCHANGED <<book, order_map, result>>

LEMMA AcceptEffect ==
  ASSUME StepInv, NEW r \in Requests, AddAccepted(r)
  PROVE  AcceptStep(r, Pool!Back(free_list))
<1>1. /\ TypeOK /\ Idle /\ Pool!PoolPartition
      /\ Refusal(r) = "SUCCESS" /\ now < MaxTime
      /\ now' = now + 1
      /\ UNCHANGED <<book, order_map, result>>
  BY DEF StepInv, BookInv, CallInv, AddAccepted
<1>2. PICK ptr : ptr = Pool!Back(free_list)
  OBVIOUS
<1>3. /\ mem' = [mem EXCEPT ![ptr] = NewOrder(r)]
      /\ call' = [IdleCall EXCEPT !.at = "matching", !.taker = ptr]
      /\ free_list' = Pool!PopBack(free_list)
  BY <1>2 DEF AddAccepted
<1>4. ArgumentError(r) = "SUCCESS" /\ free_list # << >>
  BY <1>1 DEF Refusal
<1>5. free_list \in Seq(Slots) /\ Len(free_list) \in 1 .. Len(free_list)
  BY <1>1, <1>4 DEF TypeOK
<1>6. ptr \in Slots /\ ptr \notin Live
  BY <1>1, <1>2, <1>5
     DEF Pool!Back, Pool!PoolPartition, Pool!FreeIsNotLive
<1>7. mem[ptr] = NoOrder /\ ptr \notin Listed
  BY <1>6, SlotFacts, ListedFacts
<1>8. NewOrder(r) \in Order /\ NewOrder(r) # NoOrder
  BY <1>1, <1>4, AcceptedOrder, NoOrderAssumption DEF OrderIDs
<1>9. \A s \in Slots : mem'[s] = IF s = ptr THEN NewOrder(r) ELSE mem[s]
  BY <1>1, <1>3, <1>6 DEF TypeOK
<1>10. Live' = Live \cup {ptr}
  BY <1>6, <1>8, <1>9, SlotFacts DEF Live
<1>11. Listed' = Listed
  BY <1>1, SameBookKept, KeptListed
<1>12. Matching' /\ ~Idle' /\ ~InCallback' /\ call'.taker = ptr
  BY <1>3 DEF IdleCall, Matching, Idle, InCallback
<1>13. Pool!Allocate(ptr)
  BY <1>2, <1>3, <1>4, <1>10 DEF Pool!Allocate
<1> QED
  BY <1>1, <1>2, <1>6, <1>7, <1>8, <1>9, <1>10, <1>11, <1>12, <1>13
     DEF AcceptStep

\* A trade of the taker with the order in slot ptr is reported.
ReportStep(ptr, q) ==
  /\ Matching /\ ~Idle /\ ~InCallback /\ Taker.quantity > 0
  /\ ptr \in Listed /\ ptr # call.taker
  /\ mem[ptr].side = Opposite(Taker.side)
  /\ IsBest(mem[ptr].side, mem[ptr].price)
  /\ ptr = Head(book[mem[ptr].side][mem[ptr].price].orders)
  /\ Crosses(Taker.side, Taker.price, mem[ptr].price)
  /\ q \in {mem[ptr].quantity, Taker.quantity} /\ q \in Nat
  /\ q <= mem[ptr].quantity /\ q <= Taker.quantity
  /\ \A s \in Slots : mem'[s] = IF s \in {ptr, call.taker}
                                THEN [mem[s] EXCEPT !.reported = @ + q]
                                ELSE mem[s]
  /\ Live' = Live
  /\ Listed' = Listed
  /\ ~Idle' /\ InCallback'
  /\ call'.taker = call.taker /\ call'.maker = ptr /\ call'.quantity = q
  /\ UNCHANGED <<free_list, book, order_map, now, result>>

LEMMA ReportEffect ==
  ASSUME StepInv, ExecuteTrade
  PROVE  \E ptr \in Slots, q \in Nat : ReportStep(ptr, q)
<1>1. /\ TypeOK /\ Matching /\ ~Idle /\ ~InCallback /\ Taker.quantity > 0
      /\ UNCHANGED <<free_list, book, order_map, now, result>>
  BY DEF StepInv, BookInv, CallInv, ExecuteTrade, Matching, Idle, InCallback
<1>2. PICK side : side = Opposite(Taker.side)
  OBVIOUS
<1>3. PICK p \in Levels(side) :
        /\ IsBest(side, p)
        /\ Crosses(Taker.side, Taker.price, p)
        /\ LET ptr == Head(book[side][p].orders)
               q == TradeQuantity(Taker, mem[ptr])
           IN  /\ call' = [call EXCEPT !.at = "callback", !.maker = ptr,
                                       !.level = p, !.quantity = q]
               /\ mem' = [mem EXCEPT ![ptr].reported = @ + q,
                                     ![call.taker].reported = @ + q]
  BY <1>2, Zenon DEF ExecuteTrade
<1>4. PICK ptr : ptr = Head(book[side][p].orders)
  OBVIOUS
<1>5. PICK q, tk : q = TradeQuantity(Taker, mem[ptr]) /\ tk = call.taker
  OBVIOUS
<1>6. /\ call' = [call EXCEPT !.at = "callback", !.maker = ptr,
                              !.level = p, !.quantity = q]
      /\ mem' = [mem EXCEPT ![ptr].reported = @ + q,
                            ![tk].reported = @ + q]
  BY <1>3, <1>4, <1>5
<1>7. /\ tk \in Slots /\ mem[tk] # NoOrder /\ side \in Sides
      /\ Taker.quantity \in Nat
      /\ \A sd \in Sides : \A x \in Levels(sd) : ~Linked(tk, sd, x)
  BY <1>1, <1>2, <1>5, TakerFacts DEF Taker
<1>8. /\ ptr \in Slots /\ Linked(ptr, side, p)
      /\ mem[ptr] # NoOrder /\ mem[ptr].side = side /\ mem[ptr].price = p
      /\ mem[ptr].quantity \in Nat /\ mem[ptr].quantity > 0
  BY <1>4, <1>7, FrontFacts
<1>9. ptr # tk /\ ptr \in Listed
  BY <1>7, <1>8, ListedMeans
<1>10. /\ q \in {mem[ptr].quantity, Taker.quantity} /\ q \in Nat
       /\ q <= mem[ptr].quantity /\ q <= Taker.quantity
  BY <1>5, <1>7, <1>8 DEF TradeQuantity
<1>11. \A s \in Slots : mem'[s] = IF s \in {ptr, tk}
                                  THEN [mem[s] EXCEPT !.reported = @ + q]
                                  ELSE mem[s]
  BY <1>1, <1>6, <1>7, <1>8, <1>9 DEF TypeOK
<1>12. Live' = Live
  <2>1. \A s \in Slots : mem[s] = NoOrder => mem'[s] = NoOrder
    BY <1>7, <1>8, <1>11
  <2>2. ASSUME NEW s \in Slots, mem[s] # NoOrder
        PROVE  mem'[s] # NoOrder
    <3>1. mem[s] \in Order /\ mem[s].reported + q \in Nat
      BY <1>1, <1>10, <2>2, OrderFacts
    <3>2. [mem[s] EXCEPT !.reported = @ + q] \in Order
      BY <3>1 DEF Order
    <3> QED
      BY <1>11, <2>2, <3>2, NoOrderAssumption
  <2> QED
    BY <2>1, <2>2, SlotFacts DEF Live
<1>13. Listed' = Listed
  BY <1>1, SameBookKept, KeptListed
<1>14. /\ ~Idle' /\ InCallback'
       /\ call'.taker = tk /\ call'.maker = ptr /\ call'.quantity = q
  BY <1>1, <1>5, <1>6 DEF TypeOK, Calls, Idle, InCallback
<1>15. /\ mem[ptr].side = Opposite(Taker.side)
       /\ IsBest(mem[ptr].side, mem[ptr].price)
       /\ ptr = Head(book[mem[ptr].side][mem[ptr].price].orders)
       /\ Crosses(Taker.side, Taker.price, mem[ptr].price)
  BY <1>2, <1>3, <1>4, <1>8
<1>16. ReportStep(ptr, q)
  BY <1>1, <1>5, <1>9, <1>10, <1>11, <1>12, <1>13, <1>14, <1>15
     DEF ReportStep
<1> QED
  BY <1>8, <1>10, <1>16

\* Both orders lose what was reported, and a maker with nothing left goes.
\* The slots that stay, and what they lose.
SettleStep(tk, ptr, q) ==
  /\ InCallback /\ ~Idle
  /\ tk = call.taker /\ ptr = call.maker /\ q = call.quantity
  /\ q \in Nat /\ q <= mem[ptr].quantity /\ q <= mem[tk].quantity
  /\ tk \in Live /\ ptr \in Listed /\ ptr # tk
  /\ mem[ptr].quantity \in Nat /\ mem[tk].quantity \in Nat
  /\ \A s \in Slots \ {tk, ptr} : mem'[s] = mem[s]
  /\ mem'[tk] = [mem[tk] EXCEPT !.quantity = @ - q]
  /\ \/ /\ mem[ptr].quantity # q
        /\ mem'[ptr] = [mem[ptr] EXCEPT !.quantity = @ - q]
        /\ Live' = Live
        /\ Listed' = Listed
        /\ UNCHANGED <<free_list, order_map>>
        /\ ListsKept
     \/ /\ mem[ptr].quantity = q
        /\ mem'[ptr] = NoOrder
        /\ Live' = Live \ {ptr}
        /\ Unlinked(ptr)
        /\ Listed' = Listed \ {ptr}
        /\ order_map' = [order_map EXCEPT ![mem[ptr].id] = Null]
        /\ Pool!Deallocate(ptr)
  /\ ~Idle' /\ ~InCallback' /\ call'.taker = tk
  /\ UNCHANGED <<now, result>>

LEMMA SettleEffect ==
  ASSUME StepInv, SettlePartial \/ SettleFilled
  PROVE  SettleStep(call.taker, call.maker, call.quantity)
<1>1. /\ TypeOK /\ InCallback /\ ~Idle
      /\ call' = NextTurn
      /\ UNCHANGED <<now, result>>
  BY DEF StepInv, BookInv, CallInv, SettlePartial, SettleFilled, InCallback, Idle
<1>2. PICK ptr, tk, q : ptr = call.maker /\ tk = call.taker /\ q = call.quantity
  OBVIOUS
<1>3. /\ ptr \in Slots /\ tk \in Slots /\ ptr # tk
      /\ mem[ptr] # NoOrder /\ mem[tk] # NoOrder
      /\ q \in Nat /\ mem[ptr].quantity \in Nat /\ mem[tk].quantity \in Nat
      /\ q <= mem[ptr].quantity /\ q <= mem[tk].quantity
  BY <1>1, <1>2, CallbackFacts, TakerFacts DEF Maker, Taker
<1>4. PICK sd \in Sides : sd = Maker.side
  BY <1>1, CallbackFacts
<1>5. /\ call.level \in Levels(sd) /\ Linked(ptr, sd, call.level)
  BY <1>1, <1>2, <1>4, CallbackFacts
<1>6. ptr \in Listed /\ ptr \in Live /\ tk \in Live
  BY <1>3, <1>5, ListedMeans, SlotFacts
<1>7. ~Idle' /\ ~InCallback' /\ call'.taker = tk
  BY <1>1, <1>2, NextTurnFacts
<1>8. mem[tk] \in Order /\ mem[ptr] \in Order
  BY <1>1, <1>3, OrderFacts
<1>9. /\ [mem[tk] EXCEPT !.quantity = @ - q] # NoOrder
      /\ [mem[ptr] EXCEPT !.quantity = @ - q] # NoOrder
  <2>1. /\ mem[tk].quantity - q \in 0 .. MAX_QUANTITY
        /\ mem[ptr].quantity - q \in 0 .. MAX_QUANTITY
    BY <1>3, <1>8, LimitsAssumption DEF Order
  <2>2. /\ [mem[tk] EXCEPT !.quantity = @ - q] \in Order
        /\ [mem[ptr] EXCEPT !.quantity = @ - q] \in Order
    BY <1>8, <2>1 DEF Order
  <2> QED
    BY <2>2, NoOrderAssumption
<1>10. CASE SettlePartial
  <2>1. /\ mem' = [mem EXCEPT ![ptr].quantity = @ - q, ![tk].quantity = @ - q]
        /\ mem[ptr].quantity # q
        /\ book' = ReduceLevel(sd, call.level, q)
        /\ UNCHANGED <<free_list, order_map>>
    BY <1>2, <1>4, <1>10 DEF SettlePartial, Maker
  <2>2. /\ \A s \in Slots \ {tk, ptr} : mem'[s] = mem[s]
        /\ mem'[tk] = [mem[tk] EXCEPT !.quantity = @ - q]
        /\ mem'[ptr] = [mem[ptr] EXCEPT !.quantity = @ - q]
    BY <1>1, <1>3, <2>1 DEF TypeOK
  <2>3. Live' = Live
    BY <1>3, <1>9, <2>2, SlotFacts DEF Live
  <2>4. ListsKept /\ Listed' = Listed
    BY <1>1, <1>3, <1>5, <2>1, ReduceKeepsLists, KeptListed
  <2> QED
    BY <1>1, <1>2, <1>3, <1>6, <1>7, <2>1, <2>2, <2>3, <2>4 DEF SettleStep
<1>11. CASE SettleFilled
  <2>1. /\ mem' = [mem EXCEPT ![ptr] = NoOrder, ![tk].quantity = @ - q]
        /\ mem[ptr].quantity = q
        /\ book' = RemoveFromPriceLevel(sd, call.level, ptr, q)
        /\ order_map' = [order_map EXCEPT ![mem[ptr].id] = Null]
        /\ free_list' = Pool!PushBack(free_list, ptr)
    BY <1>2, <1>4, <1>11 DEF SettleFilled, Maker
  <2>2. /\ \A s \in Slots \ {tk, ptr} : mem'[s] = mem[s]
        /\ mem'[tk] = [mem[tk] EXCEPT !.quantity = @ - q]
        /\ mem'[ptr] = NoOrder
    BY <1>1, <1>3, <2>1 DEF TypeOK
  <2>3. Live' = Live \ {ptr}
    BY <1>3, <1>9, <2>2, SlotFacts DEF Live
  <2>6. Unlinked(ptr)
    BY <1>3, <1>5, <2>1, RemoveUnlinks
  <2>4. Listed' = Listed \ {ptr}
    BY <1>3, <2>6, UnlinkedListed
  <2>5. Pool!Deallocate(ptr)
    BY <1>6, <2>1, <2>3 DEF Pool!Deallocate
  <2> QED
    BY <1>1, <1>2, <1>3, <1>6, <1>7, <2>1, <2>2, <2>3, <2>4, <2>5, <2>6
       DEF SettleStep
<1> QED
  BY <1>10, <1>11

\* The taker is linked last at its level; order_map_ is told unless that
\* throws.
RestStep(tk) ==
  /\ CannotTrade /\ ~Idle /\ ~InCallback /\ Taker.quantity > 0
  /\ tk = call.taker /\ tk \in Live /\ tk \notin Listed
  /\ LinkedLast(tk, Taker.side, Taker.price)
  /\ Listed' = Listed \cup {tk}
  /\ Live' = Live
  /\ UNCHANGED <<free_list, mem, now>>

LEMMA RestEffect ==
  ASSUME StepInv, CannotTrade,
         book' = AddToPriceLevel(call.taker, Taker),
         UNCHANGED <<free_list, mem, now>>
  PROVE  RestStep(call.taker)
<1>1. /\ TypeOK /\ ~Idle /\ ~InCallback /\ Taker.quantity > 0
  BY DEF StepInv, BookInv, CallInv, CannotTrade, Matching, Idle, InCallback
<1>2. PICK tk, o : tk = call.taker /\ o = Taker
  OBVIOUS
<1>3. /\ tk \in Slots /\ mem[tk] # NoOrder
      /\ o.side \in Sides /\ o.price \in Prices /\ o.quantity \in Nat
      /\ \A sd \in Sides : \A x \in Levels(sd) : ~Linked(tk, sd, x)
  BY <1>1, <1>2, TakerFacts DEF Taker
<1>4. LinkedLast(tk, o.side, o.price)
  BY <1>1, <1>2, <1>3, AddLinksLast
<1>5. Listed' = Listed \cup {tk}
  BY <1>1, <1>3, <1>4, LinkedListed
<1>6. tk \in Live /\ tk \notin Listed /\ Live' = Live
  BY <1>3, SlotFacts, ListedMeans DEF Live
<1> QED
  BY <1>1, <1>2, <1>4, <1>5, <1>6 DEF RestStep

\* An order that no level has goes: the filled taker.
FilledStep(tk) ==
  /\ Matching /\ ~Idle /\ ~InCallback /\ Taker.quantity = 0
  /\ tk = call.taker /\ tk \in Live /\ tk \notin Listed
  /\ \A s \in Slots : mem'[s] = IF s = tk THEN NoOrder ELSE mem[s]
  /\ Live' = Live \ {tk}
  /\ Listed' = Listed
  /\ Pool!Deallocate(tk)
  /\ UNCHANGED <<book, order_map, now>>

LEMMA FilledEffect ==
  ASSUME StepInv, Matching, Taker.quantity = 0,
         mem' = [mem EXCEPT ![call.taker] = NoOrder],
         free_list' = Pool!PushBack(free_list, call.taker),
         UNCHANGED <<book, order_map, now>>
  PROVE  FilledStep(call.taker)
<1>1. /\ TypeOK /\ Matching /\ ~Idle /\ ~InCallback /\ Taker.quantity = 0
      /\ mem' = [mem EXCEPT ![call.taker] = NoOrder]
      /\ free_list' = Pool!PushBack(free_list, call.taker)
      /\ UNCHANGED <<book, order_map, now>>
  BY DEF StepInv, BookInv, Matching, Idle, InCallback
<1>2. PICK tk : tk = call.taker
  OBVIOUS
<1>3. /\ tk \in Slots /\ mem[tk] # NoOrder
      /\ \A sd \in Sides : \A x \in Levels(sd) : ~Linked(tk, sd, x)
  BY <1>1, <1>2, TakerFacts DEF Taker
<1>4. tk \in Live /\ tk \notin Listed
  BY <1>3, SlotFacts, ListedMeans
<1>5. \A s \in Slots : mem'[s] = IF s = tk THEN NoOrder ELSE mem[s]
  BY <1>1, <1>2, <1>3 DEF TypeOK
<1>6. Live' = Live \ {tk}
  BY <1>5, SlotFacts DEF Live
<1>7. Listed' = Listed
  BY <1>1, SameBookKept, KeptListed
<1>8. Pool!Deallocate(tk)
  BY <1>1, <1>2, <1>4, <1>6 DEF Pool!Deallocate
<1> QED
  BY <1>1, <1>2, <1>4, <1>5, <1>6, <1>7, <1>8 DEF FilledStep

\* A resting order is cancelled.
CancelStep(id, ptr) ==
  /\ MayCancel(id)
  /\ ptr = order_map[id] /\ ptr \in Listed /\ mem[ptr].id = id
  /\ ~Idle => ptr # call.taker
  /\ \A s \in Slots : mem'[s] = IF s = ptr THEN NoOrder ELSE mem[s]
  /\ Live' = Live \ {ptr}
  /\ Unlinked(ptr)
  /\ Listed' = Listed \ {ptr}
  /\ order_map' = [order_map EXCEPT ![id] = Null]
  /\ Pool!Deallocate(ptr)
  /\ result' = "SUCCESS"
  /\ UNCHANGED <<call, now>>

LEMMA CancelEffect ==
  ASSUME StepInv, NEW id \in OrderIDs, CancelOrder(id)
  PROVE  CancelStep(id, order_map[id])
<1>1. /\ TypeOK /\ IndexedAreListed
      /\ MayCancel(id) /\ order_map[id] # Null
      /\ order_map' = [order_map EXCEPT ![id] = Null]
      /\ result' = "SUCCESS"
      /\ UNCHANGED <<call, now>>
  BY DEF StepInv, BookInv, CallInv, CancelOrder
<1>2. PICK ptr : ptr = order_map[id]
  OBVIOUS
<1>3. PICK sd, x : sd = mem[ptr].side /\ x = mem[ptr].price
  OBVIOUS
<1>4. /\ ptr \in Slots /\ mem[ptr] # NoOrder /\ mem[ptr].id = id
      /\ x \in Levels(sd) /\ Linked(ptr, sd, x)
  BY <1>1, <1>2, <1>3 DEF IndexedAreListed, TypeOK
<1>5. sd \in Sides /\ mem[ptr].quantity \in Nat
  BY <1>1, <1>3, <1>4, OrderFacts
<1>6. /\ book' = RemoveFromPriceLevel(sd, x, ptr, mem[ptr].quantity)
      /\ mem' = [mem EXCEPT ![ptr] = NoOrder]
      /\ free_list' = Pool!PushBack(free_list, ptr)
  BY <1>2, <1>3 DEF CancelOrder
<1>7. ptr \in Listed /\ ptr \in Live
  BY <1>4, <1>5, ListedMeans, SlotFacts
<1>13. Unlinked(ptr)
  BY <1>4, <1>5, <1>6, RemoveUnlinks
<1>8. Listed' = Listed \ {ptr}
  BY <1>4, <1>13, UnlinkedListed
<1>9. \A s \in Slots : mem'[s] = IF s = ptr THEN NoOrder ELSE mem[s]
  BY <1>1, <1>4, <1>6 DEF TypeOK
<1>10. Live' = Live \ {ptr}
  BY <1>9, SlotFacts DEF Live
<1>11. Pool!Deallocate(ptr)
  BY <1>6, <1>7, <1>10 DEF Pool!Deallocate
<1>12. ~Idle => ptr # call.taker
  BY <1>7, ListedFacts
<1> QED
  BY <1>1, <1>2, <1>4, <1>7, <1>8, <1>9, <1>10, <1>11, <1>12, <1>13
     DEF CancelStep

\* A throw ends the call: from the callback, before a level is made, or after
\* the taker was linked.
ThrowStep(tk) ==
  /\ tk = call.taker /\ tk \in Live /\ tk \notin Listed /\ ~Idle
  /\ \/ "callback" \in Throws /\ InCallback /\ UNCHANGED book
     \/ "level" \in Throws /\ CannotTrade /\ UNCHANGED book
     \/ /\ "index" \in Throws
        /\ RestStep(tk)
  /\ UNCHANGED book => Listed' = Listed
  /\ Live' = Live
  /\ call' = IdleCall
  /\ result' = "UNKNOWN_ERROR"
  /\ UNCHANGED <<free_list, mem, order_map, now>>

LEMMA ThrowEffect ==
  ASSUME StepInv, Throw
  PROVE  ThrowStep(call.taker)
<1>1. /\ TypeOK /\ ~Idle
      /\ call' = IdleCall /\ result' = "UNKNOWN_ERROR"
      /\ UNCHANGED <<free_list, mem, order_map, now>>
  BY DEF StepInv, BookInv, CallInv, Throw, CannotTrade, Matching, InCallback, Idle
<1>2. call.taker \in Live /\ call.taker \notin Listed
  BY <1>1, SlotFacts, TakerFacts, ListedMeans DEF Taker
<1>3. UNCHANGED book => Listed' = Listed
  BY <1>1, SameBookKept, KeptListed
<1>4. Live' = Live
  BY <1>1 DEF Live
<1>5. \/ "callback" \in Throws /\ InCallback /\ UNCHANGED book
      \/ "level" \in Throws /\ CannotTrade /\ UNCHANGED book
      \/ "index" \in Throws /\ RestStep(call.taker)
  BY <1>1, RestEffect DEF Throw
<1> QED
  BY <1>1, <1>2, <1>3, <1>4, <1>5 DEF ThrowStep

-----------------------------------------------------------------------------
(***************************************************************************)
(* Orders keep what they were accepted with.                               *)
(***************************************************************************)
SameOrder(s) ==
  /\ mem'[s].id = mem[s].id /\ mem'[s].price = mem[s].price
  /\ mem'[s].side = mem[s].side /\ mem'[s].timestamp = mem[s].timestamp
  /\ mem'[s].original = mem[s].original

LEMMA LiveFacts ==
  ASSUME TypeOK, NEW s \in Live
  PROVE  /\ s \in Slots /\ mem[s] \in Order /\ mem[s] # NoOrder
         /\ mem[s].id \in OrderIDs /\ mem[s].price \in Prices
         /\ mem[s].quantity \in Nat /\ mem[s].side \in Sides
         /\ mem[s].timestamp \in Nat /\ mem[s].reported \in Nat
         /\ mem[s].original \in Nat /\ s # Null
BY SlotFacts, OrderFacts, LimitsAssumption DEF Quantities

LEMMA OrdersStay ==
  ASSUME StepInv, [Next]_vars,
         \A r \in Requests : ~AddAccepted(r)
  PROVE  Live' \subseteq Live /\ \A s \in Live' : SameOrder(s)
<1>1. TypeOK
  BY DEF StepInv, BookInv, CallInv
<1>2. CASE UNCHANGED mem
  BY <1>2 DEF Live, SameOrder
<1>3. CASE ExecuteTrade
  <2>1. PICK ptr \in Slots, q \in Nat : ReportStep(ptr, q)
    BY <1>3, ReportEffect
  <2>2. /\ Live' = Live
        /\ \A s \in Slots : mem'[s] = IF s \in {ptr, call.taker}
                                      THEN [mem[s] EXCEPT !.reported = @ + q]
                                      ELSE mem[s]
    BY <2>1 DEF ReportStep
  <2>3. \A s \in Live : s \in Slots /\ mem[s] \in Order
    BY <1>1, LiveFacts
  <2> QED
    BY <2>2, <2>3 DEF SameOrder, Order
<1>4. CASE SettlePartial \/ SettleFilled
  <2>1. PICK tk, ptr, q : SettleStep(tk, ptr, q)
    BY <1>4, SettleEffect
  <2>2. /\ Live' \subseteq Live
        /\ \A s \in Slots \ {tk, ptr} : mem'[s] = mem[s]
        /\ mem'[tk] = [mem[tk] EXCEPT !.quantity = @ - q]
        /\ ptr \in Live' => mem'[ptr] = [mem[ptr] EXCEPT !.quantity = @ - q]
    BY <2>1 DEF SettleStep
  <2>3. \A s \in Live : s \in Slots /\ mem[s] \in Order
    BY <1>1, LiveFacts
  <2> QED
    BY <2>2, <2>3 DEF SameOrder, Order
<1>5. CASE Filled
  <2>1. FilledStep(call.taker)
    BY <1>5, FilledEffect DEF Filled
  <2> QED
    BY <1>1, <2>1, LiveFacts DEF FilledStep, SameOrder
<1>6. ASSUME NEW id \in OrderIDs, CancelOrder(id)
      PROVE  Live' \subseteq Live /\ \A s \in Live' : SameOrder(s)
  <2>1. CancelStep(id, order_map[id])
    BY <1>6, CancelEffect
  <2> QED
    BY <1>1, <2>1, LiveFacts DEF CancelStep, SameOrder
<1>7. CASE Rest \/ Throw
  BY <1>2, <1>7 DEF Rest, Throw
<1>8. ASSUME NEW r \in Requests, AddRejected(r)
      PROVE  UNCHANGED mem
  BY <1>8 DEF AddRejected
<1>9. ASSUME NEW id \in OrderIDs, CancelNotFound(id)
      PROVE  UNCHANGED mem
  BY <1>9 DEF CancelNotFound
<1>10. CASE UNCHANGED vars
  BY <1>2, <1>10 DEF vars
<1> QED
  BY <1>2, <1>3, <1>4, <1>5, <1>6, <1>7, <1>8, <1>9, <1>10 DEF Next, Engine

\* No two orders were accepted at the same time.
TimesDiffer ==
  \A s, t \in Live : mem[s].timestamp = mem[t].timestamp => s = t

\* Between calls nothing is left of the last one.
IdleIsClean == Idle => call = IdleCall

\* What holds of the orders whatever throws.
OrdersInv == StepInv /\ TimesDiffer /\ IdleIsClean

LEMMA TimesStep ==
  ASSUME OrdersInv, [Next]_vars
  PROVE  TimesDiffer'
<1>1. StepInv /\ TypeOK /\ AcceptedBefore /\ TimesDiffer
  BY DEF OrdersInv, StepInv, BookInv, CallInv
<1>2. CASE \A r \in Requests : ~AddAccepted(r)
  BY <1>1, <1>2, OrdersStay DEF TimesDiffer, SameOrder
<1>3. ASSUME NEW r \in Requests, AddAccepted(r)
      PROVE  TimesDiffer'
  <2>1. PICK ptr : AcceptStep(r, ptr)
    BY <1>1, <1>3, AcceptEffect
  <2>2. /\ \A s \in Slots : mem'[s] = IF s = ptr THEN NewOrder(r) ELSE mem[s]
        /\ Live' = Live \cup {ptr} /\ ptr \in Slots
        /\ NewOrder(r).timestamp = now
    BY <2>1 DEF AcceptStep, NewOrder
  <2>3. \A s \in Live : s \in Slots /\ mem[s].timestamp < now
                        /\ mem[s].timestamp \in Nat
    BY <1>1, LiveFacts DEF AcceptedBefore
  <2>4. now \in Nat
    BY <1>1 DEF TypeOK
  <2> QED
    BY <1>1, <2>2, <2>3, <2>4 DEF TimesDiffer
<1> QED
  BY <1>2, <1>3

LEMMA CleanStep ==
  ASSUME OrdersInv, [Next]_vars
  PROVE  IdleIsClean'
<1>1. StepInv /\ IdleIsClean
  BY DEF OrdersInv
<1>2. ASSUME UNCHANGED call
      PROVE  IdleIsClean'
  BY <1>1, <1>2 DEF IdleIsClean, Idle
<1>3. ASSUME NEW r \in Requests, AddAccepted(r)
      PROVE  ~Idle'
  BY <1>1, <1>3, AcceptEffect DEF AcceptStep
<1>4. CASE ExecuteTrade
  <2>1. ~Idle'
    BY <1>1, <1>4, ReportEffect DEF ReportStep
  <2> QED
    BY <2>1 DEF IdleIsClean
<1>5. CASE SettlePartial \/ SettleFilled
  <2>1. ~Idle'
    BY <1>1, <1>5, SettleEffect DEF SettleStep
  <2> QED
    BY <2>1 DEF IdleIsClean
<1>6. CASE Rest \/ Filled \/ Throw
  <2>1. call' = IdleCall
    BY <1>6 DEF Rest, Filled, Throw
  <2> QED
    BY <2>1 DEF IdleIsClean, IdleCall
<1>7. UNCHANGED call \/ Engine \/ Throw \/ \E r \in Requests : AddAccepted(r)
  BY DEF Next, vars, AddRejected, CancelOrder, CancelNotFound
<1> QED
  BY <1>2, <1>3, <1>4, <1>5, <1>6, <1>7 DEF Engine, IdleIsClean

LEMMA OrdersInvariant == Spec => []OrdersInv
<1>1. Init => OrdersInv
  <2> SUFFICES ASSUME Init
               PROVE  OrdersInv
    OBVIOUS
  <2>1. Live = {}
    BY SlotFacts DEF Init, Live
  <2> QED
    BY <2>1, InitInv DEF OrdersInv, TimesDiffer, IdleIsClean, Init
<1>2. OrdersInv /\ [Next]_vars => OrdersInv'
  BY NextInv, TimesStep, CleanStep DEF OrdersInv
<1> QED
  BY <1>1, <1>2, PTL DEF Spec

-----------------------------------------------------------------------------
(***************************************************************************)
(* When callbacks add nothing, the running call's taker is younger than    *)
(* every other order, and the maker stays at the front of the best level.  *)
(***************************************************************************)
LEMMA YoungestStep ==
  ASSUME StepInv, TakerIsYoungest, [Next]_vars, StepInv'
  PROVE  TakerIsYoungest'
<1>1. /\ TypeOK /\ AcceptedBefore /\ AcceptedBefore'
  BY DEF StepInv, BookInv
<1>2. SUFFICES ASSUME ~Idle', NEW s \in Live', s # call'.taker
               PROVE  mem'[s].timestamp < Taker'.timestamp
  BY <1>1 DEF AcceptedBefore, TakerIsYoungest
<1>3. call'.taker \in Live'
  <2>1. TypeOK' /\ TakerIsPrivate'
    BY DEF StepInv, BookInv, CallInv
  <2>2. call'.taker \in Slots
    BY <1>2, <2>1, SlotFacts
       DEF TakerIsPrivate, TypeOK, Calls, Slots, Pool!Slots, Null, Pool!Null
  <2> QED
    BY <1>2, <2>1, <2>2, SlotFacts DEF TakerIsPrivate, Taker, Live
<1>4. ASSUME NEW r \in Requests, AddAccepted(r)
      PROVE  mem'[s].timestamp < Taker'.timestamp
  <2>1. PICK ptr : AcceptStep(r, ptr)
    BY <1>4, AcceptEffect
  <2>2. /\ \A t \in Slots : mem'[t] = IF t = ptr THEN NewOrder(r) ELSE mem[t]
        /\ Live' = Live \cup {ptr} /\ ptr \in Slots
        /\ NewOrder(r).timestamp = now /\ call'.taker = ptr
    BY <2>1 DEF AcceptStep, NewOrder
  <2>3. s \in Live /\ s \in Slots /\ mem[s].timestamp < now
    BY <1>1, <1>2, <2>2, LiveFacts DEF AcceptedBefore
  <2> QED
    BY <1>2, <2>2, <2>3 DEF Taker
<1>5. ASSUME ~Idle, call'.taker = call.taker, \A r \in Requests : ~AddAccepted(r)
      PROVE  mem'[s].timestamp < Taker'.timestamp
  <2>1. /\ Live' \subseteq Live
        /\ SameOrder(s) /\ SameOrder(call.taker)
    BY <1>2, <1>3, <1>5, OrdersStay
  <2>2. mem[s].timestamp < mem[call.taker].timestamp
    BY <1>2, <1>5, <2>1 DEF TakerIsYoungest, Taker
  <2> QED
    BY <1>5, <2>1, <2>2 DEF SameOrder, Taker
<1>6. ASSUME \A r \in Requests : ~AddAccepted(r)
      PROVE  ~Idle /\ call'.taker = call.taker
  <2>1. CASE UNCHANGED call
    BY <1>2, <2>1 DEF Idle
  <2>2. CASE ExecuteTrade
    BY <2>2, ReportEffect DEF ReportStep
  <2>3. CASE SettlePartial \/ SettleFilled
    BY <2>3, SettleEffect DEF SettleStep
  <2>4. CASE Rest \/ Filled \/ Throw
    <3>1. call' = IdleCall
      BY <2>4 DEF Rest, Filled, Throw
    <3> QED
      BY <1>2, <3>1 DEF Idle, IdleCall
  <2> QED
    BY <1>6, <2>1, <2>2, <2>3, <2>4
       DEF Next, Engine, vars, AddRejected, CancelOrder, CancelNotFound
<1> QED
  BY <1>4, <1>5, <1>6

LEMMA BestStep ==
  ASSUME StepInv, MakerStaysInFront, [Next]_vars, StepInv'
  PROVE  MakerStaysInFront'
<1>1. TypeOK /\ TypeOK' /\ MakerInFront'
  BY DEF StepInv, BookInv, CallInv
<1>2. SUFFICES ASSUME InCallback'
               PROVE  IsBest(Maker.side, call.level)'
  BY <1>1 DEF MakerInFront, MakerStaysInFront
<1>3. CASE ExecuteTrade
  <2>1. PICK side : side = Opposite(Taker.side)
    OBVIOUS
  <2>2. PICK p \in Levels(side) :
          /\ IsBest(side, p)
          /\ LET ptr == Head(book[side][p].orders)
                 q == TradeQuantity(Taker, mem[ptr])
             IN  call' = [call EXCEPT !.at = "callback", !.maker = ptr,
                                      !.level = p, !.quantity = q]
    BY <1>3, <2>1, Zenon DEF ExecuteTrade
  <2>3. call'.level = p /\ call'.taker = call.taker
    BY <1>1, <2>2 DEF TypeOK, Calls
  <2>4. Maker'.side = side
    <3>1. PICK ptr \in Slots, q \in Nat : ReportStep(ptr, q)
      BY <1>3, ReportEffect
    <3>2. /\ call'.maker = ptr /\ mem[ptr].side = side
          /\ mem'[ptr] = [mem[ptr] EXCEPT !.reported = @ + q]
          /\ ptr \in Listed
      BY <2>1, <3>1 DEF ReportStep
    <3>3. mem[ptr] \in Order
      BY <1>1, <3>2, ListedFacts, OrderFacts
    <3> QED
      BY <3>2, <3>3 DEF Maker, Order
  <2>5. UNCHANGED book
    BY <1>3 DEF ExecuteTrade
  <2> QED
    BY <2>2, <2>3, <2>4, <2>5 DEF IsBest, Levels
<1>4. ASSUME NEW id \in OrderIDs, CancelOrder(id)
      PROVE  IsBest(Maker.side, call.level)'
  <2>1. PICK ptr : ptr = order_map[id] /\ CancelStep(id, ptr)
    BY <1>4, CancelEffect
  <2>2. /\ call' = call /\ Unlinked(ptr)
        /\ \A s \in Slots : mem'[s] = IF s = ptr THEN NoOrder ELSE mem[s]
    BY <2>1 DEF CancelStep
  <2>3. InCallback
    BY <1>2, <2>2 DEF InCallback
  <2>4. PICK mk, sd, p : mk = call.maker /\ sd = Maker.side /\ p = call.level
    OBVIOUS
  <2>5. /\ mk \in Slots /\ sd \in Sides
        /\ \A q \in Levels(sd) : AtLeastAsGood(sd, p, q)
    BY <2>3, <2>4, CallbackFacts DEF MakerStaysInFront, IsBest
  <2>6. Maker' # NoOrder /\ Maker'.side = sd /\ call'.level = p
    BY <1>1, <1>2, <2>2, <2>4, <2>5 DEF MakerInFront, Maker
  <2>7. p \in DOMAIN book'[sd]
    BY <1>1, <1>2, <2>6 DEF MakerInFront, Levels
  <2>8. DOMAIN book'[sd] \subseteq Levels(sd)
    BY <2>2, <2>5 DEF Unlinked, Survivors
  <2> QED
    BY <2>5, <2>6, <2>7, <2>8 DEF IsBest, Levels
<1>5. CASE UNCHANGED <<mem, book, call>>
  BY <1>2, <1>5
     DEF MakerStaysInFront, IsBest, Levels, Maker, InCallback
<1>6. ASSUME NEW r \in Requests, AddAccepted(r)
      PROVE  FALSE
  BY <1>2, <1>6, AcceptEffect DEF AcceptStep
<1>7. CASE SettlePartial \/ SettleFilled
  BY <1>2, <1>7, SettleEffect DEF SettleStep
<1>8. CASE Rest \/ Filled \/ Throw
  <2>1. call' = IdleCall
    BY <1>8 DEF Rest, Filled, Throw
  <2> QED
    BY <1>2, <2>1 DEF InCallback, IdleCall
<1> QED
  BY <1>3, <1>4, <1>5, <1>6, <1>7, <1>8
     DEF Next, Engine, vars, AddRejected, CancelNotFound

LEMMA StrongInvariant == Spec => [](MakerStaysInFront /\ TakerIsYoungest)
<1>1. Init => MakerStaysInFront /\ TakerIsYoungest
  BY InitInv DEF Init, IdleCall, InCallback, Idle, MakerStaysInFront,
     TakerIsYoungest, StepInv, BookInv, AcceptedBefore
<1>2. ASSUME StepInv, MakerStaysInFront /\ TakerIsYoungest, [Next]_vars
      PROVE  (MakerStaysInFront /\ TakerIsYoungest)'
  BY <1>2, NextInv, YoungestStep, BestStep
<1>3. StepInv /\ (MakerStaysInFront /\ TakerIsYoungest) /\ [Next]_vars
        => (MakerStaysInFront /\ TakerIsYoungest)'
  BY <1>2
<1> QED
  BY <1>1, <1>3, StepInvariance, PTL DEF Spec

\* In every state of the engine, whatever throws and whatever callbacks
\* cancel (OrderBook.cpp:15-258): the lists hold live orders of their own
\* level in time order, order_map_ leads only to them, the pool's free list
\* is disjoint from what is in use, the running call's taker and maker are
\* what its loop takes them for, and the book is not crossed.
THEOREM EngineInvariance == Spec => []EngineInv
<1>1. StepInv /\ (MakerStaysInFront /\ TakerIsYoungest) => EngineInv
  BY DEF StepInv, BookInv, CallInv, EngineInv
<1> QED
  BY <1>1, StepInvariance, StrongInvariant, PTL

\* After a callback the maker and the level the loop read before it are still
\* the front of the best level (OrderBook.cpp:149-171, 182-204).
THEOREM MakerSurvivesCallback == Spec => []MakerStaysInFront
BY StrongInvariant, PTL

-----------------------------------------------------------------------------
(***************************************************************************)
(* The index and the lists describe the same orders, unless an exception   *)
(* comes between linking an order and indexing it.                         *)
(***************************************************************************)
LEMMA IndexedMeans ==
  /\ ListedAreIndexed <=> \A s \in Listed : order_map[mem[s].id] = s
  /\ ListedAreIndexed' <=> \A s \in Listed' : order_map'[mem'[s].id] = s
<1>1. ListedAreIndexed
        <=> \A s : (\E sd \in Sides : \E x \in Levels(sd) : Linked(s, sd, x))
                     => order_map[mem[s].id] = s
  BY DEF ListedAreIndexed, Linked
<1>2. ListedAreIndexed'
        <=> \A s : (\E sd \in Sides : \E x \in DOMAIN book'[sd] :
                      LinkedNext(s, sd, x))
                     => order_map'[mem'[s].id] = s
  BY DEF ListedAreIndexed, LinkedNext, Levels
<1> QED
  BY <1>1, <1>2, ListedMeans

LEMMA IndexedStep ==
  ASSUME "index" \notin Throws, StepInv, ListedAreIndexed, [Next]_vars
  PROVE  ListedAreIndexed'
<1>1. /\ TypeOK
      /\ \A s \in Listed : order_map[mem[s].id] = s
      /\ \A s \in Listed : s \in Slots /\ s \in Live /\ mem[s].id \in OrderIDs
      /\ order_map \in [OrderIDs -> Slots \cup {Null}]
      /\ Null \notin Slots
  BY IndexedMeans, ListedFacts, LiveFacts, SlotFacts DEF StepInv, BookInv, CallInv, TypeOK
<1> SUFFICES ASSUME NEW s \in Listed'
             PROVE  order_map'[mem'[s].id] = s
  BY IndexedMeans
<1>2. ASSUME Listed' = Listed, UNCHANGED order_map,
             s \in Live => SameOrder(s)
      PROVE  order_map'[mem'[s].id] = s
  BY <1>1, <1>2 DEF SameOrder
<1>3. ASSUME NEW ptr \in Listed, Listed' = Listed \ {ptr},
             order_map' = [order_map EXCEPT ![mem[ptr].id] = Null],
             SameOrder(s)
      PROVE  order_map'[mem'[s].id] = s
  <2>1. s \in Listed /\ s # ptr /\ mem'[s].id = mem[s].id
    BY <1>3 DEF SameOrder
  <2>2. mem[s].id # mem[ptr].id
    BY <1>1, <2>1
  <2> QED
    BY <1>1, <1>3, <2>1, <2>2
<1>4. ASSUME \A r \in Requests : ~AddAccepted(r), s \in Live'
      PROVE  SameOrder(s)
  BY <1>4, OrdersStay
<1>5. ASSUME NEW r \in Requests, AddAccepted(r)
      PROVE  order_map'[mem'[s].id] = s
  <2>1. PICK ptr : AcceptStep(r, ptr)
    BY <1>5, AcceptEffect
  <2>2. mem'[s] = mem[s] /\ Listed' = Listed /\ UNCHANGED order_map
    BY <1>1, <2>1, SlotFacts DEF AcceptStep
  <2> QED
    BY <1>2, <2>2 DEF SameOrder
<1>6. CASE ExecuteTrade
  <2>1. Listed' = Listed /\ Live' = Live /\ UNCHANGED order_map
    BY <1>6, ReportEffect DEF ReportStep
  <2>2. \A r \in Requests : ~AddAccepted(r)
    BY <1>6 DEF ExecuteTrade, AddAccepted, Matching, Idle
  <2> QED
    BY <1>1, <1>2, <1>4, <2>1, <2>2
<1>7. CASE SettlePartial \/ SettleFilled
  <2>1. PICK tk, ptr, q : SettleStep(tk, ptr, q)
    BY <1>7, SettleEffect
  <2>2. \A r \in Requests : ~AddAccepted(r)
    BY <2>1 DEF SettleStep, AddAccepted
  <2>3. /\ ptr \in Listed
        /\ \/ Live' = Live /\ Listed' = Listed /\ UNCHANGED order_map
           \/ /\ Live' = Live \ {ptr}
              /\ Listed' = Listed \ {ptr}
              /\ order_map' = [order_map EXCEPT ![mem[ptr].id] = Null]
    BY <2>1 DEF SettleStep
  <2> QED
    BY <1>1, <1>2, <1>3, <1>4, <2>2, <2>3
<1>8. CASE Rest
  <2>1. RestStep(call.taker)
    BY <1>8, RestEffect DEF Rest
  <2>2. PICK tk : tk = call.taker
    OBVIOUS
  <2>3. /\ Listed' = Listed \cup {tk} /\ UNCHANGED mem /\ ~Idle
        /\ tk \in Live
        /\ order_map' = [order_map EXCEPT ![mem[tk].id] = tk]
    BY <1>8, <2>1, <2>2 DEF RestStep, Rest, Taker
  <2>4. mem[tk].id \in OrderIDs /\ order_map[mem[tk].id] = Null
    BY <1>1, <2>2, <2>3, TakerFacts, LiveFacts DEF Taker
  <2> QED
    BY <1>1, <2>3, <2>4
<1>9. CASE Filled
  <2>1. FilledStep(call.taker)
    BY <1>9, FilledEffect DEF Filled
  <2>2. Listed' = Listed /\ UNCHANGED order_map /\ mem'[s] = mem[s]
    BY <1>1, <2>1 DEF FilledStep
  <2> QED
    BY <1>2, <2>2 DEF SameOrder
<1>10. CASE Throw
  <2>1. ThrowStep(call.taker)
    BY <1>10, ThrowEffect
  <2>2. Listed' = Listed /\ UNCHANGED <<order_map, mem>>
    BY <2>1 DEF ThrowStep
  <2> QED
    BY <1>2, <2>2 DEF SameOrder
<1>11. ASSUME NEW id \in OrderIDs, CancelOrder(id)
       PROVE  order_map'[mem'[s].id] = s
  <2>1. PICK ptr : CancelStep(id, ptr)
    BY <1>11, CancelEffect
  <2>2. /\ ptr \in Listed /\ mem[ptr].id = id /\ Listed' = Listed \ {ptr}
        /\ order_map' = [order_map EXCEPT ![mem[ptr].id] = Null]
        /\ mem'[s] = mem[s]
    BY <1>1, <2>1 DEF CancelStep
  <2> QED
    BY <1>3, <2>2 DEF SameOrder
<1>12. ASSUME UNCHANGED <<mem, book, order_map>>
       PROVE  order_map'[mem'[s].id] = s
  BY <1>1, <1>2, <1>12, SameBookKept, KeptListed DEF SameOrder
<1> QED
  BY <1>5, <1>6, <1>7, <1>8, <1>9, <1>10, <1>11, <1>12
     DEF Next, Engine, vars, AddRejected, CancelNotFound

LEMMA ListedStayIndexed ==
  "index" \notin Throws => (Spec => []ListedAreIndexed)
<1> SUFFICES ASSUME "index" \notin Throws
             PROVE  Spec => []ListedAreIndexed
  OBVIOUS
<1>1. Init => ListedAreIndexed
  BY SideFacts DEF Init, ListedAreIndexed, Levels
<1>2. StepInv /\ ListedAreIndexed /\ [Next]_vars => ListedAreIndexed'
  BY IndexedStep
<1> QED
  BY <1>1, <1>2, StepInvariance, PTL DEF Spec

\* The index and the lists describe the same set of live orders, if making an
\* entry of order_map_ does not throw (OrderBook.cpp:64-111).
THEOREM BookIsIndexed ==
  "index" \notin Throws => (Spec => []MapIndexesBook)
<1>1. StepInv /\ ListedAreIndexed => MapIndexesBook
  BY DEF StepInv, BookInv, CallInv, MapIndexesBook
<1> QED
  BY <1>1, StepInvariance, ListedStayIndexed, PTL

-----------------------------------------------------------------------------
(***************************************************************************)
(* Without exceptions, every slot in use rests in the book or is matched.  *)
(***************************************************************************)
NoneLost == Live = Listed \cup (IF Idle THEN {} ELSE {call.taker})

LEMMA NoneLostStep ==
  ASSUME Throws = {}, StepInv, NoneLost, [Next]_vars
  PROVE  NoneLost'
<1>1. TypeOK
  BY DEF StepInv, BookInv, CallInv
<1>2. ASSUME NEW r \in Requests, AddAccepted(r)
      PROVE  NoneLost'
  BY <1>2, AcceptEffect DEF AcceptStep, NoneLost
<1>3. CASE ExecuteTrade
  BY <1>3, ReportEffect DEF ReportStep, NoneLost
<1>4. CASE SettlePartial \/ SettleFilled
  <2>1. PICK tk, ptr, q : SettleStep(tk, ptr, q)
    BY <1>4, SettleEffect
  <2>2. ~Idle /\ ~Idle' /\ tk = call.taker /\ call'.taker = tk /\ ptr # tk
        /\ \/ Live' = Live /\ Listed' = Listed
           \/ Live' = Live \ {ptr} /\ Listed' = Listed \ {ptr}
    BY <2>1 DEF SettleStep
  <2> QED
    BY <2>2 DEF NoneLost
<1>5. CASE Rest
  <2>1. RestStep(call.taker)
    BY <1>5, RestEffect DEF Rest
  <2>2. Idle'
    BY <1>1, <1>5, IdleFacts DEF Rest
  <2> QED
    BY <2>1, <2>2 DEF RestStep, NoneLost
<1>6. CASE Filled
  <2>1. FilledStep(call.taker)
    BY <1>6, FilledEffect DEF Filled
  <2>2. Idle'
    BY <1>1, <1>6, IdleFacts DEF Filled
  <2> QED
    BY <2>1, <2>2 DEF FilledStep, NoneLost
<1>7. ~Throw
  BY DEF Throw
<1>8. ASSUME NEW id \in OrderIDs, CancelOrder(id)
      PROVE  NoneLost'
  <2>1. PICK ptr : CancelStep(id, ptr)
    BY <1>8, CancelEffect
  <2>2. /\ Live' = Live \ {ptr} /\ Listed' = Listed \ {ptr}
        /\ UNCHANGED call
        /\ ~Idle => ptr # call.taker
    BY <2>1 DEF CancelStep
  <2> QED
    BY <2>2 DEF NoneLost, Idle
<1>9. ASSUME UNCHANGED <<mem, book, call>>
      PROVE  NoneLost'
  <2>1. Listed' = Listed /\ Live' = Live
    BY <1>1, <1>9, SameBookKept, KeptListed DEF Live
  <2> QED
    BY <1>9, <2>1 DEF NoneLost, Idle
<1> QED
  BY <1>2, <1>3, <1>4, <1>5, <1>6, <1>7, <1>8, <1>9
     DEF Next, Engine, vars, AddRejected, CancelNotFound

\* The slots the index leads to are those the lists hold.
LEMMA IndexedIsListed ==
  ASSUME StepInv, ListedAreIndexed
  PROVE  Indexed = Listed
<1>1. TypeOK /\ IndexedAreListed
  BY DEF StepInv, BookInv, CallInv
<1>2. ASSUME NEW s \in Listed
      PROVE  s \in Indexed
  BY <1>1, <1>2, IndexedMeans, ListedFacts, LiveFacts DEF Indexed
<1>3. ASSUME NEW s \in Indexed
      PROVE  s \in Listed
  <2>1. PICK id \in OrderIDs : s = order_map[id] /\ s # Null
    BY DEF Indexed
  <2>2. /\ s \in Slots /\ mem[s] # NoOrder
        /\ mem[s].price \in Levels(mem[s].side)
        /\ Linked(s, mem[s].side, mem[s].price)
    BY <1>1, <2>1 DEF IndexedAreListed, TypeOK
  <2> QED
    BY <1>1, <2>2, OrderFacts, ListedMeans
<1> QED
  BY <1>2, <1>3

\* While nothing throws the pool's slots are accounted for: each in use rests
\* in the book or is the order being matched (OrderBook.cpp:64-77).
THEOREM NeverLeaks ==
  Throws = {} => (Spec => []NothingLeaks)
<1> SUFFICES ASSUME Throws = {}
             PROVE  Spec => []NothingLeaks
  OBVIOUS
<1>1. Init => NoneLost
  <2> SUFFICES ASSUME Init
               PROVE  NoneLost
    OBVIOUS
  <2>1. Live = {}
    BY SlotFacts DEF Init, Live
  <2>2. Listed = {}
    BY ListedMeans DEF Init, Levels
  <2> QED
    BY <2>1, <2>2 DEF NoneLost, Init, Idle, IdleCall
<1>2. StepInv /\ NoneLost /\ [Next]_vars => NoneLost'
  BY NoneLostStep
<1>3. StepInv /\ ListedAreIndexed /\ NoneLost => NothingLeaks
  BY IndexedIsListed DEF NoneLost, NothingLeaks
<1>4. "index" \notin Throws
  OBVIOUS
<1>5. Spec => []ListedAreIndexed
  BY <1>4, ListedStayIndexed
<1> QED
  BY <1>1, <1>2, <1>3, <1>5, StepInvariance, PTL DEF Spec

-----------------------------------------------------------------------------
(***************************************************************************)
(* Fills.                                                                  *)
(***************************************************************************)
\* What was reported for an order and is not settled yet.
Pending(s) ==
  IF InCallback /\ s \in {call.taker, call.maker} THEN call.quantity ELSE 0

Accounted(s) == mem[s].original = mem[s].quantity + mem[s].reported - Pending(s)

LEMMA FillsStep ==
  ASSUME "callback" \notin Throws, StepInv, FillsAddUp, [Next]_vars
  PROVE  FillsAddUp'
<1>1. /\ TypeOK
      /\ \A s \in Live : Accounted(s)
      /\ \A s \in Live : /\ s \in Slots /\ mem[s] \in Order
                         /\ mem[s].quantity \in Nat /\ mem[s].reported \in Nat
                         /\ mem[s].original \in Nat
  BY LiveFacts DEF StepInv, BookInv, CallInv, FillsAddUp, Accounted, Pending
<1> SUFFICES ASSUME NEW s \in Live'
             PROVE  Accounted(s)'
  BY DEF FillsAddUp, Accounted, Pending
<1>2. ASSUME s \in Live, mem'[s] = mem[s], Pending(s) = 0, Pending(s)' = 0
      PROVE  Accounted(s)'
  BY <1>1, <1>2 DEF Accounted
<1>3. ASSUME NEW r \in Requests, AddAccepted(r)
      PROVE  Accounted(s)'
  <2>1. PICK ptr : AcceptStep(r, ptr)
    BY <1>3, AcceptEffect
  <2>2. /\ Live' = Live \cup {ptr}
        /\ mem'[s] = IF s = ptr THEN NewOrder(r) ELSE mem[s]
        /\ NewOrder(r) \in Order
        /\ ~InCallback' /\ ~InCallback
    BY <1>1, <2>1, SlotFacts DEF AcceptStep, Idle, InCallback
  <2>3. Pending(s) = 0 /\ Pending(s)' = 0
    BY <2>2 DEF Pending
  <2>4. CASE s = ptr
    <3>1. /\ mem'[s].quantity = r.quantity /\ mem'[s].original = r.quantity
          /\ mem'[s].reported = 0
      BY <2>2, <2>4 DEF NewOrder
    <3>2. r.quantity \in Nat
      BY RequestsAssumption
    <3> QED
      BY <2>3, <3>1, <3>2 DEF Accounted
  <2>5. CASE s # ptr
    BY <1>2, <2>2, <2>3, <2>5
  <2> QED
    BY <2>4, <2>5
<1>4. CASE ExecuteTrade
  <2>1. PICK ptr \in Slots, q \in Nat : ReportStep(ptr, q)
    BY <1>4, ReportEffect
  <2>2. /\ s \in Live /\ ~InCallback /\ InCallback'
        /\ call'.taker = call.taker /\ call'.maker = ptr /\ call'.quantity = q
        /\ mem'[s] = IF s \in {ptr, call.taker}
                     THEN [mem[s] EXCEPT !.reported = @ + q] ELSE mem[s]
    BY <1>1, <2>1 DEF ReportStep
  <2>3. /\ Pending(s) = 0
        /\ Pending(s)' = IF s \in {ptr, call.taker} THEN q ELSE 0
    BY <2>2 DEF Pending
  <2>4. CASE s \in {ptr, call.taker}
    <3>1. /\ mem'[s].reported = mem[s].reported + q
          /\ mem'[s].quantity = mem[s].quantity
          /\ mem'[s].original = mem[s].original
      BY <1>1, <2>2, <2>4 DEF Order
    <3> QED
      BY <1>1, <2>2, <2>3, <2>4, <3>1 DEF Accounted
  <2>5. CASE s \notin {ptr, call.taker}
    BY <1>2, <2>2, <2>3, <2>5
  <2> QED
    BY <2>4, <2>5
<1>5. CASE SettlePartial \/ SettleFilled
  <2>1. PICK tk, ptr, q : SettleStep(tk, ptr, q)
    BY <1>5, SettleEffect
  <2>2. /\ s \in Live /\ InCallback /\ ~InCallback'
        /\ call.taker = tk /\ call.maker = ptr /\ call.quantity = q
        /\ q \in Nat
        /\ mem'[s] = IF s \in {ptr, tk}
                     THEN [mem[s] EXCEPT !.quantity = @ - q] ELSE mem[s]
    BY <1>1, <2>1 DEF SettleStep
  <2>3. /\ Pending(s) = IF s \in {ptr, tk} THEN q ELSE 0
        /\ Pending(s)' = 0
    BY <2>2 DEF Pending
  <2>4. CASE s \in {ptr, tk}
    <3>1. /\ mem'[s].reported = mem[s].reported
          /\ mem'[s].quantity = mem[s].quantity - q
          /\ mem'[s].original = mem[s].original
      BY <1>1, <2>2, <2>4 DEF Order
    <3> QED
      BY <1>1, <2>2, <2>3, <2>4, <3>1 DEF Accounted
  <2>5. CASE s \notin {ptr, tk}
    BY <1>2, <2>2, <2>3, <2>5
  <2> QED
    BY <2>4, <2>5
<1>6. ASSUME ~InCallback, call' = IdleCall, s \in Live, mem'[s] = mem[s]
      PROVE  Accounted(s)'
  <2>1. Pending(s) = 0 /\ Pending(s)' = 0
    BY <1>1, <1>6, IdleFacts DEF Pending
  <2> QED
    BY <1>2, <1>6, <2>1
<1>7. CASE Rest
  <2>1. ~InCallback /\ call' = IdleCall /\ UNCHANGED mem
    BY <1>7 DEF Rest, CannotTrade, Matching, InCallback
  <2> QED
    BY <1>6, <2>1 DEF Live
<1>8. CASE Filled
  <2>1. FilledStep(call.taker)
    BY <1>8, FilledEffect DEF Filled
  <2>2. ~InCallback /\ call' = IdleCall /\ s \in Live /\ mem'[s] = mem[s]
    BY <1>1, <1>8, <2>1 DEF FilledStep, Filled
  <2> QED
    BY <1>6, <2>2
<1>9. CASE Throw
  <2>1. ~InCallback /\ call' = IdleCall /\ UNCHANGED mem
    BY <1>9 DEF Throw, CannotTrade, Matching, InCallback
  <2> QED
    BY <1>6, <2>1 DEF Live
<1>10. ASSUME UNCHANGED call, s \in Live, mem'[s] = mem[s]
       PROVE  Accounted(s)'
  <2>1. Pending(s)' = Pending(s)
    BY <1>10 DEF Pending, InCallback
  <2> QED
    BY <1>1, <1>10, <2>1 DEF Accounted
<1>11. ASSUME NEW id \in OrderIDs, CancelOrder(id)
       PROVE  Accounted(s)'
  <2>1. PICK ptr : CancelStep(id, ptr)
    BY <1>11, CancelEffect
  <2>2. UNCHANGED call /\ s \in Live /\ mem'[s] = mem[s]
    BY <1>1, <2>1 DEF CancelStep
  <2> QED
    BY <1>10, <2>2
<1>12. ASSUME UNCHANGED <<mem, call>>
       PROVE  Accounted(s)'
  BY <1>10, <1>12 DEF Live
<1> QED
  BY <1>3, <1>4, <1>5, <1>7, <1>8, <1>9, <1>11, <1>12
     DEF Next, Engine, vars, AddRejected, CancelNotFound

\* Every fill is reported once to both orders, and no order trades for more
\* than it asked, while callbacks do not throw (OrderBook.cpp:152-171).
THEOREM FillsAlwaysAddUp ==
  "callback" \notin Throws => (Spec => []FillsAddUp)
<1> SUFFICES ASSUME "callback" \notin Throws
             PROVE  Spec => []FillsAddUp
  OBVIOUS
<1>1. Init => FillsAddUp
  BY SlotFacts DEF Init, FillsAddUp, Live
<1>2. StepInv /\ FillsAddUp /\ [Next]_vars => FillsAddUp'
  BY FillsStep
<1> QED
  BY <1>1, <1>2, StepInvariance, PTL DEF Spec

-----------------------------------------------------------------------------
(***************************************************************************)
(* The pool's contract.                                                    *)
(***************************************************************************)
LEMMA PoolStep ==
  ASSUME StepInv, [Next]_vars
  PROVE  [Pool!Next]_(Pool!vars)
<1>1. TypeOK /\ \A s \in Live : s \in Slots
  BY LiveFacts DEF StepInv, BookInv, CallInv
<1>2. ASSUME NEW ptr \in Slots, Pool!Allocate(ptr) \/ Pool!Deallocate(ptr)
      PROVE  Pool!Next
  BY <1>2 DEF Pool!Next, Slots
<1>3. ASSUME Live' = Live, UNCHANGED free_list
      PROVE  UNCHANGED Pool!vars
  BY <1>3 DEF Pool!vars
<1>4. ASSUME NEW r \in Requests, AddAccepted(r)
      PROVE  Pool!Next
  BY <1>2, <1>4, AcceptEffect DEF AcceptStep
<1>5. CASE ExecuteTrade
  BY <1>3, <1>5, ReportEffect DEF ReportStep
<1>6. CASE SettlePartial \/ SettleFilled
  <2>1. PICK tk, ptr, q : SettleStep(tk, ptr, q)
    BY <1>6, SettleEffect
  <2>2. ptr \in Slots
    BY <2>1, ListedFacts DEF SettleStep
  <2> QED
    BY <1>2, <1>3, <2>1, <2>2 DEF SettleStep
<1>7. CASE Rest
  BY <1>3, <1>7 DEF Rest, Live
<1>8. CASE Filled
  BY <1>1, <1>2, <1>8, FilledEffect DEF FilledStep, Filled
<1>9. CASE Throw
  BY <1>3, <1>9 DEF Throw, Live
<1>10. ASSUME NEW id \in OrderIDs, CancelOrder(id)
       PROVE  Pool!Next
  BY <1>2, <1>10, CancelEffect, ListedFacts DEF CancelStep
<1>11. ASSUME UNCHANGED <<mem, free_list>>
       PROVE  UNCHANGED Pool!vars
  BY <1>3, <1>11 DEF Live
<1> QED
  BY <1>4, <1>5, <1>6, <1>7, <1>8, <1>9, <1>10, <1>11
     DEF Next, Engine, vars, AddRejected, CancelNotFound

\* The engine gives back to its pool only slots it holds, each once, whatever
\* throws and whatever callbacks cancel (OrderBook.cpp:44-111, 165, 198;
\* MemoryPool.h:51-67).
THEOREM PoolIsUsedWithinContract == Spec => KeepsPoolContract
<1>1. Init => Pool!Init
  <2>1. Init => Live = {}
    BY SlotFacts DEF Init, Live
  <2> QED
    BY <2>1 DEF Init, Pool!Init
<1>2. StepInv /\ [Next]_vars => [Pool!Next]_(Pool!vars)
  BY PoolStep
<1> QED
  BY <1>1, <1>2, StepInvariance, PTL DEF Spec, KeepsPoolContract, Pool!Spec

-----------------------------------------------------------------------------
(***************************************************************************)
(* The refinement of PriceTimeBook.tla.                                    *)
(***************************************************************************)
RefinementInv == OrdersInv /\ ListedAreIndexed

\* The abstract book has the vocabulary of the engine.
LEMMA SameVocabulary ==
  /\ PriceTime!OrderIDs = OrderIDs /\ PriceTime!Prices = Prices
  /\ PriceTime!Sides = Sides
  /\ \A r : PriceTime!ArgumentError(r) = ArgumentError(r)
  /\ \A side : PriceTime!Opposite(side) = Opposite(side)
  /\ \A side, p, q : PriceTime!Crosses(side, p, q) = Crosses(side, p, q)
  /\ \A side, p, q : PriceTime!AtLeastAsGood(side, p, q) = AtLeastAsGood(side, p, q)
BY DEF PriceTime!OrderIDs, OrderIDs, PriceTime!Prices, Prices, PriceTime!Sides,
       Sides, PriceTime!ArgumentError, ArgumentError, PriceTime!Quantities,
       Quantities, PriceTime!Opposite, Opposite, PriceTime!Crosses, Crosses,
       PriceTime!AtLeastAsGood, AtLeastAsGood

LEMMA OrderInFacts ==
  ASSUME TypeOK, NEW s \in Live
  PROVE  /\ OrderIn(s).id = mem[s].id /\ OrderIn(s).price = mem[s].price
         /\ OrderIn(s).quantity = mem[s].quantity
         /\ OrderIn(s).side = mem[s].side
         /\ OrderIn(s).timestamp = mem[s].timestamp
         /\ OrderIn(s) \in PriceTime!Orders
         /\ OrderIn(s) # NoOrder
<1>1. /\ s \in Slots /\ mem[s] # NoOrder
      /\ mem[s].id \in OrderIDs /\ mem[s].price \in Prices
      /\ mem[s].quantity \in 0 .. MAX_QUANTITY /\ mem[s].side \in Sides
      /\ mem[s].timestamp \in Nat
  BY LiveFacts, OrderFacts
<1>2. OrderIn(s) \in PriceTime!Orders
  BY <1>1, SameVocabulary DEF OrderIn, PriceTime!Orders
<1> QED
  BY <1>2, NoFillAssumption DEF OrderIn

LEMMA OrderInApart ==
  ASSUME OrdersInv, NEW s \in Live, NEW t \in Live, OrderIn(s) = OrderIn(t)
  PROVE  s = t
BY OrderInFacts DEF OrdersInv, TimesDiffer, StepInv, BookInv, CallInv

LEMMA ReportedFacts ==
  ASSUME StepInv
  PROVE  ReportedFill # NoOrder <=> InCallback
<1>1. ASSUME InCallback
      PROVE  ReportedFill # NoOrder
  <2>1. /\ TypeOK /\ Maker.id \in OrderIDs /\ Maker.side \in Sides
        /\ ~Idle /\ Maker # NoOrder /\ call.maker \in Slots
    BY <1>1, CallbackFacts DEF StepInv, BookInv, CallInv
  <2>2. Taker.id \in OrderIDs /\ Maker.price \in Prices
    BY <2>1, TakerFacts, OrderFacts DEF Taker, Maker
  <2>3. call.quantity \in 0 .. MAX_QUANTITY
    BY <2>1 DEF TypeOK, Calls
  <2>4. ReportedFill \in PriceTime!Fills
    BY <1>1, <2>1, <2>2, <2>3, SameVocabulary DEF ReportedFill, PriceTime!Fills
  <2> QED
    BY <2>4, NoFillAssumption
<1> QED
  BY <1>1 DEF ReportedFill

\* The pool is exhausted exactly when POOL_CAPACITY orders rest or are lost.
LEMMA PoolIsFull ==
  ASSUME OrdersInv, Idle
  PROVE  free_list = << >> <=> Cardinality(Resting \cup Lost) = POOL_CAPACITY
<1>1. /\ TypeOK /\ Pool!PoolPartition
      /\ call.taker = Null
  BY DEF OrdersInv, StepInv, BookInv, CallInv, IdleIsClean, IdleCall
<1>2. Listed \subseteq Live /\ Live \subseteq Slots /\ Null \notin Live
  BY <1>1, ListedFacts, LiveFacts, SlotFacts DEF OrdersInv
<1>3. Resting \cup Lost = {OrderIn(s) : s \in Live}
  BY <1>1, <1>2 DEF Resting, Lost
<1>4. IsFiniteSet(Slots) /\ Cardinality(Slots) = POOL_CAPACITY
  <2>1. /\ POOL_CAPACITY \in Nat /\ Slots = 1 .. POOL_CAPACITY
        /\ 1 \in Int /\ POOL_CAPACITY \in Int
    BY SlotFacts
  <2>2. /\ IsFiniteSet(1 .. POOL_CAPACITY)
        /\ Cardinality(1 .. POOL_CAPACITY)
             = IF 1 > POOL_CAPACITY THEN 0 ELSE POOL_CAPACITY - 1 + 1
    BY <2>1, FS_Interval
  <2> QED
    BY <2>1, <2>2
<1>5. IsFiniteSet(Live) /\ (Cardinality(Live) = POOL_CAPACITY <=> Live = Slots)
  BY <1>2, <1>4, FS_Subset
<1>6. Cardinality({OrderIn(s) : s \in Live}) = Cardinality(Live)
  <2> DEFINE T == {OrderIn(s) : s \in Live}
             f == [s \in Live |-> OrderIn(s)]
  <2>1. f \in Surjection(Live, T)
    BY DEF Surjection
  <2>2. f \in Injection(Live, T)
    <3>1. \A s, t \in Live : f[s] = f[t] => s = t
      BY OrderInApart
    <3>2. f \in [Live -> T]
      OBVIOUS
    <3> QED
      BY <3>1, <3>2 DEF Injection, IsInjective
  <2> QED
    BY <1>5, <2>1, <2>2, FS_Surjection
<1>7. free_list = << >> <=> Live = Slots
  <2>1. {free_list[i] : i \in 1 .. Len(free_list)} = Slots \ Live
    BY <1>1, SlotFacts DEF Pool!PoolPartition, Pool!FreeIsNotLive, Slots
  <2>2. free_list \in Seq(Slots) /\ Len(free_list) \in Nat
    BY <1>1 DEF TypeOK
  <2>3. free_list = << >> <=> {free_list[i] : i \in 1 .. Len(free_list)} = {}
    <3>1. free_list = << >> <=> Len(free_list) = 0
      BY <2>2
    <3>2. Len(free_list) # 0 => 1 \in 1 .. Len(free_list)
      BY <2>2
    <3> QED
      BY <2>2, <3>1, <3>2
  <2> QED
    BY <1>2, <2>1, <2>3
<1> QED
  BY <1>3, <1>5, <1>6, <1>7

\* It counts as the engine does.
LEMMA SameCount ==
  ASSUME NEW S
  PROVE  PriceTime!Cardinality(S) = Cardinality(S)
BY DEF PriceTime!Cardinality, Cardinality, PriceTime!IsFiniteSet, IsFiniteSet

\* An id is resting exactly when the index has it.
LEMMA RestingIsIndexed ==
  ASSUME RefinementInv, NEW id \in OrderIDs
  PROVE  (\E o \in Resting : o.id = id) <=> order_map[id] # Null
<1>1. TypeOK /\ IndexedAreListed /\ StepInv
  BY DEF RefinementInv, OrdersInv, StepInv, BookInv, CallInv
<1>2. ASSUME NEW o \in Resting, o.id = id
      PROVE  order_map[id] # Null
  <2>1. PICK s \in Listed : o = OrderIn(s)
    BY DEF Resting
  <2>2. s \in Live /\ s # Null /\ mem[s].id = id
    BY <1>1, <1>2, <2>1, ListedFacts, LiveFacts, OrderInFacts
  <2> QED
    BY <2>1, <2>2, IndexedMeans DEF RefinementInv
<1>3. ASSUME order_map[id] # Null
      PROVE  \E o \in Resting : o.id = id
  <2>1. PICK s : s = order_map[id]
    OBVIOUS
  <2>2. /\ s \in Slots /\ mem[s] # NoOrder /\ mem[s].id = id
        /\ mem[s].price \in Levels(mem[s].side)
        /\ Linked(s, mem[s].side, mem[s].price)
    BY <1>1, <1>3, <2>1 DEF IndexedAreListed, TypeOK
  <2>3. s \in Listed /\ s \in Live
    BY <1>1, <2>2, OrderFacts, ListedMeans, SlotFacts
  <2>4. OrderIn(s) \in Resting /\ OrderIn(s).id = id
    BY <1>1, <2>2, <2>3, OrderInFacts DEF Resting
  <2> QED
    BY <2>4
<1> QED
  BY <1>2, <1>3

\* A request is refused for the same reason.
LEMMA SameRefusal ==
  ASSUME RefinementInv, Idle, NEW r \in Requests
  PROVE  PriceTime!Refusal(r) = Refusal(r)
<1>1. (\E o \in Resting : o.id = r.id) <=> order_map[r.id] # Null
  BY RestingIsIndexed DEF OrderIDs
<1>2. free_list = << >> <=> Cardinality(Resting \cup Lost) = POOL_CAPACITY
  BY PoolIsFull DEF RefinementInv
<1>3. PriceTime!Refusal(r)
        = IF PriceTime!ArgumentError(r) # "SUCCESS"
            THEN PriceTime!ArgumentError(r)
          ELSE IF \E o \in Resting : o.id = r.id THEN "INVALID_ORDER_ID"
          ELSE IF PriceTime!Cardinality(Resting \cup Lost) = POOL_CAPACITY
            THEN "POOL_EXHAUSTED"
          ELSE "SUCCESS"
  BY Zenon DEF PriceTime!Refusal, PriceTime!Known, Resting, Lost
<1>4. PICK error : error = ArgumentError(r)
  OBVIOUS
<1>5. Refusal(r)
        = IF error # "SUCCESS" THEN error
          ELSE IF order_map[r.id] # Null THEN "INVALID_ORDER_ID"
          ELSE IF free_list = << >> THEN "POOL_EXHAUSTED"
          ELSE "SUCCESS"
  BY <1>4 DEF Refusal
<1>6. PriceTime!Refusal(r)
        = IF error # "SUCCESS" THEN error
          ELSE IF order_map[r.id] # Null THEN "INVALID_ORDER_ID"
          ELSE IF free_list = << >> THEN "POOL_EXHAUSTED"
          ELSE "SUCCESS"
  BY <1>1, <1>2, <1>3, <1>4, SameVocabulary, SameCount, Zenon
<1> QED
  BY <1>5, <1>6

-----------------------------------------------------------------------------
(***************************************************************************)
(* The refinement: every step of the engine is a step of the abstract      *)
(* book.  OrderNext is OrderIn in the next state.                          *)
(***************************************************************************)
OrderNext(s) == [id |-> mem'[s].id, price |-> mem'[s].price,
                 quantity |-> mem'[s].quantity, side |-> mem'[s].side,
                 timestamp |-> mem'[s].timestamp]

LEMMA NextView ==
  /\ Resting' = {OrderNext(s) : s \in Listed'}
  /\ Lost' = {OrderNext(s) : s \in Live' \ (Listed' \cup {call'.taker})}
  /\ Incoming' = IF Idle' THEN NoOrder ELSE OrderNext(call'.taker)
  /\ ReportedFill' = IF InCallback'
                   THEN [maker_order_id |-> mem'[call'.maker].id,
                         taker_order_id |-> mem'[call'.taker].id,
                         price |-> mem'[call'.maker].price,
                         quantity |-> call'.quantity,
                         side |-> mem'[call'.maker].side]
                   ELSE NoOrder
<1>1. Resting' = {OrderNext(s) : s \in Listed'}
  BY DEF Resting, OrderIn, OrderNext
<1>2. Lost' = {OrderNext(s) : s \in Live' \ (Listed' \cup {call'.taker})}
  BY DEF Lost, OrderIn, OrderNext
<1>3. Incoming' = IF Idle' THEN NoOrder ELSE OrderNext(call'.taker)
  BY DEF Incoming, OrderIn, OrderNext
<1>4. ReportedFill' = IF InCallback'
                    THEN [maker_order_id |-> mem'[call'.maker].id,
                          taker_order_id |-> mem'[call'.taker].id,
                          price |-> mem'[call'.maker].price,
                          quantity |-> call'.quantity,
                          side |-> mem'[call'.maker].side]
                    ELSE NoOrder
  BY DEF ReportedFill, Maker, Taker
<1> QED
  BY <1>1, <1>2, <1>3, <1>4

LEMMA SameView ==
  ASSUME UNCHANGED <<mem, call>>, Listed' = Listed
  PROVE  /\ Resting' = Resting /\ Lost' = Lost
         /\ Incoming' = Incoming /\ ReportedFill' = ReportedFill
<1>1. \A s : OrderNext(s) = OrderIn(s)
  BY DEF OrderNext, OrderIn
<1>2. Live' = Live /\ (Idle' <=> Idle) /\ (InCallback' <=> InCallback)
  BY DEF Live, Idle, InCallback
<1>3. Resting' = Resting
  BY <1>1, NextView DEF Resting
<1>4. Lost' = Lost
  BY <1>1, <1>2, NextView DEF Lost
<1>5. Incoming' = Incoming
  BY <1>1, <1>2, NextView DEF Incoming
<1>6. ReportedFill' = ReportedFill
  BY <1>2, NextView DEF ReportedFill, Maker, Taker
<1> QED
  BY <1>3, <1>4, <1>5, <1>6

LEMMA IncomingFacts ==
  ASSUME StepInv
  PROVE  /\ Incoming = NoOrder <=> Idle
         /\ ~Idle => /\ Incoming = OrderIn(call.taker) /\ call.taker \in Live
                     /\ Incoming.id = Taker.id
                     /\ Incoming.price = Taker.price
                     /\ Incoming.side = Taker.side
                     /\ Incoming.quantity = Taker.quantity
<1>1. CASE Idle
  BY <1>1 DEF Incoming
<1>2. CASE ~Idle
  <2>1. call.taker \in Live /\ TypeOK
    BY <1>2, TakerFacts, SlotFacts DEF Taker
  <2>2. Incoming = OrderIn(call.taker)
    BY <1>2 DEF Incoming
  <2> QED
    BY <1>2, <2>1, <2>2, OrderInFacts DEF Taker
<1> QED
  BY <1>1, <1>2

\* Taking an order away from a set of orders.
LEMMA OrdersWithout ==
  ASSUME OrdersInv, NEW T, T \subseteq Live, NEW ptr \in T
  PROVE  {OrderIn(s) : s \in T \ {ptr}} = {OrderIn(s) : s \in T} \ {OrderIn(ptr)}
BY OrderInApart

LEMMA RejectMaps ==
  ASSUME RefinementInv, NEW r \in Requests, AddRejected(r)
  PROVE  PriceTime!Reject(r)
<1>1. /\ TypeOK /\ StepInv /\ Idle /\ Refusal(r) # "SUCCESS"
      /\ result' = Refusal(r)
      /\ UNCHANGED <<mem, book, call, now>>
  BY DEF RefinementInv, OrdersInv, StepInv, BookInv, CallInv, AddRejected
<1>2. /\ Resting' = Resting /\ Lost' = Lost
      /\ Incoming' = Incoming /\ ReportedFill' = ReportedFill
  BY <1>1, SameBookKept, KeptListed, SameView
<1>3. PriceTime!Refusal(r) = Refusal(r)
  BY <1>1, SameRefusal
<1>4. Incoming = NoOrder
  BY <1>1 DEF Incoming
<1> QED
  BY <1>1, <1>2, <1>3, <1>4
     DEF PriceTime!Reject, Resting, Lost, Incoming, ReportedFill

LEMMA AcceptMaps ==
  ASSUME RefinementInv, NEW r \in Requests, AddAccepted(r)
  PROVE  PriceTime!Accept(r)
<1>1. StepInv /\ TypeOK /\ IdleIsClean
  BY DEF RefinementInv, OrdersInv, StepInv, BookInv, CallInv
<1>2. PICK ptr : AcceptStep(r, ptr)
  BY <1>1, AcceptEffect
<1>3. /\ Idle /\ ~InCallback /\ call.taker = Null
      /\ Refusal(r) = "SUCCESS" /\ now < MaxTime
      /\ ptr \in Slots /\ ptr \notin Listed /\ ptr \notin Live
      /\ Live' = Live \cup {ptr} /\ Listed' = Listed
      /\ ~Idle' /\ ~InCallback' /\ call'.taker = ptr
      /\ now' = now + 1 /\ UNCHANGED result
  BY <1>1, <1>2, SlotFacts
     DEF AcceptStep, IdleIsClean, IdleCall, Idle, InCallback
<1>4. /\ mem'[ptr] = NewOrder(r)
      /\ \A s \in Live : s \in Slots /\ mem'[s] = mem[s]
  BY <1>2, <1>3, SlotFacts DEF AcceptStep
<1>5. Listed \subseteq Live /\ Null \notin Live
  BY <1>1, ListedFacts, SlotFacts
<1>6. \A s \in Live : OrderNext(s) = OrderIn(s)
  BY <1>4 DEF OrderNext, OrderIn
<1>7. Resting' = Resting
  BY <1>3, <1>5, <1>6, NextView DEF Resting
<1>8. Lost' = Lost
  <2>1. Live' \ (Listed' \cup {call'.taker}) = Live \ (Listed \cup {call.taker})
    BY <1>3, <1>5
  <2> QED
    BY <1>6, <2>1, NextView DEF Lost
<1>9. ReportedFill' = ReportedFill
  BY <1>3, NextView DEF ReportedFill
<1>10. Incoming' = [id |-> r.id, price |-> r.price, quantity |-> r.quantity,
                    side |-> r.side, timestamp |-> now]
  BY <1>3, <1>4, NextView DEF OrderNext, NewOrder
<1>11. Incoming = NoOrder
  BY <1>3 DEF Incoming
<1>12. PriceTime!Refusal(r) = "SUCCESS"
  BY <1>3, SameRefusal
<1> QED
  BY <1>3, <1>7, <1>8, <1>9, <1>10, <1>11, <1>12
     DEF PriceTime!Accept, Resting, Lost, Incoming, ReportedFill

\* The front of the best level has priority over all that could trade.
LEMMA MakerIsFirst ==
  ASSUME RefinementInv, NEW ptr, NEW q, ReportStep(ptr, q)
  PROVE  PriceTime!IsMaker(OrderIn(ptr))
<1>1. StepInv /\ TypeOK /\ TimePriority /\ ListedAreLive
  BY DEF RefinementInv, OrdersInv, StepInv, BookInv, CallInv
<1>2. PICK sd, p : sd = mem[ptr].side /\ p = mem[ptr].price
  OBVIOUS
<1>3. /\ ptr \in Listed /\ ~Idle
      /\ sd = Opposite(Taker.side) /\ IsBest(sd, p)
      /\ ptr = Head(book[sd][p].orders)
      /\ Crosses(Taker.side, Taker.price, p)
  BY <1>2 DEF ReportStep
<1>4. /\ ptr \in Live /\ sd \in Sides /\ p \in Levels(sd)
  BY <1>1, <1>2, <1>3, ListedFacts
<1>5. PriceTime!Matchable
        = {o \in Resting : /\ o.side = Opposite(Taker.side)
                           /\ Crosses(Taker.side, Taker.price, o.price)}
  <2>1. Incoming.side = Taker.side /\ Incoming.price = Taker.price
    BY <1>1, <1>3, IncomingFacts
  <2>2. PriceTime!Matchable
          = {o \in Resting : /\ o.side = PriceTime!Opposite(Incoming.side)
                             /\ PriceTime!Crosses(Incoming.side, Incoming.price,
                                                  o.price)}
    BY DEF PriceTime!Matchable, Resting, Incoming
  <2> QED
    BY <2>1, <2>2, SameVocabulary
<1>6. OrderIn(ptr) \in PriceTime!Matchable
  BY <1>1, <1>2, <1>3, <1>4, <1>5, OrderInFacts DEF Resting
<1>7. ASSUME NEW other \in PriceTime!Matchable \ {OrderIn(ptr)}
      PROVE  PriceTime!HasPriority(OrderIn(ptr), other)
  <2>1. PICK t \in Listed : other = OrderIn(t)
    BY <1>5, <1>7 DEF Resting
  <2>2. /\ t \in Live /\ t # ptr
        /\ mem[t].side = sd /\ mem[t].price \in Levels(sd)
        /\ Linked(t, sd, mem[t].price)
    <3>1. t \in Live /\ mem[t].price \in Levels(mem[t].side)
          /\ Linked(t, mem[t].side, mem[t].price)
      BY <1>1, <2>1, ListedFacts
    <3>2. mem[t].side = sd
      BY <1>1, <1>3, <1>5, <1>7, <2>1, <3>1, OrderInFacts
    <3> QED
      BY <1>7, <2>1, <3>1, <3>2
  <2>3. AtLeastAsGood(sd, p, mem[t].price)
    BY <1>3, <2>2 DEF IsBest
  <2>4. ASSUME mem[t].price = p
        PROVE  mem[ptr].timestamp < mem[t].timestamp
    <3>1. PICK list : list = book[sd][p].orders
      OBVIOUS
    <3>2. list \in Seq(Slots)
      BY <1>1, <1>4, <3>1, ListFacts
    <3>3. PICK j \in 1 .. Len(list) : list[j] = t
      BY <2>2, <2>4, <3>1 DEF Linked
    <3>4. list[1] = ptr /\ 1 \in 1 .. Len(list) /\ 1 < j
      BY <1>3, <2>2, <3>1, <3>2, <3>3
    <3> QED
      BY <1>1, <1>4, <3>1, <3>3, <3>4 DEF TimePriority
  <2>5. /\ OrderIn(ptr).side = sd /\ OrderIn(ptr).price = p
        /\ OrderIn(ptr).timestamp = mem[ptr].timestamp
        /\ other.price = mem[t].price /\ other.timestamp = mem[t].timestamp
    BY <1>1, <1>2, <1>4, <2>1, <2>2, OrderInFacts
  <2> QED
    BY <2>3, <2>4, <2>5, SameVocabulary DEF PriceTime!HasPriority
<1> QED
  BY <1>6, <1>7 DEF PriceTime!IsMaker

LEMMA ReportMaps ==
  ASSUME RefinementInv, ExecuteTrade
  PROVE  \E o \in Resting : PriceTime!Report(o)
<1>1. StepInv /\ TypeOK
  BY DEF RefinementInv, OrdersInv, StepInv, BookInv, CallInv
<1>2. PICK ptr \in Slots, q \in Nat : ReportStep(ptr, q)
  BY <1>1, ReportEffect
<1>3. PICK tk, o : tk = call.taker /\ o = OrderIn(ptr)
  OBVIOUS
<1>4. /\ ~Idle /\ ~InCallback /\ Taker.quantity > 0
      /\ ptr \in Listed
      /\ q \in {mem[ptr].quantity, Taker.quantity}
      /\ q <= mem[ptr].quantity /\ q <= Taker.quantity
      /\ Live' = Live /\ Listed' = Listed
      /\ ~Idle' /\ InCallback'
      /\ call'.taker = tk /\ call'.maker = ptr /\ call'.quantity = q
      /\ UNCHANGED <<now, result>>
  BY <1>2, <1>3 DEF ReportStep
<1>5. /\ ptr \in Live /\ tk \in Live /\ Listed \subseteq Live
      /\ mem[ptr].quantity \in Nat /\ Taker.quantity \in Nat
  BY <1>1, <1>3, <1>4, ListedFacts, LiveFacts, IncomingFacts DEF Taker
<1>6. \A s \in Live : /\ mem'[s].id = mem[s].id /\ mem'[s].price = mem[s].price
                      /\ mem'[s].quantity = mem[s].quantity
                      /\ mem'[s].side = mem[s].side
                      /\ mem'[s].timestamp = mem[s].timestamp
  <2>1. \A s \in Live : /\ mem'[s] = IF s \in {ptr, tk}
                                     THEN [mem[s] EXCEPT !.reported = @ + q]
                                     ELSE mem[s]
                        /\ mem[s] \in Order
    BY <1>1, <1>2, <1>3, LiveFacts DEF ReportStep
  <2> QED
    BY <2>1 DEF Order
<1>7. \A s \in Live : OrderNext(s) = OrderIn(s)
  BY <1>6 DEF OrderNext, OrderIn
<1>8. Resting' = Resting
  BY <1>4, <1>5, <1>7, NextView DEF Resting
<1>9. Lost' = Lost
  BY <1>3, <1>4, <1>7, NextView DEF Lost
<1>10. Incoming' = Incoming
  BY <1>3, <1>4, <1>5, <1>7, NextView DEF Incoming
<1>11. o \in Resting
  BY <1>3, <1>4 DEF Resting
<1>12. /\ Incoming # NoOrder /\ ReportedFill = NoOrder
       /\ Incoming.id = mem[tk].id /\ Incoming.quantity = Taker.quantity
       /\ o.id = mem[ptr].id /\ o.price = mem[ptr].price
       /\ o.side = mem[ptr].side /\ o.quantity = mem[ptr].quantity
  BY <1>1, <1>3, <1>4, <1>5, IncomingFacts, ReportedFacts, OrderInFacts DEF Taker
<1>13. ReportedFill' = [maker_order_id |-> o.id, taker_order_id |-> Incoming.id,
                    price |-> o.price, quantity |-> q, side |-> o.side]
  BY <1>4, <1>5, <1>6, <1>12, NextView
<1>14. \E x \in {o.quantity, Incoming.quantity} :
         /\ x <= o.quantity /\ x <= Incoming.quantity
         /\ ReportedFill' = [maker_order_id |-> o.id, taker_order_id |-> Incoming.id,
                         price |-> o.price, quantity |-> x, side |-> o.side]
  BY <1>4, <1>12, <1>13
<1>15. PriceTime!IsMaker(o)
  BY <1>2, <1>3, MakerIsFirst
<1>16. Incoming.quantity > 0
  BY <1>4, <1>12
<1>17. PriceTime!Report(o)
  BY <1>4, <1>8, <1>9, <1>10, <1>12, <1>14, <1>15, <1>16
     DEF PriceTime!Report, Resting, Lost, Incoming, ReportedFill
<1> QED
  BY <1>11, <1>17

LEMMA SettleMaps ==
  ASSUME RefinementInv, SettlePartial \/ SettleFilled
  PROVE  PriceTime!Settle
<1>1. StepInv /\ TypeOK /\ OrdersInv
  BY DEF RefinementInv, OrdersInv, StepInv, BookInv, CallInv
<1>2. PICK tk, ptr, q : SettleStep(tk, ptr, q)
  BY <1>1, SettleEffect
<1>3. PICK o : o = OrderIn(ptr)
  OBVIOUS
<1>4. /\ InCallback /\ ~Idle
      /\ tk = call.taker /\ ptr = call.maker /\ q = call.quantity
      /\ q \in Nat
      /\ tk \in Live /\ ptr \in Listed /\ ptr # tk
      /\ mem'[tk] = [mem[tk] EXCEPT !.quantity = @ - q]
      /\ ~Idle' /\ ~InCallback' /\ call'.taker = tk
      /\ UNCHANGED <<now, result>>
  BY <1>2 DEF SettleStep
<1>5. /\ ptr \in Live /\ Listed \subseteq Live /\ tk \notin Listed
      /\ mem[ptr] \in Order /\ mem[tk] \in Order
      /\ \A s \in Live : s \in Slots
  BY <1>1, <1>4, ListedFacts, LiveFacts
<1>6. /\ ReportedFill # NoOrder /\ ReportedFill.maker_order_id = mem[ptr].id
      /\ ReportedFill.quantity = q
  <2>1. ReportedFill = [maker_order_id |-> Maker.id, taker_order_id |-> Taker.id,
                    price |-> Maker.price, quantity |-> call.quantity,
                    side |-> Maker.side]
    BY <1>4 DEF ReportedFill
  <2> QED
    BY <1>1, <1>4, <2>1, ReportedFacts DEF Maker
<1>7. /\ o \in Resting /\ o.id = mem[ptr].id /\ o.quantity = mem[ptr].quantity
  BY <1>1, <1>3, <1>4, <1>5, OrderInFacts DEF Resting
<1>8. \A s \in Live \ {tk, ptr} : OrderNext(s) = OrderIn(s)
  <2>1. \A s \in Live \ {tk, ptr} : mem'[s] = mem[s]
    BY <1>2, <1>5 DEF SettleStep
  <2> QED
    BY <2>1 DEF OrderNext, OrderIn
<1>9. {OrderNext(s) : s \in Listed \ {ptr}} = Resting \ {o}
  <2>1. {OrderIn(s) : s \in Listed \ {ptr}} = Resting \ {o}
    BY <1>1, <1>3, <1>4, <1>5, OrdersWithout DEF Resting
  <2>2. \A s \in Listed \ {ptr} : OrderNext(s) = OrderIn(s)
    BY <1>5, <1>8
  <2> QED
    BY <2>1, <2>2
<1>10. Resting' = (Resting \ {o}) \cup
                  (IF o.quantity = q THEN {} ELSE {[o EXCEPT !.quantity = @ - q]})
  <2>1. CASE mem[ptr].quantity = q
    <3>1. Listed' = Listed \ {ptr}
      BY <1>2, <2>1 DEF SettleStep
    <3> QED
      BY <1>7, <1>9, <2>1, <3>1, NextView
  <2>2. CASE mem[ptr].quantity # q
    <3>1. /\ Listed' = Listed
          /\ mem'[ptr] = [mem[ptr] EXCEPT !.quantity = @ - q]
      BY <1>2, <2>2 DEF SettleStep
    <3>2. OrderNext(ptr) = [o EXCEPT !.quantity = @ - q]
      <4>1. PICK m : m = mem[ptr] /\ m \in Order
        BY <1>5
      <4>2. mem'[ptr] = [m EXCEPT !.quantity = @ - q]
        BY <3>1, <4>1
      <4>3. o = [id |-> m.id, price |-> m.price, quantity |-> m.quantity,
                 side |-> m.side, timestamp |-> m.timestamp]
        BY <1>3, <4>1 DEF OrderIn
      <4>4. OrderNext(ptr)
              = [id |-> m.id, price |-> m.price, quantity |-> m.quantity - q,
                 side |-> m.side, timestamp |-> m.timestamp]
        BY <4>1, <4>2 DEF OrderNext, Order
      <4> QED
        BY <4>3, <4>4
    <3>3. Resting' = {OrderNext(s) : s \in Listed \ {ptr}} \cup {OrderNext(ptr)}
      BY <1>4, <3>1, NextView
    <3> QED
      BY <1>7, <1>9, <2>2, <3>2, <3>3
  <2> QED
    BY <2>1, <2>2
<1>11. Incoming' = [Incoming EXCEPT !.quantity = @ - q]
  <2>1. OrderNext(tk) = [OrderIn(tk) EXCEPT !.quantity = @ - q]
    BY <1>4, <1>5 DEF OrderNext, OrderIn, Order
  <2> QED
    BY <1>4, <2>1, NextView DEF Incoming
<1>12. Lost' = Lost
  <2>1. Live' \ (Listed' \cup {tk}) = Live \ (Listed \cup {tk})
    <3>1. \/ Live' = Live /\ Listed' = Listed
          \/ Live' = Live \ {ptr} /\ Listed' = Listed \ {ptr}
      BY <1>2 DEF SettleStep
    <3> QED
      BY <1>4, <1>5, <3>1
  <2>2. \A s \in Live \ (Listed \cup {tk}) : OrderNext(s) = OrderIn(s)
    BY <1>4, <1>8
  <2>3. Lost' = {OrderNext(s) : s \in Live \ (Listed \cup {tk})}
    BY <1>4, <2>1, NextView, Zenon
  <2>4. Lost = {OrderIn(s) : s \in Live \ (Listed \cup {tk})}
    BY <1>4 DEF Lost
  <2> QED
    BY <2>2, <2>3, <2>4
<1>13. ReportedFill' = NoOrder
  BY <1>4, NextView
<1>14. /\ \E x \in Resting :
            /\ x.id = ReportedFill.maker_order_id
            /\ Resting' = (Resting \ {x}) \cup
                 (IF x.quantity = ReportedFill.quantity THEN {}
                  ELSE {[x EXCEPT !.quantity = @ - ReportedFill.quantity]})
       /\ Incoming' = [Incoming EXCEPT !.quantity = @ - ReportedFill.quantity]
  BY <1>6, <1>7, <1>10, <1>11
<1> QED
  BY <1>4, <1>6, <1>12, <1>13, <1>14
     DEF PriceTime!Settle, Resting, Lost, Incoming, ReportedFill

LEMMA RestMaps ==
  ASSUME RefinementInv, Rest
  PROVE  PriceTime!Finish
<1>1. StepInv /\ TypeOK
  BY DEF RefinementInv, OrdersInv, StepInv, BookInv, CallInv
<1>2. /\ RestStep(call.taker) /\ CannotTrade /\ result' = "SUCCESS"
      /\ call' = IdleCall
  BY <1>1, RestEffect DEF Rest
<1>3. PICK tk : tk = call.taker
  OBVIOUS
<1>4. /\ ~Idle /\ ~InCallback /\ Taker.quantity > 0
      /\ tk \in Live /\ tk \notin Listed
      /\ Listed' = Listed \cup {tk} /\ Live' = Live
      /\ call' = IdleCall /\ UNCHANGED <<mem, now>>
  BY <1>2, <1>3 DEF RestStep
<1>5. Idle' /\ ~InCallback' /\ call'.taker = Null
  BY <1>1, <1>4, IdleFacts DEF IdleCall
<1>6. Listed \subseteq Live /\ Null \notin Live
  BY <1>1, ListedFacts, SlotFacts
<1>7. \A s : OrderNext(s) = OrderIn(s)
  BY <1>4 DEF OrderNext, OrderIn
<1>8. /\ Incoming = OrderIn(tk) /\ Incoming # NoOrder /\ ReportedFill = NoOrder
      /\ Incoming.quantity = Taker.quantity
      /\ Incoming.side = Taker.side /\ Incoming.price = Taker.price
  BY <1>1, <1>3, <1>4, IncomingFacts, ReportedFacts
<1>9. Resting' = Resting \cup {Incoming}
  BY <1>4, <1>7, <1>8, NextView DEF Resting
<1>10. Lost' = Lost
  <2>1. Live' \ (Listed' \cup {call'.taker}) = Live \ (Listed \cup {call.taker})
    BY <1>3, <1>4, <1>5, <1>6
  <2> QED
    BY <1>7, <2>1, NextView DEF Lost
<1>11. Incoming' = NoOrder /\ ReportedFill' = NoOrder
  BY <1>5, NextView
<1>12. PriceTime!Matchable = {}
  <2>1. PriceTime!Matchable
          = {o \in Resting : /\ o.side = PriceTime!Opposite(Incoming.side)
                             /\ PriceTime!Crosses(Incoming.side, Incoming.price,
                                                  o.price)}
    BY DEF PriceTime!Matchable, Resting, Incoming
  <2>2. ASSUME NEW o \in Resting, o.side = Opposite(Taker.side)
        PROVE  ~Crosses(Taker.side, Taker.price, o.price)
    <3>1. PICK s \in Listed : o = OrderIn(s)
      BY DEF Resting
    <3>2. o.price \in Levels(Opposite(Taker.side))
      BY <1>1, <1>6, <2>2, <3>1, ListedFacts, OrderInFacts
    <3> QED
      BY <1>1, <1>2, <3>2, NothingCrosses
  <2> QED
    BY <1>8, <2>1, <2>2, SameVocabulary
<1>13. Incoming.quantity > 0
  BY <1>4, <1>8
<1> QED
  BY <1>2, <1>4, <1>8, <1>9, <1>10, <1>11, <1>12, <1>13
     DEF PriceTime!Finish, Resting, Lost, Incoming, ReportedFill

LEMMA FilledMaps ==
  ASSUME RefinementInv, Filled
  PROVE  PriceTime!Finish
<1>1. StepInv /\ TypeOK
  BY DEF RefinementInv, OrdersInv, StepInv, BookInv, CallInv
<1>2. PICK tk : tk = call.taker /\ FilledStep(tk)
  BY <1>1, FilledEffect DEF Filled
<1>3. /\ ~Idle /\ ~InCallback /\ Taker.quantity = 0
      /\ tk \in Live /\ tk \notin Listed
      /\ Live' = Live \ {tk} /\ Listed' = Listed
      /\ call' = IdleCall /\ result' = "SUCCESS" /\ UNCHANGED now
  BY <1>2 DEF FilledStep, Filled
<1>4. Idle' /\ ~InCallback' /\ call'.taker = Null
  BY <1>1, <1>3, IdleFacts DEF IdleCall
<1>5. Listed \subseteq Live /\ Null \notin Live
  BY <1>1, ListedFacts, SlotFacts
<1>6. \A s \in Live \ {tk} : OrderNext(s) = OrderIn(s)
  <2>1. \A s \in Live \ {tk} : mem'[s] = mem[s]
    BY <1>1, <1>2, LiveFacts DEF FilledStep
  <2> QED
    BY <2>1 DEF OrderNext, OrderIn
<1>7. /\ Incoming # NoOrder /\ ReportedFill = NoOrder /\ Incoming.quantity = 0
  BY <1>1, <1>3, IncomingFacts, ReportedFacts
<1>8. Resting' = Resting
  <2>1. \A s \in Listed : OrderNext(s) = OrderIn(s)
    BY <1>3, <1>5, <1>6
  <2> QED
    BY <1>3, <2>1, NextView DEF Resting
<1>9. Lost' = Lost
  <2>1. Live' \ (Listed' \cup {call'.taker}) = Live \ (Listed \cup {tk})
    BY <1>3, <1>4, <1>5
  <2>2. \A s \in Live \ (Listed \cup {tk}) : OrderNext(s) = OrderIn(s)
    BY <1>6
  <2>3. Lost' = {OrderNext(s) : s \in Live \ (Listed \cup {tk})}
    BY <2>1, NextView, Zenon
  <2>4. Lost = {OrderIn(s) : s \in Live \ (Listed \cup {tk})}
    BY <1>2 DEF Lost
  <2> QED
    BY <2>2, <2>3, <2>4
<1>10. Incoming' = NoOrder /\ ReportedFill' = NoOrder
  BY <1>4, NextView
<1> QED
  BY <1>3, <1>7, <1>8, <1>9, <1>10
     DEF PriceTime!Finish, Resting, Lost, Incoming, ReportedFill

LEMMA ThrowMaps ==
  ASSUME Throws \subseteq {"callback"}, RefinementInv, Throw
  PROVE  PriceTime!Abandon
<1>1. StepInv /\ TypeOK
  BY DEF RefinementInv, OrdersInv, StepInv, BookInv, CallInv
<1>2. PICK tk : tk = call.taker /\ ThrowStep(tk)
  BY <1>1, ThrowEffect
<1>3. /\ "callback" \in Throws /\ InCallback /\ ~Idle
      /\ tk \in Live /\ tk \notin Listed
      /\ Listed' = Listed /\ Live' = Live
      /\ call' = IdleCall /\ result' = "UNKNOWN_ERROR"
      /\ UNCHANGED <<mem, now>>
  BY <1>2 DEF ThrowStep
<1>4. Idle' /\ ~InCallback' /\ call'.taker = Null
  BY <1>1, <1>3, IdleFacts DEF IdleCall
<1>5. Null \notin Live
  BY SlotFacts
<1>6. \A s : OrderNext(s) = OrderIn(s)
  BY <1>3 DEF OrderNext, OrderIn
<1>7. Incoming = OrderIn(tk) /\ ReportedFill # NoOrder
  BY <1>1, <1>2, <1>3, IncomingFacts, ReportedFacts
<1>8. Resting' = Resting
  BY <1>3, <1>6, NextView DEF Resting
<1>9. Lost' = Lost \cup {Incoming}
  <2>1. Live' \ (Listed' \cup {call'.taker})
          = (Live \ (Listed \cup {tk})) \cup {tk}
    BY <1>3, <1>4, <1>5
  <2>2. Lost' = {OrderNext(s) : s \in (Live \ (Listed \cup {tk})) \cup {tk}}
    BY <2>1, NextView, Zenon
  <2>3. Lost = {OrderIn(s) : s \in Live \ (Listed \cup {tk})}
    BY <1>2 DEF Lost
  <2> QED
    BY <1>6, <1>7, <2>2, <2>3
<1>10. Incoming' = NoOrder /\ ReportedFill' = NoOrder
  BY <1>4, NextView
<1> QED
  BY <1>3, <1>7, <1>8, <1>9, <1>10
     DEF PriceTime!Abandon, Resting, Lost, Incoming, ReportedFill

\* A client may cancel the same orders.
LEMMA SameMayCancel ==
  ASSUME RefinementInv, NEW id \in OrderIDs, MayCancel(id)
  PROVE  \/ Incoming = NoOrder
         \/ /\ CallbackCancels /\ ReportedFill # NoOrder
            /\ ReportedFill.maker_order_id # id
<1>1. StepInv /\ TypeOK
  BY DEF RefinementInv, OrdersInv, StepInv, BookInv, CallInv
<1>2. CASE Idle
  BY <1>2 DEF Incoming
<1>3. CASE CallbackCancels /\ InCallback /\ order_map[id] # call.maker
  <2>1. call.maker \in Listed
    BY <1>1, <1>3, CallbackFacts, ListedMeans
  <2>2. order_map[Maker.id] = call.maker
    BY <2>1, IndexedMeans DEF RefinementInv, Maker
  <2>3. ReportedFill.maker_order_id = Maker.id
    BY <1>3 DEF ReportedFill
  <2> QED
    BY <1>1, <1>3, <2>2, <2>3, ReportedFacts
<1> QED
  BY <1>2, <1>3 DEF MayCancel

LEMMA CancelMaps ==
  ASSUME RefinementInv, NEW id \in OrderIDs, CancelOrder(id)
  PROVE  PriceTime!Cancel(id)
<1>1. StepInv /\ TypeOK /\ OrdersInv
  BY DEF RefinementInv, OrdersInv, StepInv, BookInv, CallInv
<1>2. PICK ptr, tk : ptr = order_map[id] /\ tk = call.taker /\ CancelStep(id, ptr)
  BY <1>1, CancelEffect
<1>3. /\ MayCancel(id) /\ ptr \in Listed /\ mem[ptr].id = id
      /\ ~Idle => ptr # tk
      /\ Live' = Live \ {ptr} /\ Listed' = Listed \ {ptr}
      /\ result' = "SUCCESS" /\ UNCHANGED <<call, now>>
  BY <1>2 DEF CancelStep
<1>4. /\ Listed \subseteq Live
      /\ \A s \in Listed : order_map[mem[s].id] = s
      /\ \A s \in Live : OrderIn(s).id = mem[s].id
  BY <1>1, ListedFacts, OrderInFacts, IndexedMeans DEF RefinementInv
<1>5. \A s \in Slots \ {ptr} : mem'[s] = mem[s]
  BY <1>2 DEF CancelStep
<1>6. \A s \in Live \ {ptr} : OrderNext(s) = OrderIn(s)
  <2>1. \A s \in Live \ {ptr} : mem'[s] = mem[s]
    BY <1>1, <1>5, LiveFacts
  <2> QED
    BY <2>1 DEF OrderNext, OrderIn
<1>7. Resting' = {o \in Resting : o.id # id}
  <2>1. \A s \in Listed : mem[s].id # id <=> s # ptr
    BY <1>2, <1>3, <1>4
  <2>2. \A s \in Listed \ {ptr} : OrderNext(s) = OrderIn(s)
    BY <1>4, <1>6
  <2>3. Resting' = {OrderIn(s) : s \in Listed \ {ptr}}
    BY <1>3, <2>2, NextView
  <2>4. ASSUME NEW o \in Resting
        PROVE  o.id # id <=> o \in Resting'
    <3>1. PICK s \in Listed : o = OrderIn(s)
      BY DEF Resting
    <3>2. o.id # id <=> s # ptr
      BY <1>4, <2>1, <3>1
    <3>3. o \in Resting' => s # ptr
      <4>1. HAVE o \in Resting'
      <4>2. PICK t \in Listed \ {ptr} : o = OrderIn(t)
        BY <2>3, <4>1
      <4> QED
        BY <1>1, <1>4, <3>1, <4>2, OrderInApart
    <3> QED
      BY <2>3, <3>1, <3>2, <3>3
  <2>5. Resting' \subseteq Resting
    BY <2>3 DEF Resting
  <2> QED
    BY <2>4, <2>5
<1>8. Lost' = Lost
  <2>1. Live' \ (Listed' \cup {call'.taker}) = Live \ (Listed \cup {tk})
    BY <1>2, <1>3, <1>4
  <2>2. \A s \in Live \ (Listed \cup {tk}) : OrderNext(s) = OrderIn(s)
    BY <1>3, <1>6
  <2>3. Lost' = {OrderNext(s) : s \in Live \ (Listed \cup {tk})}
    BY <2>1, NextView, Zenon
  <2>4. Lost = {OrderIn(s) : s \in Live \ (Listed \cup {tk})}
    BY <1>2 DEF Lost
  <2> QED
    BY <2>2, <2>3, <2>4
<1>9. Incoming' = Incoming
  <2>1. Idle' <=> Idle
    BY <1>3 DEF Idle
  <2>2. ~Idle => OrderNext(tk) = OrderIn(tk)
    BY <1>1, <1>2, <1>3, <1>6, IncomingFacts
  <2> QED
    BY <1>2, <1>3, <2>1, <2>2, NextView DEF Incoming
<1>10. ReportedFill' = ReportedFill
  <2>1. InCallback' <=> InCallback
    BY <1>3 DEF InCallback
  <2>2. CASE InCallback
    <3>1. call.maker # ptr /\ call.maker \in Slots /\ ~Idle /\ tk \in Slots
      BY <1>1, <1>2, <1>3, <2>2, CallbackFacts, TakerFacts DEF MayCancel
    <3>2. /\ mem'[call.maker] = mem[call.maker]
          /\ mem'[tk] = mem[tk]
      BY <1>3, <1>5, <3>1
    <3> QED
      BY <1>2, <1>3, <2>1, <2>2, <3>2, NextView DEF ReportedFill, Maker, Taker
  <2>3. CASE ~InCallback
    BY <2>1, <2>3, NextView DEF ReportedFill
  <2> QED
    BY <2>2, <2>3
<1>11. \E o \in Resting : o.id = id
  BY <1>3, <1>4 DEF Resting
<1>12. \/ Incoming = NoOrder
       \/ CallbackCancels /\ ReportedFill # NoOrder /\ ReportedFill.maker_order_id # id
  BY <1>3, SameMayCancel
<1> QED
  BY <1>3, <1>7, <1>8, <1>9, <1>10, <1>11, <1>12
     DEF PriceTime!Cancel, PriceTime!Known, Resting, Lost, Incoming, ReportedFill

LEMMA CancelNotFoundMaps ==
  ASSUME RefinementInv, NEW id \in OrderIDs, CancelNotFound(id)
  PROVE  PriceTime!Cancel(id)
<1>1. /\ TypeOK /\ MayCancel(id) /\ order_map[id] = Null
      /\ result' = "ORDER_NOT_FOUND"
      /\ UNCHANGED <<mem, book, call, now>>
  BY DEF RefinementInv, OrdersInv, StepInv, BookInv, CallInv, CancelNotFound
<1>2. /\ Resting' = Resting /\ Lost' = Lost
      /\ Incoming' = Incoming /\ ReportedFill' = ReportedFill
  BY <1>1, SameBookKept, KeptListed, SameView
<1>3. ~ \E o \in Resting : o.id = id
  BY <1>1, RestingIsIndexed
<1>4. Resting' = {o \in Resting : o.id # id}
  BY <1>2, <1>3
<1>5. \/ Incoming = NoOrder
      \/ CallbackCancels /\ ReportedFill # NoOrder /\ ReportedFill.maker_order_id # id
  BY <1>1, SameMayCancel
<1> QED
  BY <1>1, <1>2, <1>3, <1>4, <1>5
     DEF PriceTime!Cancel, PriceTime!Known, Resting, Lost, Incoming, ReportedFill

LEMMA InitMaps ==
  ASSUME Init
  PROVE  PriceTime!Init
<1>1. Live = {} /\ Listed = {} /\ Idle /\ ~InCallback
  BY SlotFacts, ListedMeans
     DEF Init, Live, Levels, IdleCall, Idle, InCallback
<1>2. Resting = {} /\ Lost = {} /\ Incoming = NoOrder /\ ReportedFill = NoOrder
  BY <1>1 DEF Resting, Lost, Incoming, ReportedFill
<1> QED
  BY <1>2 DEF Init, PriceTime!Init, Resting, Lost, Incoming, ReportedFill

LEMMA StepMaps ==
  ASSUME Throws \subseteq {"callback"}, RefinementInv, [Next]_vars
  PROVE  [PriceTime!Next]_(PriceTime!vars)
<1>1. ASSUME NEW r \in Requests, AddRejected(r) \/ AddAccepted(r)
      PROVE  PriceTime!Next
  BY <1>1, RejectMaps, AcceptMaps DEF PriceTime!Next
<1>2. CASE ExecuteTrade
  BY <1>2, ReportMaps DEF PriceTime!Next, Resting
<1>3. CASE SettlePartial \/ SettleFilled
  BY <1>3, SettleMaps DEF PriceTime!Next
<1>4. CASE Rest \/ Filled
  BY <1>4, RestMaps, FilledMaps DEF PriceTime!Next
<1>5. CASE Throw
  BY <1>5, ThrowMaps DEF PriceTime!Next
<1>6. ASSUME NEW id \in OrderIDs, CancelOrder(id) \/ CancelNotFound(id)
      PROVE  PriceTime!Next
  <2>1. PriceTime!Cancel(id)
    BY <1>6, CancelMaps, CancelNotFoundMaps
  <2> QED
    BY <2>1, SameVocabulary DEF PriceTime!Next
<1>7. CASE UNCHANGED vars
  <2>1. /\ Resting' = Resting /\ Lost' = Lost
        /\ Incoming' = Incoming /\ ReportedFill' = ReportedFill
        /\ now' = now /\ result' = result
    BY <1>7, SameBookKept, KeptListed, SameView
       DEF vars, RefinementInv, OrdersInv, StepInv, BookInv, CallInv
  <2> QED
    BY <2>1 DEF PriceTime!vars, Resting, Lost, Incoming, ReportedFill
<1> QED
  BY <1>1, <1>2, <1>3, <1>4, <1>5, <1>6, <1>7 DEF Next, Engine

\* The engine is a book with price-time priority: whatever requests come,
\* whatever callbacks cancel and whenever they throw, every trade is with the
\* order that has priority at that order's price, a remainder rests only if
\* nothing crosses it, a cancel removes that order and no other, and an order
\* is refused only for its arguments, a resting order of its id or a full
\* pool (OrderBook.cpp:15-206).  It rests on allocations not throwing: a level
\* or index node that cannot be made loses the remainder in other ways.
THEOREM EngineImplementsPriceTime ==
  Throws \subseteq {"callback"} => (Spec => ImplementsPriceTime)
<1> SUFFICES ASSUME Throws \subseteq {"callback"}
             PROVE  Spec => ImplementsPriceTime
  OBVIOUS
<1>1. Init => PriceTime!Init
  BY InitMaps
<1>2. RefinementInv /\ [Next]_vars => [PriceTime!Next]_(PriceTime!vars)
  BY StepMaps
<1>3. "index" \notin Throws
  OBVIOUS
<1>4. Spec => []ListedAreIndexed
  BY <1>3, ListedStayIndexed
<1>5. OrdersInv /\ ListedAreIndexed => RefinementInv
  BY DEF RefinementInv
<1> QED
  BY <1>1, <1>2, <1>4, <1>5, OrdersInvariant, PTL
     DEF Spec, ImplementsPriceTime, PriceTime!Spec

-----------------------------------------------------------------------------
(***************************************************************************)
(* The lists' contract.  ShownNext is Shown in the next state.             *)
(***************************************************************************)
ShownNext == [l \in Keys |->
                IF l[2] \in DOMAIN book'[l[1]] THEN book'[l[1]][l[2]].orders
                ELSE << >>]

LEMMA ShownPrimed == Shown' = ShownNext
BY DEF Shown, ShownNext, Levels, Keys, Sides, Prices

LEMMA ShownFacts ==
  ASSUME TypeOK, NEW side \in Sides, NEW p \in Prices
  PROVE  /\ <<side, p>> \in Keys
         /\ Shown[<<side, p>>] = IF p \in Levels(side)
                                 THEN book[side][p].orders ELSE << >>
         /\ ShownNext[<<side, p>>] = IF p \in DOMAIN book'[side]
                                     THEN book'[side][p].orders ELSE << >>
BY DEF Shown, ShownNext, Keys

\* remove() as a cut through the list.
LEMMA RemoveIsCut ==
  ASSUME NEW S, NEW list \in Seq(S), NEW at \in 1 .. Len(list), NEW ptr,
         \A i \in 1 .. Len(list) : list[i] = ptr <=> i = at
  PROVE  Remove(list, ptr)
           = SubSeq(list, 1, at - 1) \o SubSeq(list, at + 1, Len(list))
<1>1. PICK left, before, after :
        /\ left = Remove(list, ptr)
        /\ before = SubSeq(list, 1, at - 1)
        /\ after = SubSeq(list, at + 1, Len(list))
  OBVIOUS
<1>2. /\ left \in Seq(S)
      /\ Len(left) = Len(list) - 1
      /\ \A i \in 1 .. at - 1 : left[i] = list[i]
      /\ \A i \in at .. Len(list) - 1 : left[i] = list[i + 1]
  BY <1>1, RemoveProperties
<1>3. /\ before \in Seq(S) /\ Len(before) = at - 1
      /\ \A i \in 1 .. at - 1 : before[i] = list[i]
  BY <1>1
<1>4. /\ after \in Seq(S) /\ Len(after) = Len(list) - at
      /\ \A i \in 1 .. Len(list) - at : after[i] = list[at + i]
  BY <1>1
<1>5. /\ before \o after \in Seq(S)
      /\ Len(before \o after) = Len(list) - 1
      /\ \A i \in 1 .. at - 1 : (before \o after)[i] = list[i]
      /\ \A i \in at .. Len(list) - 1 : (before \o after)[i] = list[i + 1]
  <2>1. before \o after \in Seq(S) /\ Len(before \o after) = Len(list) - 1
    BY <1>3, <1>4
  <2>2. \A i \in 1 .. at - 1 : (before \o after)[i] = list[i]
    BY <1>3, <1>4
  <2>3. ASSUME NEW i \in at .. Len(list) - 1
        PROVE  (before \o after)[i] = list[i + 1]
    <3>1. (before \o after)[i] = after[i - (at - 1)]
      BY <1>3, <1>4
    <3>2. /\ i - (at - 1) \in 1 .. Len(list) - at
          /\ at + (i - (at - 1)) = i + 1
      OBVIOUS
    <3> QED
      BY <1>4, <3>1, <3>2
  <2> QED
    BY <2>1, <2>2, <2>3
<1>6. \A i \in 1 .. Len(list) - 1 : left[i] = (before \o after)[i]
  BY <1>2, <1>5
<1>7. left = before \o after
  <2>1. PICK other : other = before \o after
    OBVIOUS
  <2>2. left \in Seq(S) /\ other \in Seq(S) /\ Len(left) = Len(other)
        /\ \A i \in 1 .. Len(left) : left[i] = other[i]
    BY <1>2, <1>5, <1>6, <2>1
  <2>3. left = other
    BY <2>2, SeqEqual
  <2> QED
    BY <2>1, <2>3
<1> QED
  BY <1>1, <1>7

LEMMA SameListsShown ==
  ASSUME TypeOK, ListsKept
  PROVE  Shown' = Shown
<1>1. ASSUME NEW l \in Keys
      PROVE  ShownNext[l] = Shown[l]
  <2>1. l[1] \in Sides
    BY DEF Keys
  <2> QED
    BY <2>1 DEF ListsKept, Shown, ShownNext, Levels
<1> QED
  BY <1>1, ShownPrimed DEF Shown, ShownNext

LEMMA UnlinkedLeaves ==
  ASSUME StepInv, NEW side \in Sides, NEW p \in Levels(side),
         NEW ptr \in Slots, Linked(ptr, side, p), NEW q \in Nat,
         book' = RemoveFromPriceLevel(side, p, ptr, q)
  PROVE  Queues!Leave(<<side, p>>, ptr)
<1>1. TypeOK /\ ListedAreLive /\ TimePriority
  BY DEF StepInv, BookInv, CallInv
<1>2. PICK list, key : list = book[side][p].orders /\ key = <<side, p>>
  OBVIOUS
<1>3. list \in Seq(Slots) /\ p \in Prices
  BY <1>1, <1>2, ListFacts
<1>4. PICK at \in 1 .. Len(list) : list[at] = ptr
  BY <1>2 DEF Linked
<1>5. \A i \in 1 .. Len(list) : list[i] = ptr <=> i = at
  BY <1>1, <1>2, <1>4, ListDistinct
<1>6. PICK left : left = Remove(list, ptr)
  OBVIOUS
<1>7. /\ left \in Seq(Slots)
      /\ left = SubSeq(list, 1, at - 1) \o SubSeq(list, at + 1, Len(list))
  BY <1>3, <1>4, <1>5, <1>6, RemoveProperties, RemoveIsCut
<1>8. LeftAtLevel(side, p, left)
  BY <1>1, <1>2, <1>6, <1>7, RemoveLeaves
<1>9. key \in Keys /\ Shown[key] = list /\ ShownNext[key] = left
  <2>1. ShownNext[key] = IF p \in DOMAIN book'[side]
                         THEN book'[side][p].orders ELSE << >>
    BY <1>1, <1>2, <1>3, ShownFacts
  <2> QED
    BY <1>1, <1>2, <1>3, <1>8, <2>1, ShownFacts DEF LeftAtLevel
<1>10. ASSUME NEW l \in Keys, l # key
       PROVE  ShownNext[l] = Shown[l]
  <2>1. l[1] \in Sides /\ l[2] \in Prices /\ ~(l[1] = side /\ l[2] = p)
    BY <1>2, <1>10 DEF Keys
  <2>2. l[2] \in DOMAIN book'[l[1]] <=> l[2] \in Levels(l[1])
    BY <1>8, <2>1 DEF LeftAtLevel, Levels
  <2>3. l[2] \in Levels(l[1]) => book'[l[1]][l[2]] = book[l[1]][l[2]]
    BY <1>8, <2>1 DEF LeftAtLevel, Levels
  <2> QED
    BY <2>2, <2>3 DEF Shown, ShownNext
<1>11. Shown' = [Shown EXCEPT ![key] = left]
  <2>1. ShownNext = [Shown EXCEPT ![key] = left]
    BY <1>9, <1>10 DEF Shown, ShownNext
  <2> QED
    BY <2>1, ShownPrimed
<1>12. /\ at \in 1 .. Len(Shown[key]) /\ Shown[key][at] = ptr
       /\ Shown' = [Shown EXCEPT ![key] = SubSeq(@, 1, at - 1)
                                          \o SubSeq(@, at + 1, Len(@))]
  BY <1>4, <1>7, <1>9, <1>11
<1>13. \E i \in 1 .. Len(Shown[key]) :
         /\ Shown[key][i] = ptr
         /\ Shown' = [Shown EXCEPT ![key] = SubSeq(@, 1, i - 1)
                                            \o SubSeq(@, i + 1, Len(@))]
  BY <1>12
<1> QED
  BY <1>2, <1>13, Zenon DEF Queues!Leave

LEMMA LinkedJoins ==
  ASSUME StepInv, RestStep(call.taker)
  PROVE  Queues!Join(<<Taker.side, Taker.price>>, call.taker)
<1>1. /\ TypeOK /\ ~Idle
      /\ LinkedLast(call.taker, Taker.side, Taker.price)
  BY DEF StepInv, BookInv, CallInv, RestStep
<1>2. PICK tk, side, p : tk = call.taker /\ side = Taker.side /\ p = Taker.price
  OBVIOUS
<1>3. PICK key : key = <<side, p>>
  OBVIOUS
<1>4. /\ tk \in Slots /\ side \in Sides /\ p \in Prices
      /\ \A sd \in Sides : \A x \in Levels(sd) : ~Linked(tk, sd, x)
  BY <1>1, <1>2, TakerFacts, OrderFacts DEF Taker
<1>5. PICK list \in Seq(Slots) :
        /\ book'[side][p].orders = Append(list, tk)
        /\ p \in Levels(side) => list = book[side][p].orders
        /\ p \notin Levels(side) => list = << >>
  BY <1>1, <1>2 DEF LinkedLast
<1>6. /\ \A sd \in Sides \ {side} : book'[sd] = book[sd]
      /\ DOMAIN book'[side] = Levels(side) \cup {p}
      /\ \A x \in Levels(side) \ {p} : book'[side][x] = book[side][x]
  BY <1>1, <1>2 DEF LinkedLast
<1>7. key \in Keys /\ Shown[key] = list /\ ShownNext[key] = Append(list, tk)
  BY <1>1, <1>3, <1>4, <1>5, <1>6, ShownFacts
<1>8. ASSUME NEW l \in Keys, l # key
      PROVE  ShownNext[l] = Shown[l]
  <2>1. l[1] \in Sides /\ l[2] \in Prices /\ ~(l[1] = side /\ l[2] = p)
    BY <1>3, <1>8 DEF Keys
  <2>2. l[2] \in DOMAIN book'[l[1]] <=> l[2] \in Levels(l[1])
    BY <1>6, <2>1 DEF Levels
  <2>3. l[2] \in Levels(l[1]) => book'[l[1]][l[2]] = book[l[1]][l[2]]
    BY <1>6, <2>1 DEF Levels
  <2> QED
    BY <2>2, <2>3 DEF Shown, ShownNext
<1>9. Shown' = [Shown EXCEPT ![key] = Append(@, tk)]
  <2>1. ShownNext = [Shown EXCEPT ![key] = Append(list, tk)]
    BY <1>7, <1>8 DEF Shown, ShownNext
  <2> QED
    BY <1>7, <2>1, ShownPrimed
<1>10. ASSUME NEW l \in Keys, NEW i \in 1 .. Len(Shown[l]), Shown[l][i] = tk
       PROVE  FALSE
  <2>1. l[1] \in Sides
    BY DEF Keys
  <2>2. CASE l[2] \in Levels(l[1])
    <3>1. Shown[l] = book[l[1]][l[2]].orders
      BY <2>2 DEF Shown
    <3>2. Linked(tk, l[1], l[2])
      BY <1>10, <3>1 DEF Linked
    <3> QED
      BY <1>4, <2>1, <2>2, <3>2
  <2>3. CASE l[2] \notin Levels(l[1])
    <3>1. Shown[l] = << >>
      BY <2>3 DEF Shown
    <3> QED
      BY <1>10, <3>1
  <2> QED
    BY <2>2, <2>3
<1>11. \A l \in Keys : ~ \E i \in 1 .. Len(Shown[l]) : Shown[l][i] = tk
  BY <1>10
<1> QED
  BY <1>2, <1>3, <1>9, <1>11, Zenon DEF Queues!Join, Queues!On

LEMMA ListStep ==
  ASSUME StepInv, [Next]_vars
  PROVE  [Queues!Next]_Shown
<1>1. TypeOK
  BY DEF StepInv, BookInv, CallInv
<1>2. ASSUME ListsKept
      PROVE  UNCHANGED Shown
  BY <1>1, <1>2, SameListsShown
<1>3. CASE UNCHANGED book
  BY <1>1, <1>2, <1>3, SameBookKept
<1>4. ASSUME NEW side \in Sides, NEW p \in Prices, NEW ptr \in Slots,
             Queues!Leave(<<side, p>>, ptr) \/ Queues!Join(<<side, p>>, ptr)
      PROVE  Queues!Next
  <2>1. <<side, p>> \in Keys
    BY DEF Keys
  <2> QED
    BY <1>4, <2>1, Zenon DEF Queues!Next
<1>5. CASE SettlePartial
  <2>1. PICK side, p, q :
          side = Maker.side /\ p = call.level /\ q = call.quantity
    OBVIOUS
  <2>2. side \in Sides /\ p \in Levels(side) /\ q \in Nat
    BY <1>5, <2>1, CallbackFacts DEF SettlePartial
  <2>3. book' = ReduceLevel(side, p, q)
    BY <1>5, <2>1 DEF SettlePartial
  <2> QED
    BY <1>1, <1>2, <2>2, <2>3, ReduceKeepsLists
<1>6. CASE SettleFilled
  <2>1. PICK side, p, ptr, q :
          side = Maker.side /\ p = call.level /\ ptr = call.maker
          /\ q = call.quantity
    OBVIOUS
  <2>2. side \in Sides /\ p \in Levels(side) /\ ptr \in Slots /\ q \in Nat
        /\ Linked(ptr, side, p)
    BY <1>6, <2>1, CallbackFacts DEF SettleFilled
  <2>3. book' = RemoveFromPriceLevel(side, p, ptr, q)
    BY <1>6, <2>1 DEF SettleFilled
  <2>4. p \in Prices
    BY <1>1, <2>2, ListFacts
  <2> QED
    BY <1>4, <2>2, <2>3, <2>4, UnlinkedLeaves
<1>7. ASSUME NEW id \in OrderIDs, CancelOrder(id)
      PROVE  Queues!Next
  <2>1. PICK ptr : ptr = order_map[id] /\ CancelStep(id, ptr)
    BY <1>7, CancelEffect
  <2>2. PICK side, p, q :
          side = mem[ptr].side /\ p = mem[ptr].price /\ q = mem[ptr].quantity
    OBVIOUS
  <2>3. /\ ptr \in Slots /\ side \in Sides /\ p \in Levels(side)
        /\ Linked(ptr, side, p) /\ q \in Nat
    BY <1>1, <2>1, <2>2, ListedFacts, LiveFacts DEF CancelStep
  <2>4. book' = RemoveFromPriceLevel(side, p, ptr, q)
    BY <1>7, <2>1, <2>2 DEF CancelOrder
  <2>5. p \in Prices
    BY <1>1, <2>3, ListFacts
  <2> QED
    BY <1>4, <2>3, <2>4, <2>5, UnlinkedLeaves
<1>8. ASSUME RestStep(call.taker)
      PROVE  Queues!Next
  <2>1. call.taker \in Slots /\ Taker.side \in Sides /\ Taker.price \in Prices
    BY <1>1, <1>8, TakerFacts, OrderFacts DEF RestStep, Taker
  <2>2. PICK tk, side, p : tk = call.taker /\ side = Taker.side /\ p = Taker.price
    OBVIOUS
  <2>3. Queues!Join(<<Taker.side, Taker.price>>, call.taker)
    BY <1>8, LinkedJoins
  <2>4. Queues!Join(<<side, p>>, tk)
    BY <2>2, <2>3, Zenon
  <2> QED
    BY <1>4, <2>1, <2>2, <2>4
<1>9. CASE Rest
  BY <1>8, <1>9, RestEffect DEF Rest
<1>10. CASE Throw
  <2>1. UNCHANGED book \/ RestStep(call.taker)
    BY <1>10, ThrowEffect DEF ThrowStep
  <2> QED
    BY <1>3, <1>8, <2>1
<1> QED
  BY <1>3, <1>5, <1>6, <1>7, <1>9, <1>10
     DEF Next, Engine, vars, AddRejected, AddAccepted, ExecuteTrade, Filled,
         CancelNotFound

\* The engine links only orders that are on no level, and unlinks an order
\* only from the level it is on, one at a time, whatever throws and whatever
\* callbacks cancel: the contract push_back and remove do not check
\* (OrderBook.cpp:71-111, 158-168, 191-201; IntrusiveList.h:15-58).
THEOREM ListsAreUsedWithinContract == Spec => KeepsListContract
<1>1. Init => Queues!Init
  <2> SUFFICES ASSUME Init
               PROVE  Queues!Init
    OBVIOUS
  <2>1. \A l \in Keys : l[1] \in Sides /\ l[2] \notin Levels(l[1])
    BY DEF Init, Keys, Levels
  <2>2. Shown = [l \in Keys |-> << >>]
    BY <2>1 DEF Shown
  <2> QED
    BY <2>2, Zenon DEF Queues!Init
<1>2. StepInv /\ [Next]_vars => [Queues!Next]_Shown
  BY ListStep
<1> QED
  BY <1>1, <1>2, StepInvariance, PTL
     DEF Spec, KeepsListContract, Queues!Spec

-----------------------------------------------------------------------------
(***************************************************************************)
(* What clients are shown.                                                 *)
(***************************************************************************)
\* What is left of the order in each slot, and after a step.
Remaining == [s \in Slots |-> IF mem[s] = NoOrder THEN 0 ELSE mem[s].quantity]

RemainingNext ==
  [s \in Slots |-> IF mem'[s] = NoOrder THEN 0 ELSE mem'[s].quantity]

\* The orders of a level after a step.
OrdersNext(sd, x) ==
  {book'[sd][x].orders[i] : i \in 1 .. Len(book'[sd][x].orders)}

\* The running total of a level is what its orders add up to, modulo 2^32.
TotalIsSum(sd, x) ==
  book[sd][x].total_quantity
    = SumFunctionOnSet(Remaining, OrdersAt(sd, x)) % QuantityModulus

TotalIsSumNext(sd, x) ==
  book'[sd][x].total_quantity
    = SumFunctionOnSet(RemainingNext, OrdersNext(sd, x)) % QuantityModulus

TotalsAddUp == \A sd \in Sides : \A x \in Levels(sd) : TotalIsSum(sd, x)

LEMMA TotalsPrimed ==
  TotalsAddUp' <=>
    \A sd \in Sides : \A x \in DOMAIN book'[sd] : TotalIsSumNext(sd, x)
BY DEF TotalsAddUp, TotalIsSum, TotalIsSumNext, Levels, Remaining,
       RemainingNext, OrdersAt, OrdersNext

LEMMA RemainingFacts ==
  ASSUME TypeOK
  PROVE  /\ \A s \in Slots : Remaining[s] \in Nat
         /\ \A s \in Slots : mem[s] # NoOrder =>
              Remaining[s] = mem[s].quantity
         /\ IsFiniteSet(Slots)
         /\ QuantityModulus \in Nat \ {0}
<1>1. \A s \in Slots : mem[s] # NoOrder => mem[s].quantity \in Nat
  BY OrderFacts
<1>2. IsFiniteSet(Slots)
  BY SlotFacts, FS_Interval
<1>3. QuantityModulus \in Nat \ {0}
  BY LimitsAssumption
<1> QED
  BY <1>1, <1>2, <1>3 DEF Remaining

LEMMA OrdersAtFacts ==
  ASSUME TypeOK, NEW sd \in Sides, NEW x \in Levels(sd)
  PROVE  /\ OrdersAt(sd, x) \subseteq Slots
         /\ IsFiniteSet(OrdersAt(sd, x))
         /\ \A s : s \in OrdersAt(sd, x) <=> Linked(s, sd, x)
         /\ OrdersAt(sd, x) \subseteq Listed
<1>1. OrdersAt(sd, x) \subseteq Slots
  BY ListFacts DEF OrdersAt
<1>2. IsFiniteSet(OrdersAt(sd, x))
  BY <1>1, RemainingFacts, FS_Subset
<1>3. \A s : s \in OrdersAt(sd, x) <=> Linked(s, sd, x)
  BY DEF OrdersAt, Linked
<1> QED
  BY <1>1, <1>2, <1>3, ListedMeans

LEMMA OrdersNextMeans ==
  ASSUME NEW sd, NEW x
  PROVE  \A s : s \in OrdersNext(sd, x) <=> LinkedNext(s, sd, x)
BY DEF OrdersNext, LinkedNext

\* A level that is left alone, and whose orders are.
LEMMA TotalKept ==
  ASSUME TypeOK, NEW sd \in Sides, NEW x \in Levels(sd), TotalIsSum(sd, x),
         OrdersNext(sd, x) = OrdersAt(sd, x),
         book'[sd][x].total_quantity = book[sd][x].total_quantity,
         \A s \in OrdersAt(sd, x) : RemainingNext[s] = Remaining[s]
  PROVE  TotalIsSumNext(sd, x)
<1>1. IsFiniteSet(OrdersAt(sd, x))
  BY OrdersAtFacts
<1>2. SumFunctionOnSet(RemainingNext, OrdersAt(sd, x))
        = SumFunctionOnSet(Remaining, OrdersAt(sd, x))
  BY <1>1, SumSame
<1> QED
  BY <1>2 DEF TotalIsSum, TotalIsSumNext

LEMMA TotalsKept ==
  ASSUME TypeOK, TotalsAddUp, UNCHANGED book,
         \A s \in Listed : RemainingNext[s] = Remaining[s]
  PROVE  TotalsAddUp'
<1> SUFFICES ASSUME NEW sd \in Sides, NEW x \in Levels(sd)
             PROVE  TotalIsSumNext(sd, x)
  BY TotalsPrimed DEF Levels
<1>1. OrdersNext(sd, x) = OrdersAt(sd, x)
  BY DEF OrdersNext, OrdersAt
<1>2. \A s \in OrdersAt(sd, x) : RemainingNext[s] = Remaining[s]
  BY OrdersAtFacts
<1> QED
  BY <1>1, <1>2, TotalKept DEF TotalsAddUp

\* The width of a Quantity only matters in the end.
LEMMA WidthKept ==
  ASSUME NEW n \in Nat, NEW q \in Nat
  PROVE  /\ Plus(n % QuantityModulus, q) = (n + q) % QuantityModulus
         /\ Minus(n % QuantityModulus, q) = (n - q) % QuantityModulus
<1>1. PICK b \in Nat \ {0} : b = QuantityModulus
  BY LimitsAssumption
<1>2. n \in Int /\ q \in Int
  OBVIOUS
<1>3. /\ ((n % b) + q) % b = (n + q) % b
      /\ ((n % b) - q) % b = (n - q) % b
  BY <1>2, RestOfSum, Zenon
<1> QED
  BY <1>1, <1>3 DEF Plus, Minus

\* A partial fill takes the same from the order as from the level's total.
LEMMA ReducedTotal ==
  ASSUME TypeOK, NEW sd \in Sides, NEW x \in Levels(sd), TotalIsSum(sd, x),
         NEW ptr \in OrdersAt(sd, x), NEW q \in Nat,
         Remaining[ptr] - q \in Nat,
         OrdersNext(sd, x) = OrdersAt(sd, x),
         book'[sd][x].total_quantity = Minus(book[sd][x].total_quantity, q),
         RemainingNext[ptr] = Remaining[ptr] - q,
         \A s \in OrdersAt(sd, x) \ {ptr} : RemainingNext[s] = Remaining[s]
  PROVE  TotalIsSumNext(sd, x)
<1>1. /\ IsFiniteSet(OrdersAt(sd, x)) /\ OrdersAt(sd, x) \subseteq Slots
      /\ \A s \in Slots : Remaining[s] \in Nat
      /\ QuantityModulus \in Nat \ {0}
  BY OrdersAtFacts, RemainingFacts
<1>2. PICK S : S = OrdersAt(sd, x)
  OBVIOUS
<1>3. /\ \A s \in S : Remaining[s] \in Nat /\ RemainingNext[s] \in Nat
      /\ \A s \in S \ {ptr} : Remaining[s] = RemainingNext[s]
      /\ IsFiniteSet(S) /\ ptr \in S
  BY <1>1, <1>2
<1>4. PICK n \in Nat : n = SumFunctionOnSet(Remaining, S)
  BY <1>1, <1>2, <1>3, SumType
<1>5. PICK n1 \in Nat : n1 = SumFunctionOnSet(RemainingNext, S)
  BY <1>1, <1>2, <1>3, SumType
<1>6. IsFiniteSet(S \ {ptr})
  BY <1>3, FS_RemoveElement
<1>7. PICK r \in Nat : r = SumFunctionOnSet(Remaining, S \ {ptr})
  BY <1>3, <1>6, SumType
<1>8. r = SumFunctionOnSet(RemainingNext, S \ {ptr})
  BY <1>3, <1>6, <1>7, SumSame
<1>9. n = Remaining[ptr] + r
  BY <1>3, <1>4, <1>7, SumRemove
<1>10. n1 = RemainingNext[ptr] + r
  BY <1>3, <1>5, <1>8, SumRemove
<1>11. n1 = n - q
  BY <1>3, <1>9, <1>10
<1>12. Minus(n % QuantityModulus, q) = (n - q) % QuantityModulus
  BY WidthKept
<1> QED
  BY <1>2, <1>4, <1>5, <1>11, <1>12 DEF TotalIsSum, TotalIsSumNext

\* An order that leaves takes what it still showed with it.
LEMMA RemovedTotal ==
  ASSUME TypeOK, NEW sd \in Sides, NEW x \in Levels(sd), TotalIsSum(sd, x),
         NEW ptr \in OrdersAt(sd, x), NEW q \in Nat, q = Remaining[ptr],
         OrdersNext(sd, x) = OrdersAt(sd, x) \ {ptr},
         book'[sd][x].total_quantity = Minus(book[sd][x].total_quantity, q),
         \A s \in OrdersAt(sd, x) \ {ptr} : RemainingNext[s] = Remaining[s]
  PROVE  TotalIsSumNext(sd, x)
<1>1. /\ IsFiniteSet(OrdersAt(sd, x)) /\ OrdersAt(sd, x) \subseteq Slots
      /\ \A s \in Slots : Remaining[s] \in Nat
      /\ QuantityModulus \in Nat \ {0}
  BY OrdersAtFacts, RemainingFacts
<1>2. PICK S : S = OrdersAt(sd, x)
  OBVIOUS
<1>3. \A s \in S : Remaining[s] \in Nat
  BY <1>1, <1>2
<1>4. IsFiniteSet(S \ {ptr})
  BY <1>1, <1>2, FS_RemoveElement
<1>5. PICK n \in Nat : n = SumFunctionOnSet(Remaining, S)
  BY <1>1, <1>2, <1>3, SumType
<1>6. PICK n1 \in Nat : n1 = SumFunctionOnSet(Remaining, S \ {ptr})
  BY <1>3, <1>4, SumType
<1>7. n = Remaining[ptr] + n1
  BY <1>1, <1>2, <1>3, <1>5, <1>6, SumRemove
<1>8. n1 = SumFunctionOnSet(RemainingNext, S \ {ptr})
  BY <1>2, <1>4, <1>6, SumSame
<1>9. n1 = n - q
  BY <1>7
<1>10. Minus(n % QuantityModulus, q) = (n - q) % QuantityModulus
  BY WidthKept
<1> QED
  BY <1>2, <1>5, <1>8, <1>9, <1>10 DEF TotalIsSum, TotalIsSumNext

\* An order that joins a level, or opens it, adds what it shows.
LEMMA AddedTotal ==
  ASSUME TypeOK, NEW sd, NEW x, NEW S, S \subseteq Slots, NEW total,
         total = SumFunctionOnSet(Remaining, S) % QuantityModulus,
         NEW ptr \in Slots \ S, NEW q \in Nat, q = Remaining[ptr],
         OrdersNext(sd, x) = S \cup {ptr},
         book'[sd][x].total_quantity = Plus(total, q),
         \A s \in Slots : RemainingNext[s] = Remaining[s]
  PROVE  TotalIsSumNext(sd, x)
<1>1. /\ \A s \in Slots : Remaining[s] \in Nat
      /\ QuantityModulus \in Nat \ {0}
      /\ IsFiniteSet(Slots)
  BY RemainingFacts
<1>2. IsFiniteSet(S) /\ IsFiniteSet(S \cup {ptr})
  BY <1>1, FS_Subset, FS_AddElement
<1>3. PICK n \in Nat : n = SumFunctionOnSet(Remaining, S)
  BY <1>1, <1>2, SumType
<1>4. SumFunctionOnSet(Remaining, S \cup {ptr}) = Remaining[ptr] + n
  BY <1>1, <1>2, <1>3, SumAdd
<1>5. SumFunctionOnSet(RemainingNext, S \cup {ptr})
        = SumFunctionOnSet(Remaining, S \cup {ptr})
  BY <1>2, SumSame
<1>6. SumFunctionOnSet(RemainingNext, S \cup {ptr}) = n + q
  BY <1>4, <1>5
<1>7. Plus(n % QuantityModulus, q) = (n + q) % QuantityModulus
  BY WidthKept
<1> QED
  BY <1>3, <1>6, <1>7 DEF TotalIsSumNext

\* What the operations on levels do to the running totals.
TotalMoves(side, p, total) ==
  \A sd \in Sides : \A x \in DOMAIN book'[sd] :
    book'[sd][x].total_quantity =
      IF sd = side /\ x = p THEN total ELSE book[sd][x].total_quantity

LEMMA ReduceMoves ==
  ASSUME TypeOK, NEW side \in Sides, NEW p \in Levels(side), NEW q \in Nat,
         book' = ReduceLevel(side, p, q)
  PROVE  TotalMoves(side, p, Minus(book[side][p].total_quantity, q))
<1>1. PICK level : level = [book[side][p] EXCEPT !.total_quantity = Minus(@, q)]
  OBVIOUS
<1>2. level.total_quantity = Minus(book[side][p].total_quantity, q)
  BY <1>1 DEF TypeOK, Level
<1>3. /\ book'[side] = [x \in Levels(side) \cup {p} |->
                          IF x = p THEN level ELSE book[side][x]]
      /\ \A sd \in Sides \ {side} : book'[sd] = book[sd]
  BY <1>1 DEF ReduceLevel, WithLevel, TypeOK
<1> QED
  BY <1>2, <1>3 DEF TotalMoves

LEMMA RemoveMoves ==
  ASSUME TypeOK, NEW side \in Sides, NEW p \in Levels(side), NEW ptr,
         NEW q \in Nat, book' = RemoveFromPriceLevel(side, p, ptr, q)
  PROVE  TotalMoves(side, p, Minus(book[side][p].total_quantity, q))
<1>1. PICK left : left = Remove(book[side][p].orders, ptr)
  OBVIOUS
<1>2. DOMAIN book = Sides
  BY DEF TypeOK
<1>3. CASE left = << >>
  <2>1. book' = WithoutLevel(side, p)
    BY <1>1, <1>3 DEF RemoveFromPriceLevel
  <2>2. /\ book'[side] = [x \in Levels(side) \ {p} |-> book[side][x]]
        /\ \A sd \in Sides \ {side} : book'[sd] = book[sd]
    BY <1>2, <2>1 DEF WithoutLevel
  <2> QED
    BY <2>2 DEF TotalMoves
<1>4. CASE left # << >>
  <2>1. PICK level :
          level = [orders |-> left,
                   total_quantity |-> Minus(book[side][p].total_quantity, q)]
    OBVIOUS
  <2>2. level.total_quantity = Minus(book[side][p].total_quantity, q)
    BY <2>1
  <2>3. book' = WithLevel(side, p, level)
    BY <1>1, <1>4, <2>1 DEF RemoveFromPriceLevel
  <2>4. /\ book'[side] = [x \in Levels(side) \cup {p} |->
                            IF x = p THEN level ELSE book[side][x]]
        /\ \A sd \in Sides \ {side} : book'[sd] = book[sd]
    BY <1>2, <2>3 DEF WithLevel
  <2> QED
    BY <2>2, <2>4 DEF TotalMoves
<1> QED
  BY <1>3, <1>4

LEMMA AddMoves ==
  ASSUME TypeOK, NEW ptr \in Slots, NEW o, o.side \in Sides,
         book' = AddToPriceLevel(ptr, o)
  PROVE  TotalMoves(o.side, o.price,
           Plus(IF o.price \in Levels(o.side)
                  THEN book[o.side][o.price].total_quantity ELSE 0,
                o.quantity))
<1>1. PICK level : level = IF o.price \in Levels(o.side)
                           THEN book[o.side][o.price]
                           ELSE [orders |-> << >>, total_quantity |-> 0]
  OBVIOUS
<1>2. PICK new : new = [orders |-> Append(level.orders, ptr),
                        total_quantity |-> Plus(level.total_quantity, o.quantity)]
  OBVIOUS
<1>3. new.total_quantity = Plus(level.total_quantity, o.quantity)
  BY <1>2
<1>4. level.total_quantity = IF o.price \in Levels(o.side)
                             THEN book[o.side][o.price].total_quantity ELSE 0
  BY <1>1
<1>5. book' = WithLevel(o.side, o.price, new)
  BY <1>1, <1>2 DEF AddToPriceLevel
<1>6. /\ book'[o.side] = [x \in Levels(o.side) \cup {o.price} |->
                            IF x = o.price THEN new ELSE book[o.side][x]]
      /\ \A sd \in Sides \ {o.side} : book'[sd] = book[sd]
  BY <1>5 DEF WithLevel, TypeOK
<1> QED
  BY <1>3, <1>4, <1>6 DEF TotalMoves

\* A partial fill keeps the totals right.
LEMMA PartialTotals ==
  ASSUME StepInv, TotalsAddUp, SettlePartial
  PROVE  TotalsAddUp'
<1>1. TypeOK /\ InCallback /\ ~Idle
  BY DEF StepInv, BookInv, CallInv, SettlePartial, InCallback, Idle
<1>2. PICK ptr, tk, q : ptr = call.maker /\ tk = call.taker /\ q = call.quantity
  OBVIOUS
<1>3. PICK side \in Sides : side = Maker.side
  BY <1>1, CallbackFacts
<1>4. PICK p \in Levels(side) : p = call.level
  BY <1>1, <1>3, CallbackFacts
<1>5. /\ ptr \in Slots /\ tk \in Slots /\ ptr # tk /\ mem[ptr] # NoOrder
      /\ Linked(ptr, side, p) /\ mem[ptr].side = side /\ mem[ptr].price = p
      /\ q \in Nat /\ mem[ptr].quantity \in Nat /\ q <= mem[ptr].quantity
  BY <1>1, <1>2, <1>3, <1>4, CallbackFacts, TakerFacts DEF Maker
<1>6. SettleStep(tk, ptr, q)
  BY <1>2, SettleEffect
<1>7. book' = ReduceLevel(side, p, q) /\ mem[ptr].quantity # q
  BY <1>2, <1>3, <1>4 DEF SettlePartial, Maker
<1>8. /\ \A s \in Slots \ {tk, ptr} : mem'[s] = mem[s]
      /\ mem'[ptr] = [mem[ptr] EXCEPT !.quantity = @ - q]
      /\ Live' = Live /\ tk \notin Listed
  BY <1>1, <1>2, <1>6, <1>7, ListedFacts DEF SettleStep, StepInv, BookInv, CallInv
<1>9. /\ \A s \in Slots \ {tk, ptr} : RemainingNext[s] = Remaining[s]
      /\ RemainingNext[ptr] = Remaining[ptr] - q
      /\ Remaining[ptr] - q \in Nat
  <2>1. \A s \in Slots \ {tk, ptr} : RemainingNext[s] = Remaining[s]
    BY <1>8 DEF Remaining, RemainingNext
  <2>2. mem'[ptr].quantity = mem[ptr].quantity - q /\ mem'[ptr] # NoOrder
    <3>1. mem[ptr] \in Order
      BY <1>1, <1>5, OrderFacts
    <3>2. mem'[ptr].quantity = mem[ptr].quantity - q
      BY <1>8, <3>1 DEF Order
    <3>3. ptr \in Live'
      BY <1>5, <1>8, SlotFacts
    <3> QED
      BY <3>2, <3>3 DEF Live
  <2> QED
    BY <1>5, <2>1, <2>2 DEF Remaining, RemainingNext
<1>10. ListsKept /\ TotalMoves(side, p, Minus(book[side][p].total_quantity, q))
  BY <1>1, <1>5, <1>7, ReduceKeepsLists, ReduceMoves
<1>11. ASSUME NEW sd \in Sides, NEW x \in DOMAIN book'[sd]
       PROVE  TotalIsSumNext(sd, x)
  <2>1. x \in Levels(sd) /\ OrdersNext(sd, x) = OrdersAt(sd, x)
    BY <1>10 DEF ListsKept, OrdersNext, OrdersAt
  <2>2. TotalIsSum(sd, x)
    BY <2>1 DEF TotalsAddUp
  <2>3. /\ OrdersAt(sd, x) \subseteq Listed /\ OrdersAt(sd, x) \subseteq Slots
        /\ \A s : s \in OrdersAt(sd, x) <=> Linked(s, sd, x)
    BY <1>1, <2>1, OrdersAtFacts
  <2>4. CASE sd = side /\ x = p
    <3>1. ptr \in OrdersAt(sd, x)
      BY <1>5, <2>3, <2>4
    <3>2. book'[sd][x].total_quantity = Minus(book[sd][x].total_quantity, q)
      BY <1>10, <1>11, <2>4 DEF TotalMoves
    <3>3. \A s \in OrdersAt(sd, x) \ {ptr} : RemainingNext[s] = Remaining[s]
      BY <1>8, <1>9, <2>3
    <3> QED
      BY <1>1, <1>5, <1>9, <2>1, <2>2, <3>1, <3>2, <3>3, ReducedTotal
  <2>5. CASE ~(sd = side /\ x = p)
    <3>1. ptr \notin OrdersAt(sd, x)
      <4> SUFFICES ASSUME Linked(ptr, sd, x)
                   PROVE  FALSE
        BY <2>3
      <4>1. mem[ptr].side = sd /\ mem[ptr].price = x
        BY <2>1 DEF StepInv, BookInv, CallInv, ListedAreLive, Linked
      <4> QED
        BY <1>5, <2>5, <4>1
    <3>2. book'[sd][x].total_quantity = book[sd][x].total_quantity
      BY <1>10, <1>11, <2>5 DEF TotalMoves
    <3>3. \A s \in OrdersAt(sd, x) : RemainingNext[s] = Remaining[s]
      BY <1>8, <1>9, <2>3, <3>1
    <3> QED
      BY <1>1, <2>1, <2>2, <3>2, <3>3, TotalKept
  <2> QED
    BY <2>4, <2>5
<1> QED
  BY <1>11, TotalsPrimed

\* So does an order that leaves its level with all it shows there: a filled
\* maker, or a cancelled order.
LEMMA RemovedTotals ==
  ASSUME StepInv, TotalsAddUp, NEW side \in Sides, NEW p \in Levels(side),
         NEW ptr \in Slots, Linked(ptr, side, p),
         book' = RemoveFromPriceLevel(side, p, ptr, mem[ptr].quantity),
         \A s \in Listed \ {ptr} : RemainingNext[s] = Remaining[s]
  PROVE  TotalsAddUp'
<1>1. /\ TypeOK /\ mem[ptr] # NoOrder
      /\ mem[ptr].side = side /\ mem[ptr].price = p
  BY DEF StepInv, BookInv, CallInv, ListedAreLive, Linked
<1>2. PICK q \in Nat : q = mem[ptr].quantity /\ q = Remaining[ptr]
  BY <1>1, OrderFacts, RemainingFacts
<1>3. /\ Unlinked(ptr)
      /\ TotalMoves(side, p, Minus(book[side][p].total_quantity, q))
  BY <1>1, <1>2, RemoveUnlinks, RemoveMoves
<1>4. ASSUME NEW sd \in Sides, NEW x \in DOMAIN book'[sd]
      PROVE  TotalIsSumNext(sd, x)
  <2>1. x \in Levels(sd)
    BY <1>3 DEF Unlinked, Survivors
  <2>2. /\ OrdersAt(sd, x) \subseteq Listed
        /\ \A s : s \in OrdersAt(sd, x) <=> Linked(s, sd, x)
    BY <1>1, <2>1, OrdersAtFacts
  <2>3. OrdersNext(sd, x) = OrdersAt(sd, x) \ {ptr}
    <3>1. \A s : s \in OrdersNext(sd, x) <=> LinkedNext(s, sd, x)
      BY OrdersNextMeans
    <3>2. \A s : LinkedNext(s, sd, x) => s # ptr /\ Linked(s, sd, x)
      BY <1>3 DEF Unlinked, Survivors, LinkedNext
    <3>3. \A s : Linked(s, sd, x) /\ s # ptr => LinkedNext(s, sd, x)
      BY SMTT(20), <1>3, <2>1 DEF Unlinked, Others, Linked, LinkedNext
    <3> QED
      BY <2>2, <3>1, <3>2, <3>3
  <2>4. TotalIsSum(sd, x)
    BY <2>1 DEF TotalsAddUp
  <2>5. \A s \in OrdersAt(sd, x) \ {ptr} : RemainingNext[s] = Remaining[s]
    BY <2>2
  <2>6. CASE sd = side /\ x = p
    <3>1. ptr \in OrdersAt(sd, x)
      BY <2>2, <2>6
    <3>2. book'[sd][x].total_quantity = Minus(book[sd][x].total_quantity, q)
      BY <1>3, <1>4, <2>6 DEF TotalMoves
    <3> QED
      BY <1>1, <1>2, <2>1, <2>3, <2>4, <2>5, <3>1, <3>2, RemovedTotal
  <2>7. CASE ~(sd = side /\ x = p)
    <3>1. ptr \notin OrdersAt(sd, x)
      <4> SUFFICES ASSUME Linked(ptr, sd, x)
                   PROVE  FALSE
        BY <2>2
      <4>1. mem[ptr].side = sd /\ mem[ptr].price = x
        BY <2>1 DEF StepInv, BookInv, CallInv, ListedAreLive, Linked
      <4> QED
        BY <1>1, <2>7, <4>1
    <3>2. book'[sd][x].total_quantity = book[sd][x].total_quantity
      BY <1>3, <1>4, <2>7 DEF TotalMoves
    <3>3. /\ OrdersNext(sd, x) = OrdersAt(sd, x)
          /\ \A s \in OrdersAt(sd, x) : RemainingNext[s] = Remaining[s]
      BY <2>3, <2>5, <3>1
    <3> QED
      BY <1>1, <2>1, <2>4, <3>2, <3>3, TotalKept
  <2> QED
    BY <2>6, <2>7
<1> QED
  BY <1>4, TotalsPrimed

\* And a taker that comes to rest.
LEMMA RestedTotals ==
  ASSUME StepInv, TotalsAddUp, RestStep(call.taker),
         book' = AddToPriceLevel(call.taker, Taker)
  PROVE  TotalsAddUp'
<1>1. TypeOK /\ ~Idle /\ UNCHANGED mem
  BY DEF StepInv, BookInv, CallInv, RestStep
<1>2. PICK ptr \in Slots : ptr = call.taker
  BY <1>1, TakerFacts
<1>3. PICK side \in Sides : side = Taker.side
  BY <1>1, TakerFacts
<1>4. PICK p \in Prices : p = Taker.price
  BY <1>1, TakerFacts
<1>5. PICK q \in Nat : q = Taker.quantity /\ q = Remaining[ptr]
  BY <1>1, <1>2, TakerFacts, RemainingFacts DEF Taker
<1>6. PICK total : total = IF p \in Levels(side)
                           THEN book[side][p].total_quantity ELSE 0
  OBVIOUS
<1>7. TotalMoves(side, p, Plus(total, q))
  BY <1>1, <1>2, <1>3, <1>4, <1>5, <1>6, AddMoves
<1>8. LinkedLast(ptr, side, p) /\ ptr \notin Listed
  BY <1>2, <1>3, <1>4 DEF RestStep
<1>9. \A s \in Slots : RemainingNext[s] = Remaining[s]
  BY <1>1 DEF Remaining, RemainingNext
<1>10. PICK S : S = IF p \in Levels(side) THEN OrdersAt(side, p) ELSE {}
  OBVIOUS
<1>11. S \subseteq Slots /\ ptr \notin S
  BY <1>1, <1>8, <1>10, OrdersAtFacts
<1>12. total = SumFunctionOnSet(Remaining, S) % QuantityModulus
  <2>1. CASE p \in Levels(side)
    BY <1>6, <1>10, <2>1 DEF TotalsAddUp, TotalIsSum
  <2>2. CASE p \notin Levels(side)
    <3>1. SumFunctionOnSet(Remaining, S) = 0
      BY <1>10, <2>2, SumEmpty
    <3>2. 0 % QuantityModulus = 0
      BY RemainingFacts, <1>1
    <3> QED
      BY <1>6, <2>2, <3>1, <3>2
  <2> QED
    BY <2>1, <2>2
<1>13. OrdersNext(side, p) = S \cup {ptr}
  <2>1. PICK list \in Seq(Slots) :
          /\ book'[side][p].orders = Append(list, ptr)
          /\ p \in Levels(side) => list = book[side][p].orders
          /\ p \notin Levels(side) => list = << >>
    BY <1>8 DEF LinkedLast
  <2>2. S = {list[i] : i \in 1 .. Len(list)}
    BY <1>10, <2>1 DEF OrdersAt
  <2>3. /\ Len(Append(list, ptr)) = Len(list) + 1 /\ Len(list) \in Nat
        /\ Append(list, ptr)[Len(list) + 1] = ptr
        /\ \A i \in 1 .. Len(list) : Append(list, ptr)[i] = list[i]
    BY <2>1
  <2> QED
    BY <2>1, <2>2, <2>3 DEF OrdersNext
<1>14. ASSUME NEW sd \in Sides, NEW x \in DOMAIN book'[sd]
       PROVE  TotalIsSumNext(sd, x)
  <2>1. CASE sd = side /\ x = p
    <3>1. book'[sd][x].total_quantity = Plus(total, q)
      BY <1>7, <1>14, <2>1 DEF TotalMoves
    <3> QED
      BY <1>1, <1>5, <1>9, <1>11, <1>12, <1>13, <2>1, <3>1, AddedTotal
  <2>2. CASE ~(sd = side /\ x = p)
    <3>1. x \in Levels(sd) /\ book'[sd][x] = book[sd][x]
      BY <1>8, <2>2 DEF LinkedLast, Levels
    <3>2. OrdersNext(sd, x) = OrdersAt(sd, x)
      BY <3>1 DEF OrdersNext, OrdersAt
    <3>3. \A s \in OrdersAt(sd, x) : RemainingNext[s] = Remaining[s]
      BY <1>1, <1>9, <3>1, OrdersAtFacts
    <3>4. TotalIsSum(sd, x)
      BY <3>1 DEF TotalsAddUp
    <3> QED
      BY <1>1, <3>1, <3>2, <3>3, <3>4, TotalKept
  <2> QED
    BY <2>1, <2>2
<1> QED
  BY <1>14, TotalsPrimed

LEMMA TotalsStep ==
  ASSUME StepInv, TotalsAddUp, [Next]_vars
  PROVE  TotalsAddUp'
<1>1. TypeOK
  BY DEF StepInv, BookInv, CallInv
<1>2. \A s \in Listed : /\ s \in Slots /\ s \in Live /\ mem[s] # NoOrder
                        /\ mem[s] \in Order
                        /\ ~Idle => s # call.taker
  BY <1>1, ListedFacts, OrderFacts
<1>3. ASSUME UNCHANGED <<book, mem>>
      PROVE  TotalsAddUp'
  <2>1. \A s \in Listed : RemainingNext[s] = Remaining[s]
    BY <1>2, <1>3 DEF Remaining, RemainingNext
  <2> QED
    BY <1>1, <1>3, <2>1, TotalsKept
<1>4. ASSUME NEW r \in Requests, AddAccepted(r)
      PROVE  TotalsAddUp'
  <2>1. PICK ptr : AcceptStep(r, ptr)
    BY <1>4, AcceptEffect
  <2>2. \A s \in Listed : RemainingNext[s] = Remaining[s]
    BY <1>2, <2>1 DEF AcceptStep, Remaining, RemainingNext
  <2>3. UNCHANGED book
    BY <2>1 DEF AcceptStep
  <2> QED
    BY <1>1, <2>2, <2>3, TotalsKept
<1>5. CASE ExecuteTrade
  <2>1. PICK ptr \in Slots, q \in Nat : ReportStep(ptr, q)
    BY <1>5, ReportEffect
  <2>2. ASSUME NEW s \in Listed
        PROVE  RemainingNext[s] = Remaining[s]
    <3>1. mem'[s] = mem[s] \/ mem'[s] = [mem[s] EXCEPT !.reported = @ + q]
      BY <1>2, <2>1 DEF ReportStep
    <3>2. mem'[s] # NoOrder
      <4>1. s \in Live'
        BY <1>2, <2>1 DEF ReportStep
      <4> QED
        BY <4>1 DEF Live
    <3>3. mem'[s].quantity = mem[s].quantity
      BY <1>2, <3>1 DEF Order
    <3> QED
      BY <1>2, <3>2, <3>3 DEF Remaining, RemainingNext
  <2>3. UNCHANGED book
    BY <2>1 DEF ReportStep
  <2> QED
    BY <1>1, <2>2, <2>3, TotalsKept
<1>6. CASE SettlePartial
  BY <1>6, PartialTotals
<1>7. CASE SettleFilled
  <2>1. PICK ptr, tk : ptr = call.maker /\ tk = call.taker
    OBVIOUS
  <2>2. InCallback /\ ~Idle
    BY <1>7 DEF SettleFilled, InCallback, Idle
  <2>3. PICK side \in Sides : side = Maker.side
    BY <2>2, CallbackFacts
  <2>4. PICK p \in Levels(side) : p = call.level
    BY <2>2, <2>3, CallbackFacts
  <2>5. /\ ptr \in Slots /\ Linked(ptr, side, p)
        /\ mem[ptr].quantity = call.quantity
        /\ book' = RemoveFromPriceLevel(side, p, ptr, mem[ptr].quantity)
    BY <1>7, <2>1, <2>2, <2>3, <2>4, CallbackFacts DEF SettleFilled, Maker
  <2>6. SettleStep(tk, ptr, call.quantity)
    BY <1>7, <2>1, SettleEffect
  <2>7. \A s \in Listed \ {ptr} : RemainingNext[s] = Remaining[s]
    BY <1>2, <2>1, <2>2, <2>6 DEF SettleStep, Remaining, RemainingNext
  <2> QED
    BY <2>5, <2>7, RemovedTotals
<1>8. ASSUME CannotTrade, call' = IdleCall,
             book' = AddToPriceLevel(call.taker, Taker),
             UNCHANGED <<free_list, mem, now>>
      PROVE  TotalsAddUp'
  BY <1>8, RestEffect, RestedTotals
<1>9. CASE Filled
  <2>1. FilledStep(call.taker)
    BY <1>9, FilledEffect DEF Filled
  <2>2. \A s \in Listed : RemainingNext[s] = Remaining[s]
    BY <1>2, <2>1 DEF FilledStep, Remaining, RemainingNext
  <2>3. UNCHANGED book
    BY <2>1 DEF FilledStep
  <2> QED
    BY <1>1, <2>2, <2>3, TotalsKept
<1>10. CASE Throw
  <2>1. UNCHANGED <<free_list, mem, now>> /\ call' = IdleCall
    BY <1>10 DEF Throw
  <2>2. \/ UNCHANGED book
        \/ CannotTrade /\ book' = AddToPriceLevel(call.taker, Taker)
    BY <1>10 DEF Throw
  <2> QED
    BY <1>3, <1>8, <2>1, <2>2
<1>11. ASSUME NEW id \in OrderIDs, CancelOrder(id)
       PROVE  TotalsAddUp'
  <2>1. PICK ptr : ptr = order_map[id]
    OBVIOUS
  <2>2. CancelStep(id, ptr)
    BY <1>11, <2>1, CancelEffect
  <2>3. /\ ptr \in Listed
        /\ \A s \in Slots : mem'[s] = IF s = ptr THEN NoOrder ELSE mem[s]
    BY <2>2 DEF CancelStep
  <2>4. PICK side \in Sides : side = mem[ptr].side
    BY <2>3, ListedFacts
  <2>5. PICK p \in Levels(side) : p = mem[ptr].price
    BY <2>3, <2>4, ListedFacts
  <2>6. Linked(ptr, side, p)
    BY <2>3, <2>4, <2>5, ListedFacts
  <2>7. book' = RemoveFromPriceLevel(side, p, ptr, mem[ptr].quantity)
    BY <1>11, <2>1, <2>4, <2>5 DEF CancelOrder
  <2>8. \A s \in Listed \ {ptr} : RemainingNext[s] = Remaining[s]
    BY <1>2, <2>3 DEF Remaining, RemainingNext
  <2> QED
    BY <1>2, <2>3, <2>6, <2>7, <2>8, RemovedTotals
<1>12. ASSUME NEW id \in OrderIDs, CancelNotFound(id)
       PROVE  TotalsAddUp'
  BY <1>3, <1>12 DEF CancelNotFound
<1>13. ASSUME NEW r \in Requests, AddRejected(r)
       PROVE  TotalsAddUp'
  BY <1>3, <1>13 DEF AddRejected
<1>14. CASE Rest
  BY <1>8, <1>14 DEF Rest
<1>15. CASE UNCHANGED vars
  BY <1>3, <1>15 DEF vars
<1> QED
  BY <1>4, <1>5, <1>6, <1>7, <1>9, <1>10, <1>11, <1>12, <1>13, <1>14, <1>15
     DEF Next, Engine

\* A running total is right whatever throws: a lost order has left its level's
\* list and total alike, or neither.
LEMMA TotalsInvariant == Spec => []TotalsAddUp
<1>1. Init => TotalsAddUp
  BY DEF Init, TotalsAddUp, Levels
<1>2. StepInv /\ TotalsAddUp /\ [Next]_vars => TotalsAddUp'
  BY TotalsStep
<1> QED
  BY <1>1, <1>2, StepInvariance, PTL DEF Spec

\* The orders a client should see at a price are those of the level there.
LEMMA RestingAtLevel ==
  ASSUME StepInv, ListedAreIndexed, NEW side \in Sides, NEW p \in Prices
  PROVE  RestingAt(side, p) =
           IF p \in Levels(side) THEN OrdersAt(side, p) ELSE {}
<1>1. TypeOK /\ Indexed = Listed
  BY IndexedIsListed DEF StepInv, BookInv, CallInv
<1>2. ASSUME NEW s \in Listed, mem[s].side = side, mem[s].price = p
      PROVE  p \in Levels(side) /\ Linked(s, side, p)
  BY <1>2, ListedFacts
<1>3. ASSUME p \in Levels(side), NEW s, Linked(s, side, p)
      PROVE  s \in Listed /\ mem[s].side = side /\ mem[s].price = p
  BY <1>3, ListedMeans DEF StepInv, BookInv, CallInv, ListedAreLive, Linked
<1>4. p \in Levels(side) =>
        \A s : s \in OrdersAt(side, p) <=> Linked(s, side, p)
  BY <1>1, OrdersAtFacts
<1>5. CASE p \in Levels(side)
  <2>1. \A s : s \in RestingAt(side, p) <=> s \in OrdersAt(side, p)
    BY <1>1, <1>2, <1>3, <1>4, <1>5 DEF RestingAt
  <2> QED
    BY <1>5, <2>1
<1>6. CASE p \notin Levels(side)
  BY <1>1, <1>2, <1>6 DEF RestingAt
<1> QED
  BY <1>5, <1>6

LEMMA QuantityIsShown ==
  ASSUME StepInv, ListedAreIndexed, TotalsAddUp,
         NEW side \in Sides, NEW p \in Prices
  PROVE  GetQuantityAtPrice(p, side)
           = QuantityResting(side, p) % QuantityModulus
<1>1. TypeOK
  BY DEF StepInv, BookInv, CallInv
<1>2. PICK S : S = RestingAt(side, p)
  OBVIOUS
<1>3. S = IF p \in Levels(side) THEN OrdersAt(side, p) ELSE {}
  BY <1>2, RestingAtLevel
<1>4. QuantityResting(side, p)
        = SumFunctionOnSet([s \in S |-> mem[s].quantity], S)
  BY <1>2 DEF QuantityResting, SumFunction
<1>5. CASE p \in Levels(side)
  <2>1. S = OrdersAt(side, p) /\ IsFiniteSet(S) /\ S \subseteq Listed
    BY <1>1, <1>3, <1>5, OrdersAtFacts
  <2>2. \A s \in S : [t \in S |-> mem[t].quantity][s] = Remaining[s]
    BY <1>1, <2>1, ListedFacts, RemainingFacts
  <2>3. SumFunctionOnSet([s \in S |-> mem[s].quantity], S)
          = SumFunctionOnSet(Remaining, S)
    BY <2>1, <2>2, SumSame
  <2> QED
    BY <1>4, <1>5, <2>1, <2>3 DEF TotalsAddUp, TotalIsSum, GetQuantityAtPrice
<1>6. CASE p \notin Levels(side)
  <2>1. QuantityResting(side, p) = 0
    BY <1>3, <1>4, <1>6, SumEmpty
  <2>2. 0 % QuantityModulus = 0
    BY <1>1, RemainingFacts
  <2> QED
    BY <1>6, <2>1, <2>2 DEF GetQuantityAtPrice
<1> QED
  BY <1>5, <1>6

LEMMA ShownToClients ==
  ASSUME StepInv, ListedAreIndexed, TotalsAddUp
  PROVE  QueriesShowRestingOrders
<1>1. TypeOK /\ Indexed = Listed /\ NoEmptyLevel
  BY IndexedIsListed DEF StepInv, BookInv, CallInv
<1>2. ASSUME NEW side \in Sides
      PROVE  LET used == {mem[s].price :
                            s \in {t \in Indexed : mem[t].side = side}}
             IN  /\ GetDepth(side) = Cardinality(used)
                 /\ IF used = {} THEN GetBest(side) = 0
                    ELSE /\ GetBest(side) \in used
                         /\ \A p \in used :
                              AtLeastAsGood(side, GetBest(side), p)
  <2> DEFINE used == {mem[s].price : s \in {t \in Indexed : mem[t].side = side}}
  <2>1. ASSUME NEW p \in used
        PROVE  p \in Levels(side)
    BY <1>1, ListedFacts
  <2>2. ASSUME NEW p \in Levels(side)
        PROVE  p \in used
    <3>1. PICK s : s = Head(book[side][p].orders)
      OBVIOUS
    <3>2. /\ Linked(s, side, p)
          /\ mem[s].side = side /\ mem[s].price = p
      BY <3>1, FrontFacts
    <3>3. s \in Indexed
      BY <1>1, <3>2, ListedMeans
    <3> QED
      BY <3>2, <3>3
  <2>3. used = Levels(side)
    BY <2>1, <2>2
  <2>4. Levels(side) # {} => IsBest(side, GetBest(side))
    BY <1>1, BestExists DEF GetBest
  <2> HIDE DEF used
  <2> QED
    BY <2>3, <2>4 DEF GetDepth, GetBest, IsBest, used
<1> QED
  BY <1>2, QuantityIsShown DEF QueriesShowRestingOrders

\* Clients are shown what rests: the quantity at every price, the depth and
\* the best prices are those of the orders order_map_ holds, also in the
\* middle of a match and whatever the callback or a new level throws.  Only
\* an exception of order_map_ leaves an order on show that no client can
\* cancel (OrderBook.cpp:64-77, 113-140).
THEOREM ClientsSeeRestingOrders ==
  "index" \notin Throws => (Spec => []QueriesShowRestingOrders)
<1> SUFFICES ASSUME "index" \notin Throws
             PROVE  Spec => []QueriesShowRestingOrders
  OBVIOUS
<1>1. Spec => []ListedAreIndexed
  BY ListedStayIndexed
<1>2. StepInv /\ ListedAreIndexed /\ TotalsAddUp => QueriesShowRestingOrders
  BY ShownToClients
<1> QED
  BY <1>1, <1>2, StepInvariance, TotalsInvariant, PTL

=============================================================================
