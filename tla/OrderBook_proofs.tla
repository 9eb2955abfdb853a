-------------------------- MODULE OrderBook_proofs --------------------------
(***************************************************************************)
(* Proofs about the matching engine, for every capacity, every set of      *)
(* requests and limits, and whatever may throw.                            *)
(***************************************************************************)
EXTENDS OrderBook, NumberLemmas

-----------------------------------------------------------------------------
(***************************************************************************)
(* The inductive invariant of a step.  It says less of the running call    *)
(* than EngineInv does: nothing about a better level than the maker's or   *)
(* an order younger than the taker, both of which there are when callbacks *)
(* add orders (OrderBookReentrant.tla).                                    *)
(***************************************************************************)
\* Every order was accepted before the clock's next tick.
AcceptedBefore == \A s \in Live : mem[s].timestamp < now

\* The trade the callback is told of can still be settled.
MakerInFront ==
  InCallback =>
    /\ Taker # NoOrder /\ Maker # NoOrder
    /\ Maker.side = Opposite(Taker.side)
    /\ call.level \in Levels(Maker.side)
    /\ Head(book[Maker.side][call.level].orders) = call.maker
    /\ Crosses(Taker.side, Taker.price, call.level)
    /\ call.quantity \in {Maker.quantity, Taker.quantity}
    /\ call.quantity <= Maker.quantity /\ call.quantity <= Taker.quantity

\* Where the taker comes to rest it is the youngest.
TakerComesLast ==
  ~Idle => \A s \in Slots : \A p \in Levels(Taker.side) :
    p = Taker.price /\ Linked(s, Taker.side, p)
      => mem[s].timestamp < Taker.timestamp

BookInv ==
  /\ TypeOK
  /\ Pool!PoolPartition
  /\ ListedAreLive
  /\ IndexedAreListed
  /\ TimePriority
  /\ NoEmptyLevel
  /\ NotCrossed
  /\ AcceptedBefore

CallInv ==
  /\ MakerInFront
  /\ TakerIsPrivate
  /\ TakerComesLast

StepInv == BookInv /\ CallInv

-----------------------------------------------------------------------------
(***************************************************************************)
(* Constants, lists and levels.                                            *)
(***************************************************************************)
LEMMA SlotFacts ==
  /\ POOL_CAPACITY \in Nat
  /\ Slots = 1 .. POOL_CAPACITY
  /\ Null = 0
  /\ Null \notin Slots
  /\ Live = {s \in Slots : mem[s] # NoOrder}
BY OrderBookAssumption DEF Slots, Null, Pool!Slots, Pool!Null, Live

LEMMA SideFacts ==
  /\ "BUY" \in Sides /\ "SELL" \in Sides
  /\ \A side \in Sides : /\ Opposite(side) \in Sides
                         /\ Opposite(side) # side
                         /\ Opposite(Opposite(side)) = side
BY DEF Sides, Opposite

LEMMA QuantityFacts ==
  ASSUME NEW x \in Nat, NEW y \in Nat
  PROVE  /\ Plus(x, y) \in 0 .. QuantityModulus - 1
         /\ Minus(x, y) \in 0 .. QuantityModulus - 1
BY LimitsAssumption DEF Plus, Minus

\* What IntrusiveList::remove does to a list that holds the order once.
LEMMA RemoveProperties ==
  ASSUME NEW S, NEW list \in Seq(S), NEW at \in 1 .. Len(list), NEW ptr,
         \A i \in 1 .. Len(list) : list[i] = ptr <=> i = at
  PROVE  /\ Remove(list, ptr) \in Seq(S)
         /\ Len(Remove(list, ptr)) = Len(list) - 1
         /\ \A i \in 1 .. at - 1 : Remove(list, ptr)[i] = list[i]
         /\ \A i \in at .. Len(list) - 1 : Remove(list, ptr)[i] = list[i + 1]
<1>1. at = CHOOSE i \in 1 .. Len(list) : list[i] = ptr
  OBVIOUS
<1>2. Remove(list, ptr)
        = [i \in 1 .. Len(list) - 1 |-> list[IF i < at THEN i ELSE i + 1]]
  BY <1>1 DEF Remove
<1>3. Len(list) - 1 \in Nat
  OBVIOUS
<1>4. \A i \in 1 .. Len(list) - 1 :
        list[IF i < at THEN i ELSE i + 1] \in S
  OBVIOUS
<1> QED
  BY <1>2, <1>3, <1>4

\* The others stay, in the same order.
KeepsOthers(list, left, ptr) ==
  /\ \A i \in 1 .. Len(left) :
       /\ left[i] # ptr
       /\ \E k \in 1 .. Len(list) : list[k] = left[i]
  /\ \A i, j \in 1 .. Len(left) : i < j =>
       \E k, l \in 1 .. Len(list) :
         k < l /\ left[i] = list[k] /\ left[j] = list[l]
  /\ \A k \in 1 .. Len(list) : list[k] # ptr =>
       \E i \in 1 .. Len(left) : left[i] = list[k]
  /\ list[1] # ptr => left # << >> /\ Head(left) = Head(list)

LEMMA RemoveKeepsOthers ==
  ASSUME NEW S, NEW list \in Seq(S), NEW at \in 1 .. Len(list), NEW ptr,
         \A i \in 1 .. Len(list) : list[i] = ptr <=> i = at
  PROVE  KeepsOthers(list, Remove(list, ptr), ptr)
<1>a. /\ Remove(list, ptr) \in Seq(S)
      /\ Len(Remove(list, ptr)) = Len(list) - 1
      /\ \A i \in 1 .. at - 1 : Remove(list, ptr)[i] = list[i]
      /\ \A i \in at .. Len(list) - 1 : Remove(list, ptr)[i] = list[i + 1]
  BY RemoveProperties
<1>b. PICK left : left = Remove(list, ptr)
  OBVIOUS
<1>1. /\ left \in Seq(S)
      /\ Len(list) \in Nat
      /\ Len(left) = Len(list) - 1
      /\ \A i \in 1 .. at - 1 : left[i] = list[i]
      /\ \A i \in at .. Len(list) - 1 : left[i] = list[i + 1]
  BY <1>a, <1>b
<1>2. ASSUME NEW i \in 1 .. Len(left)
      PROVE  \E k \in 1 .. Len(list) : k # at /\ left[i] = list[k]
  <2>1. CASE i < at
    BY <1>1, <2>1
  <2>2. CASE i >= at
    <3>1. /\ i + 1 \in 1 .. Len(list)
          /\ i + 1 # at
          /\ i \in at .. Len(list) - 1
      BY <1>1, <2>2
    <3> QED
      BY <1>1, <3>1
  <2> QED
    BY <2>1, <2>2
<1>3. ASSUME NEW i \in 1 .. Len(left), NEW j \in 1 .. Len(left), i < j
      PROVE  \E k, l \in 1 .. Len(list) :
               k < l /\ left[i] = list[k] /\ left[j] = list[l]
  <2>1. CASE j < at
    <3>1. /\ i \in 1 .. at - 1 /\ i \in 1 .. Len(list)
          /\ j \in 1 .. at - 1 /\ j \in 1 .. Len(list)
      BY <1>1, <1>3, <2>1
    <3> QED
      BY <1>1, <1>3, <3>1
  <2>2. CASE i < at /\ at <= j
    <3>1. /\ i \in 1 .. at - 1 /\ i \in 1 .. Len(list)
          /\ j \in at .. Len(list) - 1 /\ j + 1 \in 1 .. Len(list)
          /\ i < j + 1
      BY <1>1, <1>3, <2>2
    <3> QED
      BY <1>1, <3>1
  <2>3. CASE at <= i
    <3>1. /\ i \in at .. Len(list) - 1 /\ i + 1 \in 1 .. Len(list)
          /\ j \in at .. Len(list) - 1 /\ j + 1 \in 1 .. Len(list)
          /\ i + 1 < j + 1
      BY <1>1, <1>3, <2>3
    <3> QED
      BY <1>1, <3>1
  <2> QED
    BY <2>1, <2>2, <2>3
<1>4. ASSUME NEW k \in 1 .. Len(list), list[k] # ptr
      PROVE  \E i \in 1 .. Len(left) : left[i] = list[k]
  <2>1. k # at
    BY <1>4
  <2>2. CASE k < at
    <3>1. k \in 1 .. at - 1 /\ k \in 1 .. Len(left)
      BY <1>1, <2>2
    <3> QED
      BY <1>1, <3>1
  <2>3. CASE k > at
    <3>1. k - 1 \in 1 .. Len(left) /\ k - 1 \in at .. Len(list) - 1
      BY <1>1, <2>3
    <3>2. left[k - 1] = list[k - 1 + 1] /\ k - 1 + 1 = k
      BY <1>1, <3>1
    <3> QED
      BY <3>1, <3>2
  <2> QED
    BY <2>1, <2>2, <2>3
<1>5. ASSUME list[1] # ptr
      PROVE  left # << >> /\ Head(left) = Head(list)
  <2>1. 1 \in 1 .. at - 1 /\ Len(left) > 0
    BY <1>1, <1>5
  <2> QED
    BY <1>1, <2>1
<1>6. \A i \in 1 .. Len(left) : left[i] # ptr
  BY <1>2
<1>7. KeepsOthers(list, left, ptr)
  BY <1>2, <1>3, <1>4, <1>5, <1>6 DEF KeepsOthers
<1> QED
  BY <1>7, <1>b

\* The orders of a level are distinct, since their time stamps are.
LEMMA ListDistinct ==
  ASSUME TypeOK, ListedAreLive, TimePriority,
         NEW side \in Sides, NEW p \in Levels(side),
         NEW i \in 1 .. Len(book[side][p].orders),
         NEW j \in 1 .. Len(book[side][p].orders),
         book[side][p].orders[i] = book[side][p].orders[j]
  PROVE  i = j
<1> DEFINE list == book[side][p].orders
<1>1. list \in Seq(Slots) /\ Len(list) \in Nat
  BY DEF TypeOK, Level
<1>2. mem[list[i]] \in Order
  BY <1>1 DEF TypeOK, ListedAreLive
<1>3. mem[list[i]].timestamp \in Nat
  BY <1>2 DEF Order
<1>4. \A k, l \in 1 .. Len(list) :
        k < l => mem[list[k]].timestamp < mem[list[l]].timestamp
  BY DEF TimePriority
<1> QED
  BY <1>1, <1>3, <1>4

(***************************************************************************)
(* What unlinking an order does to the book: no order moves past another,  *)
(* no other order leaves its level, and no level is left empty.            *)
(***************************************************************************)
\* What is left at a level was there, in this order.
Survivors(ptr, sd, x) ==
  /\ x \in Levels(sd)
  /\ book'[sd][x] \in Level
  /\ book'[sd][x].orders # << >>
  /\ \A i \in 1 .. Len(book'[sd][x].orders) :
       /\ book'[sd][x].orders[i] # ptr
       /\ Linked(book'[sd][x].orders[i], sd, x)
  /\ \A i, j \in 1 .. Len(book'[sd][x].orders) : i < j =>
       \E k, l \in 1 .. Len(book[sd][x].orders) :
         /\ k < l
         /\ book'[sd][x].orders[i] = book[sd][x].orders[k]
         /\ book'[sd][x].orders[j] = book[sd][x].orders[l]

\* Every other order is still there, and in front if it was.
Others(ptr, sd, x) ==
  /\ \A i \in 1 .. Len(book[sd][x].orders) :
       book[sd][x].orders[i] # ptr =>
         /\ x \in DOMAIN book'[sd]
         /\ \E j \in 1 .. Len(book'[sd][x].orders) :
              book'[sd][x].orders[j] = book[sd][x].orders[i]
  /\ Head(book[sd][x].orders) # ptr =>
       /\ x \in DOMAIN book'[sd]
       /\ Head(book'[sd][x].orders) = Head(book[sd][x].orders)

Unlinked(ptr) ==
  /\ DOMAIN book' = Sides
  /\ \A sd \in Sides : \A x \in DOMAIN book'[sd] : Survivors(ptr, sd, x)
  /\ \A sd \in Sides : \A x \in Levels(sd) : Others(ptr, sd, x)

\* What remove_from_price_level does to the book: the level keeps what is left,
\* and goes if that is nothing.
LeftAtLevel(side, p, left) ==
  /\ DOMAIN book' = Sides
  /\ \A sd \in Sides \ {side} : book'[sd] = book[sd]
  /\ \A x \in Levels(side) \ {p} :
       x \in DOMAIN book'[side] /\ book'[side][x] = book[side][x]
  /\ DOMAIN book'[side] \subseteq Levels(side)
  /\ p \in DOMAIN book'[side] <=> left # << >>
  /\ p \in DOMAIN book'[side] =>
       /\ book'[side][p].orders = left
       /\ book'[side][p] \in Level

LEMMA RemoveLeaves ==
  ASSUME TypeOK, NEW side \in Sides, NEW p \in Levels(side), NEW ptr,
         NEW left \in Seq(Slots), left = Remove(book[side][p].orders, ptr),
         NEW q \in Nat, book' = RemoveFromPriceLevel(side, p, ptr, q)
  PROVE  LeftAtLevel(side, p, left)
<1>1. /\ DOMAIN book = Sides
      /\ book[side][p].total_quantity \in Nat
  BY DEF TypeOK, Level
<1>2. CASE left = << >>
  <2>1. book' = WithoutLevel(side, p)
    BY <1>2 DEF RemoveFromPriceLevel
  <2> QED
    BY <1>1, <1>2, <2>1 DEF WithoutLevel, Levels, LeftAtLevel
<1>3. CASE left # << >>
  <2> DEFINE level ==
        [orders |-> left,
         total_quantity |-> Minus(book[side][p].total_quantity, q)]
  <2>1. book' = WithLevel(side, p, level)
    BY <1>3 DEF RemoveFromPriceLevel
  <2>2. level \in Level /\ level.orders = left
    BY <1>1, QuantityFacts DEF Level
  <2> HIDE DEF level
  <2>3. /\ book'[side] = [x \in Levels(side) \cup {p} |->
                            IF x = p THEN level ELSE book[side][x]]
        /\ DOMAIN book' = Sides
        /\ \A sd \in Sides \ {side} : book'[sd] = book[sd]
    BY <1>1, <2>1 DEF WithLevel
  <2> QED
    BY <1>3, <2>2, <2>3 DEF Levels, LeftAtLevel
<1> QED
  BY <1>2, <1>3

LEMMA RemoveUnlinks ==
  ASSUME StepInv,
         NEW side \in Sides, NEW p \in Levels(side), NEW ptr \in Slots,
         Linked(ptr, side, p), NEW q \in Nat,
         book' = RemoveFromPriceLevel(side, p, ptr, q)
  PROVE  Unlinked(ptr)
<1>1. /\ TypeOK /\ ListedAreLive /\ TimePriority /\ NoEmptyLevel
      /\ DOMAIN book = Sides
  BY DEF StepInv, BookInv, CallInv, TypeOK
<1>a. PICK list : list = book[side][p].orders
  OBVIOUS
<1>b. PICK left : left = Remove(list, ptr)
  OBVIOUS
<1>2. /\ list \in Seq(Slots)
      /\ Len(list) \in Nat
      /\ list # << >>
      /\ book[side][p].total_quantity \in Nat
  BY <1>1, <1>a DEF TypeOK, Level, NoEmptyLevel
<1>3. PICK at \in 1 .. Len(list) : list[at] = ptr
  BY <1>a DEF Linked
<1>4. \A i \in 1 .. Len(list) : list[i] = ptr <=> i = at
  BY <1>1, <1>3, <1>a, ListDistinct
<1>5. left \in Seq(Slots)
  BY <1>2, <1>3, <1>4, <1>b, RemoveProperties
<1>6. KeepsOthers(list, left, ptr)
  BY <1>2, <1>3, <1>4, <1>b, RemoveKeepsOthers
<1>7. ASSUME NEW sd \in Sides, NEW x \in Levels(sd),
             NEW i \in 1 .. Len(book[sd][x].orders),
             book[sd][x].orders[i] = ptr
      PROVE  sd = side /\ x = p
  <2>1. mem[ptr].side = side /\ mem[ptr].price = p
    BY <1>1, <1>3, <1>a DEF ListedAreLive
  <2>2. mem[ptr].side = sd /\ mem[ptr].price = x
    BY <1>1, <1>7 DEF ListedAreLive
  <2> QED
    BY <2>1, <2>2
<1>8. LeftAtLevel(side, p, left)
  BY <1>1, <1>5, <1>a, <1>b, RemoveLeaves
<1>9. ASSUME NEW sd \in Sides, NEW x \in DOMAIN book'[sd]
      PROVE  Survivors(ptr, sd, x)
  <2>1. CASE sd = side /\ x = p
    <3>1. /\ book'[sd][x].orders = left
          /\ left # << >>
          /\ book'[sd][x] \in Level
          /\ book[sd][x].orders = list
      BY <1>8, <1>a, <2>1 DEF LeftAtLevel
    <3> QED
      BY <1>6, <2>1, <3>1 DEF Survivors, Linked, KeepsOthers
  <2>2. CASE ~(sd = side /\ x = p)
    <3>1. /\ x \in Levels(sd)
          /\ book'[sd][x] = book[sd][x]
          /\ book[sd][x] \in Level /\ book[sd][x].orders # << >>
      BY <1>1, <1>8, <2>2 DEF LeftAtLevel, Levels, TypeOK, NoEmptyLevel
    <3> QED
      BY <1>7, <2>2, <3>1 DEF Survivors, Linked
  <2> QED
    BY <2>1, <2>2
<1>10. ASSUME NEW sd \in Sides, NEW x \in Levels(sd)
       PROVE  Others(ptr, sd, x)
  <2>1. CASE sd = side /\ x = p
    <3>1. \A k \in 1 .. Len(list) : list[k] # ptr => left # << >>
      BY <1>5, <1>6 DEF KeepsOthers
    <3>2. Head(list) # ptr => left # << >> /\ Head(left) = Head(list)
      BY <1>2, <1>6 DEF KeepsOthers
    <3>3. left # << >> => p \in DOMAIN book'[side]
                          /\ book'[side][p].orders = left
      BY <1>8 DEF LeftAtLevel
    <3> QED
      BY <1>6, <1>a, <2>1, <3>1, <3>2, <3>3 DEF Others, KeepsOthers
  <2>2. CASE ~(sd = side /\ x = p)
    <3>1. x \in DOMAIN book'[sd] /\ book'[sd][x] = book[sd][x]
      BY <1>8, <2>2 DEF LeftAtLevel, Levels
    <3> QED
      BY <3>1 DEF Others
  <2> QED
    BY <2>1, <2>2
<1> QED
  BY <1>8, <1>9, <1>10 DEF LeftAtLevel, Unlinked

(***************************************************************************)
(* What linking a new order does: it goes to the end of its level, which   *)
(* is created if it is not there, and nothing else changes.                *)
(***************************************************************************)
LinkedLast(ptr, side, p) ==
  /\ DOMAIN book' = Sides
  /\ \A sd \in Sides \ {side} : book'[sd] = book[sd]
  /\ DOMAIN book'[side] = Levels(side) \cup {p}
  /\ \A x \in Levels(side) \ {p} : book'[side][x] = book[side][x]
  /\ book'[side][p] \in Level
  /\ \E list \in Seq(Slots) :
       /\ book'[side][p].orders = Append(list, ptr)
       /\ p \in Levels(side) => list = book[side][p].orders
       /\ p \notin Levels(side) => list = << >>

LEMMA AddLinksLast ==
  ASSUME TypeOK, NEW ptr \in Slots, NEW o, o.side \in Sides, o.price \in Prices,
         o.quantity \in Nat,
         book' = AddToPriceLevel(ptr, o)
  PROVE  LinkedLast(ptr, o.side, o.price)
<1>1. PICK level : level = IF o.price \in Levels(o.side)
                           THEN book[o.side][o.price]
                           ELSE [orders |-> << >>, total_quantity |-> 0]
  OBVIOUS
<1>2. level.orders \in Seq(Slots) /\ level.total_quantity \in Nat
  BY <1>1 DEF TypeOK, Level
<1>3. /\ o.price \in Levels(o.side) => level.orders = book[o.side][o.price].orders
      /\ o.price \notin Levels(o.side) => level.orders = << >>
  BY <1>1
<1>4. PICK new : new = [orders |-> Append(level.orders, ptr),
                        total_quantity |-> Plus(level.total_quantity, o.quantity)]
  OBVIOUS
<1>5. new \in Level /\ new.orders = Append(level.orders, ptr)
  <2>1. Append(level.orders, ptr) \in Seq(Slots)
    BY <1>2
  <2>2. Plus(level.total_quantity, o.quantity) \in 0 .. QuantityModulus - 1
    BY <1>2, QuantityFacts
  <2> QED
    BY <1>4, <2>1, <2>2 DEF Level
<1>6. book' = WithLevel(o.side, o.price, new)
  BY <1>1, <1>4 DEF AddToPriceLevel
<1>7. /\ book'[o.side] = [x \in Levels(o.side) \cup {o.price} |->
                            IF x = o.price THEN new ELSE book[o.side][x]]
      /\ DOMAIN book' = Sides
      /\ \A sd \in Sides \ {o.side} : book'[sd] = book[sd]
  BY <1>6 DEF WithLevel, TypeOK
<1> QED
  BY <1>2, <1>3, <1>5, <1>7 DEF LinkedLast

\* A partial fill changes what a level shows and nothing else.
ListsKept ==
  /\ DOMAIN book' = Sides
  /\ \A sd \in Sides : DOMAIN book'[sd] = Levels(sd)
  /\ \A sd \in Sides : \A x \in Levels(sd) :
       book'[sd][x] \in Level /\ book'[sd][x].orders = book[sd][x].orders

LEMMA ReduceKeepsLists ==
  ASSUME TypeOK, NEW side \in Sides, NEW p \in Levels(side), NEW q \in Nat,
         book' = ReduceLevel(side, p, q)
  PROVE  ListsKept
<1>1. PICK level : level = [book[side][p] EXCEPT !.total_quantity = Minus(@, q)]
  OBVIOUS
<1>2. book[side][p] \in Level /\ book[side][p].total_quantity \in Nat
  BY DEF TypeOK, Level
<1>3. level \in Level /\ level.orders = book[side][p].orders
  BY <1>1, <1>2, QuantityFacts DEF Level
<1>4. /\ book'[side] = [x \in Levels(side) \cup {p} |->
                          IF x = p THEN level ELSE book[side][x]]
      /\ DOMAIN book' = Sides
      /\ \A sd \in Sides \ {side} : book'[sd] = book[sd]
  BY <1>1 DEF ReduceLevel, WithLevel, TypeOK
<1>5. ASSUME NEW sd \in Sides
      PROVE  /\ DOMAIN book'[sd] = Levels(sd)
             /\ \A x \in Levels(sd) :
                  /\ book'[sd][x] \in Level
                  /\ book'[sd][x].orders = book[sd][x].orders
  <2>1. \A x \in Levels(sd) : book[sd][x] \in Level
    BY DEF TypeOK
  <2>2. CASE sd = side
    BY <1>3, <1>4, <2>1, <2>2
  <2>3. CASE sd # side
    BY <1>4, <2>1, <2>3 DEF Levels
  <2> QED
    BY <2>2, <2>3
<1> QED
  BY <1>4, <1>5 DEF ListsKept

-----------------------------------------------------------------------------
(***************************************************************************)
(* The pool stays partitioned.                                             *)
(***************************************************************************)
LEMMA PoolAllocate ==
  ASSUME BookInv, NEW ptr \in Slots, Pool!Allocate(ptr)
  PROVE  Pool!PoolPartition'
<1>1. /\ free_list \in Seq(Slots) /\ free_list # << >>
      /\ ptr = free_list[Len(free_list)]
      /\ Live' = Live \cup {ptr}
      /\ free_list' = SubSeq(free_list, 1, Len(free_list) - 1)
      /\ Pool!FreeOnce /\ Pool!FreeIsNotLive
  BY DEF BookInv, TypeOK, Pool!Allocate, Pool!Back, Pool!PopBack,
         Pool!PoolPartition
<1>2. PICK n \in Nat \ {0} : n = Len(free_list)
  BY <1>1
<1>3. free_list' = [i \in 1 .. n - 1 |-> free_list[i]]
  BY <1>1, <1>2
<1>4. /\ Len(free_list') = n - 1
      /\ \A i \in 1 .. n - 1 : free_list'[i] = free_list[i]
  BY <1>2, <1>3
<1>5. \A i \in 1 .. n - 1 : free_list[i] # ptr
  BY <1>1, <1>2 DEF Pool!FreeOnce
<1>6. {free_list'[i] : i \in 1 .. Len(free_list')}
        = {free_list[i] : i \in 1 .. Len(free_list)} \ {ptr}
  BY <1>1, <1>2, <1>4, <1>5
<1>7. Pool!FreeOnce'
  BY <1>1, <1>2, <1>4 DEF Pool!FreeOnce
<1>8. Pool!FreeIsNotLive'
  BY <1>1, <1>6 DEF Pool!FreeIsNotLive
<1> QED
  BY <1>7, <1>8 DEF Pool!PoolPartition

LEMMA PoolDeallocate ==
  ASSUME BookInv, NEW ptr \in Slots, Pool!Deallocate(ptr)
  PROVE  Pool!PoolPartition'
<1>1. /\ free_list \in Seq(Slots)
      /\ ptr \in Live
      /\ Live' = Live \ {ptr}
      /\ free_list' = Append(free_list, ptr)
      /\ Pool!FreeOnce /\ Pool!FreeIsNotLive
  BY DEF BookInv, TypeOK, Pool!Deallocate, Pool!PushBack, Pool!PoolPartition
<1>2. /\ Len(free_list) \in Nat
      /\ Len(free_list') = Len(free_list) + 1
      /\ \A i \in 1 .. Len(free_list) : free_list'[i] = free_list[i]
      /\ free_list'[Len(free_list) + 1] = ptr
  BY <1>1
<1>3. \A i \in 1 .. Len(free_list) : free_list[i] # ptr
  BY <1>1 DEF Pool!FreeIsNotLive
<1>4. Pool!FreeOnce'
  BY <1>1, <1>2, <1>3 DEF Pool!FreeOnce
<1>5. {free_list'[i] : i \in 1 .. Len(free_list')}
        = {free_list[i] : i \in 1 .. Len(free_list)} \cup {ptr}
  BY <1>1, <1>2
<1>6. Pool!FreeIsNotLive'
  BY <1>1, <1>5, SlotFacts DEF Pool!FreeIsNotLive, Slots, Pool!Slots
<1> QED
  BY <1>4, <1>6 DEF Pool!PoolPartition

-----------------------------------------------------------------------------
(***************************************************************************)
(* Steps that leave the book, the orders and the running call alone.       *)
(***************************************************************************)
LEMMA QuietStepsInv ==
  ASSUME StepInv, result' \in ErrorCodes,
         UNCHANGED <<free_list, mem, book, order_map, call, now>>
  PROVE  StepInv'
<1>1. TypeOK'
  BY DEF StepInv, BookInv, CallInv, TypeOK, Levels
<1>2. Pool!PoolPartition'
  BY DEF StepInv, BookInv, CallInv, Pool!PoolPartition, Pool!FreeOnce,
         Pool!FreeIsNotLive, Live
<1>3. ListedAreLive' /\ IndexedAreListed' /\ TimePriority' /\ NoEmptyLevel'
  <2>1. ListedAreLive'
    BY DEF StepInv, BookInv, CallInv, ListedAreLive, Levels
  <2>2. IndexedAreListed'
    BY DEF StepInv, BookInv, CallInv, IndexedAreListed, Linked, Levels
  <2>3. TimePriority'
    BY DEF StepInv, BookInv, CallInv, TimePriority, Levels
  <2>4. NoEmptyLevel'
    BY DEF StepInv, BookInv, CallInv, NoEmptyLevel, Levels
  <2> QED
    BY <2>1, <2>2, <2>3, <2>4
<1>4. MakerInFront'
  BY DEF StepInv, BookInv, CallInv, MakerInFront, InCallback, Maker, Taker,
         Levels
<1>5. TakerIsPrivate' /\ TakerComesLast' /\ AcceptedBefore'
  <2>1. TakerIsPrivate'
    BY DEF StepInv, BookInv, CallInv, TakerIsPrivate, Linked, Levels, Idle,
           Taker, Live
  <2>2. TakerComesLast'
    BY DEF StepInv, BookInv, CallInv, TakerComesLast, Linked, Levels, Idle,
           Taker, Slots, Pool!Slots
  <2>3. AcceptedBefore'
    BY DEF StepInv, BookInv, CallInv, AcceptedBefore, Live
  <2> QED
    BY <2>1, <2>2, <2>3
<1>6. NotCrossed'
  BY DEF StepInv, BookInv, CallInv, NotCrossed, Levels
<1> QED
  BY <1>1, <1>2, <1>3, <1>4, <1>5, <1>6 DEF StepInv, BookInv, CallInv

-----------------------------------------------------------------------------
(***************************************************************************)
(* Steps that keep every order where it is: a report and a partial fill.   *)
(***************************************************************************)
LEMMA OrderFacts ==
  ASSUME TypeOK, NEW s \in Slots, mem[s] # NoOrder
  PROVE  /\ mem[s] \in Order
         /\ mem[s].id \in OrderIDs
         /\ mem[s].price \in Prices
         /\ mem[s].quantity \in 0 .. MAX_QUANTITY
         /\ mem[s].quantity \in Nat
         /\ mem[s].side \in Sides
         /\ mem[s].timestamp \in Nat
         /\ mem[s].original \in Quantities
         /\ mem[s].reported \in Nat
BY LimitsAssumption DEF TypeOK, Order

LEMMA ListFacts ==
  ASSUME TypeOK, NEW side \in Sides, NEW p \in Levels(side)
  PROVE  /\ p \in Prices
         /\ book[side][p] \in Level
         /\ book[side][p].orders \in Seq(Slots)
         /\ Len(book[side][p].orders) \in Nat
         /\ \A i \in 1 .. Len(book[side][p].orders) :
              book[side][p].orders[i] \in Slots
         /\ book[side][p].total_quantity \in Nat
BY DEF TypeOK, Level

\* No order comes or goes, and of an order only its quantity and its history
\* change.
SameOrders ==
  \A s \in Slots :
    /\ mem'[s] = NoOrder <=> mem[s] = NoOrder
    /\ mem[s] # NoOrder =>
         /\ mem'[s].id = mem[s].id
         /\ mem'[s].price = mem[s].price
         /\ mem'[s].side = mem[s].side
         /\ mem'[s].timestamp = mem[s].timestamp

\* Where an order is linked after a step.
LinkedNext(s, side, p) ==
  \E i \in 1 .. Len(book'[side][p].orders) : book'[side][p].orders[i] = s

LEMMA KeptListsInv ==
  ASSUME StepInv, ListsKept, SameOrders, UNCHANGED <<free_list, order_map>>,
         \A s \in Slots : \A side \in Sides : \A p \in Levels(side) :
           Linked(s, side, p) => mem'[s].quantity > 0
  PROVE  /\ Pool!PoolPartition'
         /\ ListedAreLive' /\ IndexedAreListed'
         /\ TimePriority' /\ NoEmptyLevel' /\ NotCrossed'
<1>1. TypeOK /\ ListedAreLive /\ IndexedAreListed /\ TimePriority
      /\ NoEmptyLevel /\ NotCrossed /\ Pool!PoolPartition
  BY DEF StepInv, BookInv, CallInv
<1>2. \A sd \in Sides :
        /\ DOMAIN book'[sd] = Levels(sd)
        /\ \A x \in Levels(sd) : book'[sd][x].orders = book[sd][x].orders
  BY DEF ListsKept
<1>3. Pool!PoolPartition'
  <2>1. Live' = Live
    BY SlotFacts DEF SameOrders, Live
  <2> QED
    BY <1>1, <2>1 DEF Pool!PoolPartition, Pool!FreeOnce, Pool!FreeIsNotLive
<1>4. ListedAreLive'
  <2> SUFFICES ASSUME NEW sd \in Sides, NEW x \in Levels(sd),
                      NEW i \in 1 .. Len(book[sd][x].orders),
                      NEW s, s = book[sd][x].orders[i]
               PROVE  /\ mem'[s] # NoOrder
                      /\ mem'[s].side = sd /\ mem'[s].price = x
                      /\ mem'[s].quantity > 0
    BY <1>2 DEF ListedAreLive, Levels
  <2>1. s \in Slots
    BY <1>1, ListFacts
  <2>2. mem[s] # NoOrder /\ mem[s].side = sd /\ mem[s].price = x
    BY <1>1 DEF ListedAreLive
  <2>3. Linked(s, sd, x)
    BY DEF Linked
  <2> QED
    BY <2>1, <2>2, <2>3 DEF SameOrders
<1>5. IndexedAreListed'
  <2> SUFFICES ASSUME NEW id \in OrderIDs, order_map[id] # Null,
                      NEW s, s = order_map[id]
               PROVE  /\ mem'[s] # NoOrder
                      /\ mem'[s].id = id
                      /\ mem'[s].price \in DOMAIN book'[mem'[s].side]
                      /\ LinkedNext(s, mem'[s].side, mem'[s].price)
    BY DEF IndexedAreListed, Linked, LinkedNext, Levels
  <2>1. /\ mem[s] # NoOrder /\ mem[s].id = id
        /\ mem[s].price \in Levels(mem[s].side)
        /\ Linked(s, mem[s].side, mem[s].price)
    BY <1>1 DEF IndexedAreListed
  <2>2. s \in Slots
    BY <1>1, SlotFacts DEF TypeOK
  <2>3. mem[s].side \in Sides
    BY <1>1, <2>1, <2>2, OrderFacts
  <2>4. /\ mem'[s] # NoOrder /\ mem'[s].id = id
        /\ mem'[s].side = mem[s].side /\ mem'[s].price = mem[s].price
    BY <2>1, <2>2 DEF SameOrders
  <2>5. /\ mem[s].price \in DOMAIN book'[mem[s].side]
        /\ book'[mem[s].side][mem[s].price].orders
             = book[mem[s].side][mem[s].price].orders
    BY <1>2, <2>1, <2>3
  <2> QED
    BY <2>1, <2>4, <2>5 DEF Linked, LinkedNext
<1>6. TimePriority'
  <2> SUFFICES ASSUME NEW sd \in Sides, NEW x \in Levels(sd),
                      NEW i \in 1 .. Len(book[sd][x].orders),
                      NEW j \in 1 .. Len(book[sd][x].orders),
                      i < j
               PROVE  mem'[book[sd][x].orders[i]].timestamp
                        < mem'[book[sd][x].orders[j]].timestamp
    BY <1>2 DEF TimePriority, Levels
  <2>1. /\ book[sd][x].orders[i] \in Slots
        /\ book[sd][x].orders[j] \in Slots
    BY <1>1, ListFacts
  <2>2. /\ mem[book[sd][x].orders[i]] # NoOrder
        /\ mem[book[sd][x].orders[j]] # NoOrder
    BY <1>1 DEF ListedAreLive
  <2>3. mem[book[sd][x].orders[i]].timestamp
          < mem[book[sd][x].orders[j]].timestamp
    BY <1>1 DEF TimePriority
  <2> QED
    BY <2>1, <2>2, <2>3 DEF SameOrders
<1>7. NoEmptyLevel' /\ NotCrossed'
  BY <1>1, <1>2, SideFacts DEF NoEmptyLevel, NotCrossed, Levels
<1> QED
  BY <1>3, <1>4, <1>5, <1>6, <1>7

LEMMA SameBookKept ==
  ASSUME TypeOK, UNCHANGED book
  PROVE  ListsKept
BY DEF ListsKept, TypeOK, Levels

\* The taker of a running call.
LEMMA TakerFacts ==
  ASSUME StepInv, ~Idle
  PROVE  /\ TypeOK
         /\ call.taker \in Slots
         /\ Taker # NoOrder
         /\ Taker.side \in Sides /\ Opposite(Taker.side) \in Sides
         /\ Taker.side # Opposite(Taker.side)
         /\ Taker.price \in Prices
         /\ Taker.quantity \in 0 .. MAX_QUANTITY /\ Taker.quantity \in Nat
         /\ Taker.timestamp \in Nat
         /\ order_map[Taker.id] = Null
         /\ \A side \in Sides : \A p \in Levels(side) :
              ~Linked(call.taker, side, p)
<1>1. TypeOK /\ TakerIsPrivate
  BY DEF StepInv, BookInv, CallInv
<1>2. call.taker \in Slots /\ Taker # NoOrder
  BY <1>1 DEF TakerIsPrivate, TypeOK, Calls
<1> QED
  BY <1>1, <1>2, OrderFacts, SideFacts DEF TakerIsPrivate, Taker

\* The front of a level is a live order of that side and price.
LEMMA FrontFacts ==
  ASSUME StepInv, NEW side \in Sides, NEW p \in Levels(side),
         NEW s, s = Head(book[side][p].orders)
  PROVE  /\ s \in Slots
         /\ Linked(s, side, p)
         /\ mem[s] # NoOrder
         /\ mem[s].side = side /\ mem[s].price = p
         /\ mem[s].quantity \in 0 .. MAX_QUANTITY
         /\ mem[s].quantity \in Nat /\ mem[s].quantity > 0
<1>1. TypeOK /\ ListedAreLive /\ NoEmptyLevel
  BY DEF StepInv, BookInv, CallInv
<1>2. book[side][p].orders # << >>
  BY <1>1 DEF NoEmptyLevel
<1>3. /\ 1 \in 1 .. Len(book[side][p].orders)
      /\ s = book[side][p].orders[1]
  BY <1>1, <1>2, ListFacts
<1>4. s \in Slots /\ mem[s] # NoOrder /\ mem[s].side = side
      /\ mem[s].price = p /\ mem[s].quantity > 0
  BY <1>1, <1>3, ListFacts DEF ListedAreLive
<1> QED
  BY <1>1, <1>3, <1>4, OrderFacts DEF Linked

\* A call that goes on keeps its taker out of the book.
LEMMA SameTakerInv ==
  ASSUME StepInv, ListsKept, SameOrders, UNCHANGED <<order_map, now>>,
         ~Idle, call'.taker = call.taker
  PROVE  TakerIsPrivate' /\ TakerComesLast' /\ AcceptedBefore'
<1>1. TypeOK /\ TakerComesLast /\ AcceptedBefore
  BY DEF StepInv, BookInv, CallInv
<1>2. /\ call.taker \in Slots
      /\ mem[call.taker] # NoOrder
      /\ order_map[mem[call.taker].id] = Null
      /\ \A side \in Sides : \A p \in Levels(side) : ~Linked(call.taker, side, p)
  BY TakerFacts DEF Taker
<1>3. /\ mem'[call.taker] # NoOrder
      /\ mem'[call.taker].id = mem[call.taker].id
      /\ mem'[call.taker].side = mem[call.taker].side
      /\ mem'[call.taker].price = mem[call.taker].price
      /\ mem'[call.taker].timestamp = mem[call.taker].timestamp
  BY <1>2 DEF SameOrders
<1>4. \A side \in Sides : \A p \in DOMAIN book'[side] :
        ~LinkedNext(call.taker, side, p)
  BY <1>2 DEF ListsKept, LinkedNext, Linked
<1>5. TakerIsPrivate'
  <2>1. call.taker # Null
    BY <1>2, SlotFacts
  <2> QED
    BY <1>2, <1>3, <1>4, <2>1
       DEF TakerIsPrivate, Taker, Linked, LinkedNext, Levels
<1>6. AcceptedBefore'
  <2> SUFFICES ASSUME NEW s \in Slots, mem'[s] # NoOrder
               PROVE  mem'[s].timestamp < now
    BY SlotFacts DEF AcceptedBefore, Live
  <2>1. mem[s] # NoOrder /\ mem'[s].timestamp = mem[s].timestamp
    BY DEF SameOrders
  <2> QED
    BY <1>1, <2>1, SlotFacts DEF AcceptedBefore, Live
<1>7. TakerComesLast'
  <2>1. PICK sd, x, tm : /\ sd = mem[call.taker].side
                         /\ x = mem[call.taker].price
                         /\ tm = mem[call.taker].timestamp
    OBVIOUS
  <2>2. sd \in Sides
    BY <1>1, <1>2, <2>1, OrderFacts
  <2>3. ASSUME NEW s \in Slots, x \in DOMAIN book'[sd], LinkedNext(s, sd, x)
        PROVE  mem'[s].timestamp < tm
    <3>1. x \in Levels(sd) /\ Linked(s, sd, x)
      BY <2>2, <2>3 DEF ListsKept, LinkedNext, Linked
    <3>2. mem[s] # NoOrder
      BY <2>2, <3>1 DEF StepInv, BookInv, ListedAreLive, Linked
    <3>3. mem[s].timestamp < tm
      BY <1>1, <2>1, <3>1 DEF TakerComesLast, Taker
    <3> QED
      BY <3>2, <3>3 DEF SameOrders
  <2>4. Taker'.side = sd /\ Taker'.price = x /\ Taker'.timestamp = tm
    BY <1>3, <2>1 DEF Taker
  <2> QED
    BY <2>3, <2>4 DEF TakerComesLast, LinkedNext, Linked, Levels, Slots,
       Pool!Slots
<1> QED
  BY <1>5, <1>6, <1>7

LEMMA ExecuteTradeInv ==
  ASSUME StepInv, ExecuteTrade
  PROVE  StepInv'
<1>1. /\ TypeOK /\ Matching /\ ~Idle /\ Taker.quantity > 0
      /\ UNCHANGED <<free_list, book, order_map, now, result>>
  BY DEF StepInv, BookInv, CallInv, ExecuteTrade, Matching, Idle
<1>3. PICK side : side = Opposite(Taker.side)
  OBVIOUS
<1>p. PICK p \in Levels(side) :
        /\ IsBest(side, p)
        /\ Crosses(Taker.side, Taker.price, p)
        /\ LET ptr == Head(book[side][p].orders)
               q == TradeQuantity(Taker, mem[ptr])
           IN  /\ call' = [call EXCEPT !.at = "callback", !.maker = ptr,
                                       !.level = p, !.quantity = q]
               /\ mem' = [mem EXCEPT ![ptr].reported = @ + q,
                                     ![call.taker].reported = @ + q]
  BY <1>3, Zenon DEF ExecuteTrade
<1>ptr. PICK ptr : ptr = Head(book[side][p].orders)
  OBVIOUS
<1>q. PICK q : q = TradeQuantity(Taker, mem[ptr])
  OBVIOUS
<1>2. /\ p \in Levels(side)
      /\ Crosses(Taker.side, Taker.price, p)
      /\ ptr = Head(book[side][p].orders)
      /\ q = TradeQuantity(Taker, mem[ptr])
      /\ call' = [call EXCEPT !.at = "callback", !.maker = ptr,
                              !.level = p, !.quantity = q]
      /\ mem' = [mem EXCEPT ![ptr].reported = @ + q,
                            ![call.taker].reported = @ + q]
  BY <1>p, <1>ptr, <1>q
<1>4. /\ call.taker \in Slots
      /\ Taker # NoOrder /\ mem[call.taker] = Taker
      /\ Taker.side \in Sides /\ side \in Sides /\ Taker.side # side
      /\ Taker.quantity \in 0 .. MAX_QUANTITY /\ Taker.quantity \in Nat
      /\ \A sd \in Sides : \A x \in Levels(sd) : ~Linked(call.taker, sd, x)
  BY <1>1, <1>3, TakerFacts DEF Taker
<1>5. /\ ptr \in Slots /\ Linked(ptr, side, p)
      /\ mem[ptr] # NoOrder /\ mem[ptr].side = side /\ mem[ptr].price = p
      /\ mem[ptr].quantity \in 0 .. MAX_QUANTITY
      /\ mem[ptr].quantity \in Nat /\ mem[ptr].quantity > 0
  <2>1. p \in Levels(side) /\ ptr = Head(book[side][p].orders)
    BY <1>2, <1>3
  <2> QED
    BY <1>4, <2>1, FrontFacts
<1>6. ptr # call.taker
  <2>1. p \in Levels(side)
    BY <1>2, <1>3
  <2> QED
    BY <1>4, <1>5, <2>1
<1>7. /\ q \in 0 .. MAX_QUANTITY /\ q \in Nat /\ q > 0
      /\ q \in {mem[ptr].quantity, Taker.quantity}
      /\ q <= mem[ptr].quantity /\ q <= Taker.quantity
  <2>1. CASE Taker.quantity < mem[ptr].quantity
    <3>1. q = Taker.quantity
      BY <1>2, <2>1 DEF TradeQuantity
    <3> QED
      BY <1>1, <1>4, <1>5, <2>1, <3>1
  <2>2. CASE ~(Taker.quantity < mem[ptr].quantity)
    <3>1. q = mem[ptr].quantity
      BY <1>2, <2>2 DEF TradeQuantity
    <3> QED
      BY <1>4, <1>5, <2>2, <3>1
  <2> QED
    BY <2>1, <2>2
<1>8. mem' = [s \in Slots |->
                IF s \in {ptr, call.taker}
                THEN [mem[s] EXCEPT !.reported = @ + q] ELSE mem[s]]
  BY <1>1, <1>2, <1>4, <1>5, <1>6 DEF TypeOK
<1>9. \A s \in Slots : mem[s] # NoOrder =>
        /\ mem'[s] \in Order
        /\ mem'[s].id = mem[s].id /\ mem'[s].price = mem[s].price
        /\ mem'[s].side = mem[s].side /\ mem'[s].quantity = mem[s].quantity
        /\ mem'[s].timestamp = mem[s].timestamp
  <2> SUFFICES ASSUME NEW s \in Slots, mem[s] # NoOrder
               PROVE  /\ mem'[s] \in Order
                      /\ mem'[s].id = mem[s].id
                      /\ mem'[s].price = mem[s].price
                      /\ mem'[s].side = mem[s].side
                      /\ mem'[s].quantity = mem[s].quantity
                      /\ mem'[s].timestamp = mem[s].timestamp
    OBVIOUS
  <2>1. mem[s] \in Order
    BY <1>1, OrderFacts
  <2> QED
    BY <1>7, <1>8, <2>1 DEF Order
<1>10. \A s \in Slots : mem[s] = NoOrder => mem'[s] = NoOrder
  BY <1>4, <1>5, <1>8
<1>11. SameOrders
  BY <1>9, <1>10, NoOrderAssumption DEF SameOrders
<1>12. TypeOK'
  <2>1. mem' \in [Slots -> Order \cup {NoOrder}]
    BY <1>8, <1>9, <1>10
  <2>2. call' \in Calls
    BY <1>1, <1>2, <1>3, <1>4, <1>5, <1>7, ListFacts DEF TypeOK, Calls
  <2> QED
    BY <1>1, <2>1, <2>2 DEF TypeOK, Levels
<1>13. /\ Pool!PoolPartition'
       /\ ListedAreLive' /\ IndexedAreListed'
       /\ TimePriority' /\ NoEmptyLevel' /\ NotCrossed'
  <2>1. ListsKept
    BY <1>1, SameBookKept
  <2>2. ASSUME NEW s \in Slots, NEW sd \in Sides, NEW x \in Levels(sd),
               Linked(s, sd, x)
        PROVE  mem'[s].quantity > 0
    <3>1. mem[s] # NoOrder /\ mem[s].quantity > 0
      BY <2>2 DEF StepInv, BookInv, CallInv, ListedAreLive, Linked
    <3> QED
      BY <1>9, <3>1
  <2> QED
    BY <1>1, <1>11, <2>1, <2>2, KeptListsInv
<1>14. call'.taker = call.taker /\ call'.maker = ptr /\ call'.level = p
       /\ call'.quantity = q /\ call'.at = "callback"
  BY <1>1, <1>2 DEF TypeOK, Calls
<1>15. MakerInFront'
  <2>1. /\ Taker' = mem'[call.taker] /\ Maker' = mem'[ptr]
        /\ mem'[call.taker] # NoOrder /\ mem'[ptr] # NoOrder
    BY <1>4, <1>5, <1>9, <1>14, NoOrderAssumption DEF Taker, Maker
  <2>2. /\ mem'[ptr].side = side
        /\ mem'[ptr].quantity = mem[ptr].quantity
        /\ mem'[call.taker].side = Taker.side
        /\ mem'[call.taker].price = Taker.price
        /\ mem'[call.taker].quantity = Taker.quantity
    BY <1>4, <1>5, <1>9
  <2>3. p \in DOMAIN book'[side] /\ Head(book'[side][p].orders) = ptr
    BY <1>1, <1>2 DEF Levels
  <2> QED
    BY <1>2, <1>3, <1>7, <1>14, <2>1, <2>2, <2>3 DEF MakerInFront, Levels
<1>16. TakerIsPrivate' /\ TakerComesLast' /\ AcceptedBefore'
  <2>1. ListsKept
    BY <1>1, SameBookKept
  <2> QED
    BY <1>1, <1>11, <1>14, <2>1, SameTakerInv
<1> QED
  BY <1>12, <1>13, <1>15, <1>16 DEF StepInv, BookInv, CallInv

\* The trade a callback is told of.
LEMMA CallbackFacts ==
  ASSUME StepInv, InCallback
  PROVE  /\ ~Idle
         /\ call.maker \in Slots /\ call.maker # call.taker
         /\ Maker # NoOrder
         /\ Maker.side \in Sides /\ Maker.side = Opposite(Taker.side)
         /\ Maker.id \in OrderIDs
         /\ Maker.price = call.level
         /\ call.level \in Levels(Maker.side)
         /\ Crosses(Taker.side, Taker.price, call.level)
         /\ Head(book[Maker.side][call.level].orders) = call.maker
         /\ Linked(call.maker, Maker.side, call.level)
         /\ Maker.quantity \in 0 .. MAX_QUANTITY /\ Maker.quantity \in Nat
         /\ Maker.quantity > 0
         /\ call.quantity \in Nat
         /\ call.quantity <= Maker.quantity /\ call.quantity <= Taker.quantity
<1>1. /\ TypeOK /\ ~Idle
      /\ Maker # NoOrder
      /\ Maker.side = Opposite(Taker.side)
      /\ call.level \in Levels(Maker.side)
      /\ Crosses(Taker.side, Taker.price, call.level)
      /\ Head(book[Maker.side][call.level].orders) = call.maker
      /\ call.quantity <= Maker.quantity /\ call.quantity <= Taker.quantity
  BY DEF StepInv, BookInv, CallInv, MakerInFront, InCallback, Idle
<1>2. /\ Opposite(Taker.side) \in Sides
      /\ \A side \in Sides : \A p \in Levels(side) :
           ~Linked(call.taker, side, p)
  BY <1>1, TakerFacts
<1>3. Maker.side \in Sides /\ call.level \in Levels(Maker.side)
  BY <1>1, <1>2
<1>4. PICK side \in Sides : side = Maker.side
  BY <1>3
<1>5. PICK s : s = call.maker
  OBVIOUS
<1>6. /\ call.level \in Levels(side)
      /\ s = Head(book[side][call.level].orders)
  BY <1>1, <1>3, <1>4, <1>5
<1>7. /\ s \in Slots
      /\ Linked(s, side, call.level)
      /\ mem[s] # NoOrder
      /\ mem[s].side = side /\ mem[s].price = call.level
      /\ mem[s].quantity \in 0 .. MAX_QUANTITY
      /\ mem[s].quantity \in Nat /\ mem[s].quantity > 0
  BY <1>6, FrontFacts
<1>8. mem[s].id \in OrderIDs
  BY <1>1, <1>7, OrderFacts
<1>9. call.quantity \in Nat
  BY <1>1 DEF TypeOK, Calls
<1> QED
  BY <1>1, <1>2, <1>3, <1>4, <1>5, <1>7, <1>8, <1>9 DEF Maker

\* After the callback the call is back in the loop.
LEMMA NextTurnFacts ==
  ASSUME TypeOK, call' = NextTurn
  PROVE  /\ call' \in Calls
         /\ call'.taker = call.taker
         /\ ~Idle' /\ ~InCallback'
<1>1. call' = [at |-> "matching", taker |-> call.taker, maker |-> Null,
               level |-> 0, quantity |-> 0]
  BY DEF TypeOK, Calls, NextTurn
<1>2. call.taker \in Slots \cup {Null} /\ 0 \in 0 .. MAX_QUANTITY
  BY LimitsAssumption DEF TypeOK, Calls
<1> QED
  BY <1>1, <1>2 DEF Calls, Idle, InCallback

LEMMA SettlePartialInv ==
  ASSUME StepInv, SettlePartial
  PROVE  StepInv'
<1>1. /\ TypeOK /\ InCallback /\ ~Idle
      /\ Maker.quantity # call.quantity
      /\ call' = NextTurn
      /\ UNCHANGED <<free_list, order_map, now, result>>
  BY DEF StepInv, BookInv, CallInv, SettlePartial, InCallback, Idle
<1>2. PICK ptr, tk, q : ptr = call.maker /\ tk = call.taker /\ q = call.quantity
  OBVIOUS
<1>3. /\ ptr \in Slots /\ tk \in Slots /\ ptr # tk
      /\ mem[ptr] # NoOrder /\ mem[tk] # NoOrder
      /\ q \in Nat /\ mem[ptr].quantity \in Nat /\ mem[tk].quantity \in Nat
      /\ q < mem[ptr].quantity /\ q <= mem[tk].quantity
      /\ mem[ptr].quantity <= MAX_QUANTITY /\ mem[tk].quantity <= MAX_QUANTITY
  BY <1>1, <1>2, CallbackFacts, TakerFacts DEF Maker, Taker
<1>4. \A side \in Sides : \A p \in Levels(side) : ~Linked(tk, side, p)
  BY <1>1, <1>2, TakerFacts
<1>5. mem' = [mem EXCEPT ![ptr].quantity = @ - q, ![tk].quantity = @ - q]
  BY <1>2 DEF SettlePartial
<1>6. mem' = [s \in Slots |->
                IF s \in {ptr, tk}
                THEN [mem[s] EXCEPT !.quantity = @ - q] ELSE mem[s]]
  BY <1>1, <1>3, <1>5 DEF TypeOK
<1>7. ASSUME NEW s \in Slots, mem[s] # NoOrder
      PROVE  /\ mem'[s] \in Order
             /\ mem'[s].id = mem[s].id /\ mem'[s].price = mem[s].price
             /\ mem'[s].side = mem[s].side
             /\ mem'[s].timestamp = mem[s].timestamp
             /\ s # tk /\ mem[s].quantity > 0 => mem'[s].quantity > 0
  <2>1. mem[s] \in Order
    BY <1>1, <1>7, OrderFacts
  <2>2. CASE s \in {ptr, tk}
    <3>1. mem'[s] = [mem[s] EXCEPT !.quantity = mem[s].quantity - q]
      BY <1>6, <2>2
    <3>2. mem[s].quantity - q \in 0 .. MAX_QUANTITY
      BY <1>3, <2>2, LimitsAssumption
    <3>3. s # tk => mem[s].quantity - q > 0
      BY <1>3, <2>2
    <3> QED
      BY <2>1, <3>1, <3>2, <3>3 DEF Order
  <2>3. CASE s \notin {ptr, tk}
    BY <1>6, <2>1, <2>3
  <2> QED
    BY <2>2, <2>3
<1>8. \A s \in Slots : mem[s] = NoOrder => mem'[s] = NoOrder
  BY <1>3, <1>6
<1>9. SameOrders
  BY <1>7, <1>8, NoOrderAssumption DEF SameOrders
<1>10. ListsKept
  <2>1. PICK sd \in Sides : sd = Maker.side
    BY <1>1, CallbackFacts
  <2>2. call.level \in Levels(sd)
    BY <1>1, <2>1, CallbackFacts
  <2>3. book' = ReduceLevel(sd, call.level, q)
    BY <1>2, <2>1 DEF SettlePartial
  <2> QED
    BY <1>1, <1>3, <2>2, <2>3, ReduceKeepsLists
<1>11. call' \in Calls /\ call'.taker = tk /\ ~Idle' /\ ~InCallback'
  BY <1>1, <1>2, NextTurnFacts
<1>12. TypeOK'
  <2>1. mem' \in [Slots -> Order \cup {NoOrder}]
    BY <1>6, <1>7, <1>8
  <2>2. \A sd \in Sides : /\ DOMAIN book'[sd] \subseteq Prices
                          /\ \A x \in DOMAIN book'[sd] : book'[sd][x] \in Level
    BY <1>1, <1>10 DEF ListsKept, TypeOK
  <2>3. DOMAIN book' = Sides
    BY <1>10 DEF ListsKept
  <2> QED
    BY <1>1, <1>11, <2>1, <2>2, <2>3 DEF TypeOK, Levels
<1>13. /\ Pool!PoolPartition'
       /\ ListedAreLive' /\ IndexedAreListed'
       /\ TimePriority' /\ NoEmptyLevel' /\ NotCrossed'
  <2>1. ASSUME NEW s \in Slots, NEW sd \in Sides, NEW x \in Levels(sd),
               Linked(s, sd, x)
        PROVE  mem'[s].quantity > 0
    <3>1. mem[s] # NoOrder /\ mem[s].quantity > 0
      BY <2>1 DEF StepInv, BookInv, CallInv, ListedAreLive, Linked
    <3>2. s # tk
      BY <1>4, <2>1
    <3> QED
      BY <1>7, <3>1, <3>2
  <2> QED
    BY <1>1, <1>9, <1>10, <2>1, KeptListsInv
<1>14. MakerInFront'
  BY <1>11 DEF MakerInFront
<1>15. TakerIsPrivate' /\ TakerComesLast' /\ AcceptedBefore'
  BY <1>1, <1>2, <1>9, <1>10, <1>11, SameTakerInv
<1> QED
  BY <1>12, <1>13, <1>14, <1>15 DEF StepInv, BookInv, CallInv

-----------------------------------------------------------------------------
(***************************************************************************)
(* Steps that take one order out of the book and give its slot back: the   *)
(* maker is filled, or an order is cancelled.                              *)
(***************************************************************************)
\* Only this order goes.
SameOthers(ptr) ==
  /\ mem' \in [Slots -> Order \cup {NoOrder}]
  /\ mem'[ptr] = NoOrder
  /\ \A s \in Slots \ {ptr} :
       /\ mem'[s] = NoOrder <=> mem[s] = NoOrder
       /\ mem[s] # NoOrder =>
            /\ mem'[s].id = mem[s].id
            /\ mem'[s].price = mem[s].price
            /\ mem'[s].side = mem[s].side
            /\ mem'[s].timestamp = mem[s].timestamp

Released(ptr) ==
  /\ free_list' = Pool!PushBack(free_list, ptr)
  /\ order_map' = [order_map EXCEPT ![mem[ptr].id] = Null]
  /\ now' = now

LEMMA ReleasedPool ==
  ASSUME StepInv, NEW ptr \in Slots, mem[ptr] # NoOrder,
         mem'[ptr] = NoOrder,
         \A s \in Slots \ {ptr} : mem'[s] = NoOrder <=> mem[s] = NoOrder,
         free_list' = Pool!PushBack(free_list, ptr)
  PROVE  Pool!PoolPartition' /\ free_list' \in Seq(Slots)
<1>1. Live' = Live \ {ptr} /\ ptr \in Live
  BY SlotFacts DEF Live
<1>2. Pool!Deallocate(ptr)
  BY <1>1 DEF Pool!Deallocate
<1>3. Pool!PoolPartition'
  BY <1>2, PoolDeallocate DEF StepInv
<1>4. free_list \in Seq(Slots)
  BY DEF StepInv, BookInv, CallInv, TypeOK
<1> QED
  BY <1>3, <1>4 DEF Pool!PushBack

LEMMA UnlinkedBookInv ==
  ASSUME StepInv, NEW ptr \in Slots, mem[ptr] # NoOrder,
         Unlinked(ptr), SameOthers(ptr), Released(ptr),
         \A s \in Slots : \A side \in Sides : \A p \in Levels(side) :
           Linked(s, side, p) /\ s # ptr => mem'[s].quantity > 0
  PROVE  /\ ListedAreLive' /\ IndexedAreListed'
         /\ TimePriority' /\ NoEmptyLevel' /\ NotCrossed'
<1>1. TypeOK /\ ListedAreLive /\ IndexedAreListed /\ TimePriority
      /\ NoEmptyLevel /\ NotCrossed
  BY DEF StepInv, BookInv, CallInv
<1>2. ASSUME NEW sd \in Sides, NEW x \in DOMAIN book'[sd]
      PROVE  Survivors(ptr, sd, x)
  BY <1>2 DEF Unlinked
<1>3. ASSUME NEW s, NEW sd \in Sides, NEW x \in Levels(sd), Linked(s, sd, x)
      PROVE  s \in Slots /\ mem[s] # NoOrder
             /\ mem[s].side = sd /\ mem[s].price = x
  BY <1>1, <1>3, ListFacts DEF Linked, ListedAreLive
<1>4. ListedAreLive'
  <2> SUFFICES ASSUME NEW sd \in Sides, NEW x \in DOMAIN book'[sd],
                      NEW i \in 1 .. Len(book'[sd][x].orders),
                      NEW s, s = book'[sd][x].orders[i]
               PROVE  /\ mem'[s] # NoOrder
                      /\ mem'[s].side = sd /\ mem'[s].price = x
                      /\ mem'[s].quantity > 0
    BY DEF ListedAreLive, Levels
  <2>1. s # ptr /\ Linked(s, sd, x) /\ x \in Levels(sd)
    BY <1>2 DEF Survivors
  <2>2. s \in Slots /\ mem[s] # NoOrder /\ mem[s].side = sd /\ mem[s].price = x
    BY <1>3, <2>1
  <2> QED
    BY <2>1, <2>2 DEF SameOthers
<1>5. IndexedAreListed'
  <2> SUFFICES ASSUME NEW id \in OrderIDs, order_map'[id] # Null,
                      NEW s, s = order_map'[id]
               PROVE  /\ mem'[s] # NoOrder
                      /\ mem'[s].id = id
                      /\ mem'[s].price \in DOMAIN book'[mem'[s].side]
                      /\ LinkedNext(s, mem'[s].side, mem'[s].price)
    BY DEF IndexedAreListed, Linked, LinkedNext, Levels, Null, Pool!Null
  <2>1. order_map \in [OrderIDs -> Slots \cup {Null}]
    BY <1>1 DEF TypeOK
  <2>2. order_map'[id] = order_map[id] /\ id # mem[ptr].id
    BY <2>1 DEF Released
  <2>3. /\ s \in Slots
        /\ mem[s] # NoOrder /\ mem[s].id = id
        /\ mem[s].price \in Levels(mem[s].side)
        /\ Linked(s, mem[s].side, mem[s].price)
    BY <1>1, <2>1, <2>2 DEF IndexedAreListed
  <2>4. s # ptr /\ mem[s].side \in Sides
    BY <1>1, <2>2, <2>3, OrderFacts
  <2>5. /\ mem'[s] # NoOrder /\ mem'[s].id = id
        /\ mem'[s].side = mem[s].side /\ mem'[s].price = mem[s].price
    BY <2>3, <2>4 DEF SameOthers
  <2>6. PICK sd, x : sd = mem[s].side /\ x = mem[s].price
    OBVIOUS
  <2>7. sd \in Sides /\ x \in Levels(sd) /\ Others(ptr, sd, x)
        /\ Linked(s, sd, x)
    BY <2>3, <2>4, <2>6 DEF Unlinked
  <2>8. x \in DOMAIN book'[sd] /\ LinkedNext(s, sd, x)
    BY <2>4, <2>7 DEF Others, Linked, LinkedNext
  <2> QED
    BY <2>5, <2>6, <2>8
<1>6. TimePriority'
  <2> SUFFICES ASSUME NEW sd \in Sides, NEW x \in DOMAIN book'[sd],
                      NEW i \in 1 .. Len(book'[sd][x].orders),
                      NEW j \in 1 .. Len(book'[sd][x].orders),
                      i < j
               PROVE  mem'[book'[sd][x].orders[i]].timestamp
                        < mem'[book'[sd][x].orders[j]].timestamp
    BY DEF TimePriority, Levels
  <2>1. PICK a, b : a = book'[sd][x].orders[i] /\ b = book'[sd][x].orders[j]
    OBVIOUS
  <2>2. /\ x \in Levels(sd)
        /\ a # ptr /\ Linked(a, sd, x)
        /\ b # ptr /\ Linked(b, sd, x)
    BY <1>2, <2>1 DEF Survivors
  <2>3. \E k, l \in 1 .. Len(book[sd][x].orders) :
          k < l /\ a = book[sd][x].orders[k] /\ b = book[sd][x].orders[l]
    BY <1>2, <2>1 DEF Survivors
  <2>4. mem[a].timestamp < mem[b].timestamp
    BY <1>1, <2>2, <2>3 DEF TimePriority
  <2>5. /\ a \in Slots /\ mem[a] # NoOrder
        /\ b \in Slots /\ mem[b] # NoOrder
    BY <1>3, <2>2
  <2> QED
    BY <2>1, <2>2, <2>4, <2>5 DEF SameOthers
<1>7. NoEmptyLevel'
  BY <1>2 DEF Survivors, NoEmptyLevel, Levels
<1>8. NotCrossed'
  <2>1. \A sd \in Sides : DOMAIN book'[sd] \subseteq Levels(sd)
    BY <1>2 DEF Survivors
  <2> QED
    BY <1>1, <2>1, SideFacts DEF NotCrossed, Levels
<1> QED
  BY <1>4, <1>5, <1>6, <1>7, <1>8

LEMMA UnlinkedTakerInv ==
  ASSUME StepInv, NEW ptr \in Slots, mem[ptr] # NoOrder,
         Unlinked(ptr), SameOthers(ptr), Released(ptr),
         Idle' <=> Idle, call'.taker = call.taker, ~Idle => ptr # call.taker
  PROVE  TakerIsPrivate' /\ TakerComesLast' /\ AcceptedBefore'
<1>1. TypeOK /\ TakerIsPrivate /\ TakerComesLast /\ AcceptedBefore
  BY DEF StepInv, BookInv, CallInv
<1>2. ASSUME ~Idle
      PROVE  /\ call.taker \in Slots /\ call.taker # ptr
             /\ mem[call.taker] # NoOrder
             /\ mem'[call.taker] # NoOrder
             /\ mem'[call.taker].id = mem[call.taker].id
             /\ mem'[call.taker].side = mem[call.taker].side
             /\ mem'[call.taker].price = mem[call.taker].price
             /\ mem'[call.taker].timestamp = mem[call.taker].timestamp
             /\ mem[call.taker].id \in OrderIDs
             /\ order_map[mem[call.taker].id] = Null
             /\ \A side \in Sides : \A p \in Levels(side) :
                  ~Linked(call.taker, side, p)
  <2>1. /\ call.taker \in Slots /\ call.taker # ptr
        /\ mem[call.taker] # NoOrder
        /\ order_map[mem[call.taker].id] = Null
        /\ \A side \in Sides : \A p \in Levels(side) :
             ~Linked(call.taker, side, p)
    BY <1>2, TakerFacts DEF Taker
  <2>2. mem[call.taker].id \in OrderIDs
    BY <1>1, <2>1, OrderFacts
  <2> QED
    BY <2>1, <2>2 DEF SameOthers
<1>3. TakerIsPrivate'
  <2> SUFFICES ASSUME ~Idle
               PROVE  /\ call.taker # Null /\ mem'[call.taker] # NoOrder
                      /\ order_map'[mem'[call.taker].id] = Null
                      /\ \A sd \in Sides : \A x \in DOMAIN book'[sd] :
                           ~LinkedNext(call.taker, sd, x)
    BY DEF TakerIsPrivate, Taker, Linked, LinkedNext, Levels, Null, Pool!Null
  <2>1. order_map'[mem[call.taker].id] = Null
    BY <1>1, <1>2 DEF Released, TypeOK
  <2>2. ASSUME NEW sd \in Sides, NEW x \in DOMAIN book'[sd]
        PROVE  ~LinkedNext(call.taker, sd, x)
    <3>1. Survivors(ptr, sd, x)
      BY DEF Unlinked
    <3> QED
      BY <1>2, <3>1 DEF Survivors, LinkedNext
  <2>3. call.taker # Null
    BY <1>2, SlotFacts
  <2> QED
    BY <1>2, <2>1, <2>2, <2>3
<1>4. AcceptedBefore'
  <2> SUFFICES ASSUME NEW s \in Slots, mem'[s] # NoOrder
               PROVE  mem'[s].timestamp < now
    BY SlotFacts DEF AcceptedBefore, Live, Released
  <2>1. mem[s] # NoOrder /\ mem'[s].timestamp = mem[s].timestamp
    BY DEF SameOthers
  <2> QED
    BY <1>1, <2>1, SlotFacts DEF AcceptedBefore, Live
<1>5. ASSUME ~Idle
      PROVE  TakerComesLast'
  <2>1. PICK sd, x, tm : /\ sd = mem[call.taker].side
                         /\ x = mem[call.taker].price
                         /\ tm = mem[call.taker].timestamp
    OBVIOUS
  <2>2. sd \in Sides
    BY <1>1, <1>2, <1>5, <2>1, OrderFacts
  <2>3. ASSUME NEW s \in Slots, x \in DOMAIN book'[sd], LinkedNext(s, sd, x)
        PROVE  mem'[s].timestamp < tm
    <3>1. Survivors(ptr, sd, x)
      BY <2>2, <2>3 DEF Unlinked
    <3>2. x \in Levels(sd) /\ Linked(s, sd, x) /\ s # ptr
      BY <2>3, <3>1 DEF Survivors, LinkedNext
    <3>3. mem[s] # NoOrder
      BY <2>2, <3>2 DEF StepInv, BookInv, ListedAreLive, Linked
    <3>4. mem[s].timestamp < tm
      BY <1>1, <1>5, <2>1, <3>2 DEF TakerComesLast, Taker
    <3> QED
      BY <3>2, <3>3, <3>4 DEF SameOthers
  <2>4. Taker'.side = sd /\ Taker'.price = x /\ Taker'.timestamp = tm
    BY <1>2, <1>5, <2>1 DEF Taker
  <2> QED
    BY <2>3, <2>4 DEF TakerComesLast, LinkedNext, Linked, Levels, Slots,
       Pool!Slots
<1>6. ASSUME Idle
      PROVE  TakerComesLast'
  BY <1>6 DEF TakerComesLast
<1> QED
  BY <1>3, <1>4, <1>5, <1>6

LEMMA UnlinkedTypeOK ==
  ASSUME StepInv, NEW ptr \in Slots, mem[ptr] # NoOrder,
         Unlinked(ptr), SameOthers(ptr), Released(ptr),
         call' \in Calls, result' \in ErrorCodes
  PROVE  TypeOK'
<1>1. TypeOK
  BY DEF StepInv, BookInv, CallInv
<1>2. free_list' \in Seq(Slots)
  BY <1>1 DEF TypeOK, Released, Pool!PushBack
<1>3. order_map' \in [OrderIDs -> Slots \cup {Null}]
  BY <1>1 DEF TypeOK, Released
<1>4. \A sd \in Sides : /\ DOMAIN book'[sd] \subseteq Prices
                        /\ \A x \in DOMAIN book'[sd] : book'[sd][x] \in Level
  BY <1>1 DEF Unlinked, Survivors, TypeOK
<1>5. DOMAIN book' = Sides
  BY DEF Unlinked
<1>6. now' \in Nat /\ mem' \in [Slots -> Order \cup {NoOrder}]
  BY <1>1 DEF TypeOK, Released, SameOthers
<1> QED
  BY <1>2, <1>3, <1>4, <1>5, <1>6 DEF TypeOK, Levels, Slots, Pool!Slots, Null,
     Pool!Null

LEMMA SettleFilledInv ==
  ASSUME StepInv, SettleFilled
  PROVE  StepInv'
<1>1. /\ TypeOK /\ InCallback /\ ~Idle
      /\ Maker.quantity = call.quantity
      /\ call' = NextTurn
      /\ UNCHANGED <<now, result>>
  BY DEF StepInv, BookInv, CallInv, SettleFilled, InCallback, Idle
<1>2. PICK ptr, tk, q : ptr = call.maker /\ tk = call.taker /\ q = call.quantity
  OBVIOUS
<1>3. /\ ptr \in Slots /\ tk \in Slots /\ ptr # tk
      /\ mem[ptr] # NoOrder /\ mem[tk] # NoOrder
      /\ q \in Nat /\ mem[tk].quantity \in Nat
      /\ q <= mem[tk].quantity
      /\ mem[tk].quantity <= MAX_QUANTITY
  BY <1>1, <1>2, CallbackFacts, TakerFacts DEF Maker, Taker
<1>4. \A side \in Sides : \A p \in Levels(side) : ~Linked(tk, side, p)
  BY <1>1, <1>2, TakerFacts
<1>5. mem' = [mem EXCEPT ![ptr] = NoOrder, ![tk].quantity = @ - q]
  BY <1>2 DEF SettleFilled
<1>6. /\ mem'[ptr] = NoOrder
      /\ mem'[tk] = [mem[tk] EXCEPT !.quantity = mem[tk].quantity - q]
      /\ \A s \in Slots \ {ptr, tk} : mem'[s] = mem[s]
      /\ DOMAIN mem' = Slots
      /\ mem' = [s \in Slots |-> mem'[s]]
  BY <1>1, <1>3, <1>5 DEF TypeOK
<1>7. /\ mem'[tk] \in Order
      /\ mem'[tk].id = mem[tk].id /\ mem'[tk].price = mem[tk].price
      /\ mem'[tk].side = mem[tk].side
      /\ mem'[tk].timestamp = mem[tk].timestamp
  <2>1. mem[tk] \in Order /\ mem[tk].quantity - q \in 0 .. MAX_QUANTITY
    BY <1>1, <1>3, OrderFacts, LimitsAssumption
  <2> QED
    BY <1>6, <2>1 DEF Order
<1>8. SameOthers(ptr)
  <2>1. \A s \in Slots : mem'[s] \in Order \cup {NoOrder}
    BY <1>1, <1>6, <1>7 DEF TypeOK
  <2>2. mem' \in [Slots -> Order \cup {NoOrder}]
    BY <1>6, <2>1
  <2> QED
    BY <1>3, <1>6, <1>7, <2>2, NoOrderAssumption DEF SameOthers
<1>9. Released(ptr)
  BY <1>1, <1>2 DEF Released, SettleFilled, Maker
<1>10. Unlinked(ptr)
  <2>1. PICK sd \in Sides : sd = Maker.side
    BY <1>1, CallbackFacts
  <2>2. call.level \in Levels(sd) /\ Linked(ptr, sd, call.level)
    BY <1>1, <1>2, <2>1, CallbackFacts
  <2>3. book' = RemoveFromPriceLevel(sd, call.level, ptr, q)
    BY <1>2, <2>1 DEF SettleFilled
  <2> QED
    BY <1>3, <2>2, <2>3, RemoveUnlinks
<1>11. call' \in Calls /\ call'.taker = call.taker /\ ~Idle' /\ ~InCallback'
  BY <1>1, NextTurnFacts
<1>12. TypeOK'
  <2>1. result' \in ErrorCodes
    BY <1>1 DEF TypeOK
  <2> QED
    BY <1>3, <1>8, <1>9, <1>10, <1>11, <2>1, UnlinkedTypeOK
<1>13. Pool!PoolPartition'
  BY <1>3, <1>8, <1>9, ReleasedPool DEF SameOthers, Released
<1>14. /\ ListedAreLive' /\ IndexedAreListed'
       /\ TimePriority' /\ NoEmptyLevel' /\ NotCrossed'
  <2>1. ASSUME NEW s \in Slots, NEW sd \in Sides, NEW x \in Levels(sd),
               Linked(s, sd, x), s # ptr
        PROVE  mem'[s].quantity > 0
    <3>1. mem[s].quantity > 0
      BY <2>1 DEF StepInv, BookInv, CallInv, ListedAreLive, Linked
    <3>2. s # tk
      BY <1>4, <2>1
    <3> QED
      BY <1>6, <2>1, <3>1, <3>2
  <2> QED
    BY <1>3, <1>8, <1>9, <1>10, <2>1, UnlinkedBookInv
<1>15. TakerIsPrivate' /\ TakerComesLast' /\ AcceptedBefore'
  BY <1>1, <1>2, <1>3, <1>8, <1>9, <1>10, <1>11, UnlinkedTakerInv
<1>16. MakerInFront'
  BY <1>11 DEF MakerInFront
<1> QED
  BY <1>12, <1>13, <1>14, <1>15, <1>16 DEF StepInv, BookInv, CallInv

LEMMA CancelOrderInv ==
  ASSUME StepInv, NEW id \in OrderIDs, CancelOrder(id)
  PROVE  StepInv'
<1>1. /\ TypeOK /\ IndexedAreListed
      /\ MayCancel(id) /\ order_map[id] # Null
      /\ UNCHANGED <<call, now>>
  BY DEF StepInv, BookInv, CallInv, CancelOrder
<1>2. PICK ptr : ptr = order_map[id]
  OBVIOUS
<1>3. PICK sd, x : sd = mem[ptr].side /\ x = mem[ptr].price
  OBVIOUS
<1>4. /\ ptr \in Slots /\ mem[ptr] # NoOrder /\ mem[ptr].id = id
      /\ x \in Levels(sd) /\ Linked(ptr, sd, x)
  BY <1>1, <1>2, <1>3 DEF IndexedAreListed, TypeOK
<1>5. sd \in Sides /\ mem[ptr].quantity \in Nat
  BY <1>1, <1>3, <1>4, OrderFacts
<1>6. /\ book' = RemoveFromPriceLevel(sd, x, ptr, mem[ptr].quantity)
      /\ mem' = [mem EXCEPT ![ptr] = NoOrder]
      /\ free_list' = Pool!PushBack(free_list, ptr)
      /\ order_map' = [order_map EXCEPT ![id] = Null]
      /\ result' = "SUCCESS"
  BY <1>2, <1>3 DEF CancelOrder
<1>7. mem \in [Slots -> Order \cup {NoOrder}]
  BY <1>1 DEF TypeOK
<1>8. SameOthers(ptr)
  BY <1>4, <1>6, <1>7 DEF SameOthers
<1>9. Released(ptr)
  BY <1>1, <1>4, <1>6 DEF Released
<1>10. Unlinked(ptr)
  BY <1>4, <1>5, <1>6, RemoveUnlinks
<1>11. ~Idle => ptr # call.taker
  <2>1. ~Idle => ~Linked(call.taker, sd, x)
    BY <1>4, <1>5, TakerFacts
  <2> QED
    BY <1>4, <2>1
<1>12. TypeOK'
  <2>1. call' \in Calls /\ result' \in ErrorCodes
    BY <1>1, <1>6 DEF TypeOK, ErrorCodes
  <2> QED
    BY <1>4, <1>8, <1>9, <1>10, <2>1, UnlinkedTypeOK
<1>13. Pool!PoolPartition'
  BY <1>4, <1>8, <1>9, ReleasedPool DEF SameOthers, Released
<1>14. /\ ListedAreLive' /\ IndexedAreListed'
       /\ TimePriority' /\ NoEmptyLevel' /\ NotCrossed'
  <2>1. ASSUME NEW s \in Slots, NEW side \in Sides, NEW p \in Levels(side),
               Linked(s, side, p), s # ptr
        PROVE  mem'[s].quantity > 0
    <3>1. mem[s].quantity > 0
      BY <2>1 DEF StepInv, BookInv, CallInv, ListedAreLive, Linked
    <3> QED
      BY <1>6, <1>7, <2>1, <3>1
  <2> QED
    BY <1>4, <1>8, <1>9, <1>10, <2>1, UnlinkedBookInv
<1>15. TakerIsPrivate' /\ TakerComesLast' /\ AcceptedBefore'
  <2>1. (Idle' <=> Idle) /\ call'.taker = call.taker
    BY <1>1 DEF Idle
  <2> QED
    BY <1>4, <1>8, <1>9, <1>10, <1>11, <2>1, UnlinkedTakerInv
<1>16. MakerInFront'
  <2> SUFFICES ASSUME InCallback
               PROVE  MakerInFront'
    BY <1>1 DEF MakerInFront, InCallback
  <2>1. PICK mk, tk, msd, lev : /\ mk = call.maker /\ tk = call.taker
                                /\ msd = Maker.side /\ lev = call.level
    OBVIOUS
  <2>2. ptr # mk /\ ptr # tk
    BY <1>1, <1>2, <1>11, <2>1 DEF MayCancel, Idle, InCallback
  <2>3. /\ mk \in Slots /\ tk \in Slots
        /\ msd \in Sides /\ lev \in Levels(msd)
        /\ Head(book[msd][lev].orders) = mk
    BY <2>1, CallbackFacts, TakerFacts
  <2>4. mem'[mk] = mem[mk] /\ mem'[tk] = mem[tk]
    BY <1>6, <1>7, <2>2, <2>3
  <2>5. Others(ptr, msd, lev)
    BY <1>10, <2>3 DEF Unlinked
  <2>6. lev \in DOMAIN book'[msd] /\ Head(book'[msd][lev].orders) = mk
    BY <2>2, <2>3, <2>5 DEF Others
  <2>9. /\ Taker' = Taker /\ Maker' = Maker
        /\ call' = call
    BY <1>1, <2>1, <2>4 DEF Taker, Maker
  <2>10. MakerInFront
    BY DEF StepInv, BookInv, CallInv
  <2> QED
    BY <2>1, <2>6, <2>9, <2>10 DEF MakerInFront, Levels
<1> QED
  BY <1>12, <1>13, <1>14, <1>15, <1>16 DEF StepInv, BookInv, CallInv

-----------------------------------------------------------------------------
(***************************************************************************)
(* Steps that change one slot no list and no index leads to: an order is   *)
(* accepted, or a taker is filled.                                         *)
(***************************************************************************)
LEMMA UnlistedStepInv ==
  ASSUME StepInv, NEW ptr \in Slots,
         \A s \in Slots \ {ptr} : mem'[s] = mem[s],
         \A side \in Sides : \A p \in Levels(side) : ~Linked(ptr, side, p),
         UNCHANGED <<book, order_map>>
  PROVE  /\ ListedAreLive' /\ IndexedAreListed'
         /\ TimePriority' /\ NoEmptyLevel' /\ NotCrossed'
<1>1. TypeOK /\ ListedAreLive /\ IndexedAreListed /\ TimePriority
      /\ NoEmptyLevel /\ NotCrossed
  BY DEF StepInv, BookInv, CallInv
<1>2. ASSUME NEW sd \in Sides, NEW x \in Levels(sd),
             NEW k \in 1 .. Len(book[sd][x].orders)
      PROVE  mem'[book[sd][x].orders[k]] = mem[book[sd][x].orders[k]]
  <2>1. Linked(book[sd][x].orders[k], sd, x)
    BY DEF Linked
  <2> QED
    BY <1>1, <2>1, ListFacts
<1>3. ListedAreLive'
  BY <1>1, <1>2 DEF ListedAreLive, Levels
<1>4. IndexedAreListed'
  <2> SUFFICES ASSUME NEW id \in OrderIDs, order_map[id] # Null,
                      NEW s, s = order_map[id]
               PROVE  /\ mem'[s] # NoOrder
                      /\ mem'[s].id = id
                      /\ mem'[s].price \in DOMAIN book[mem'[s].side]
                      /\ Linked(s, mem'[s].side, mem'[s].price)
    BY DEF IndexedAreListed, Linked, Levels
  <2>1. /\ s \in Slots
        /\ mem[s] # NoOrder /\ mem[s].id = id
        /\ mem[s].price \in Levels(mem[s].side)
        /\ Linked(s, mem[s].side, mem[s].price)
    BY <1>1 DEF IndexedAreListed, TypeOK
  <2>2. mem[s].side \in Sides
    BY <1>1, <2>1, OrderFacts
  <2>3. s # ptr
    BY <2>1, <2>2
  <2> QED
    BY <2>1, <2>3 DEF Levels
<1>5. TimePriority'
  BY <1>1, <1>2 DEF TimePriority, Levels
<1>6. NoEmptyLevel' /\ NotCrossed'
  BY <1>1 DEF NoEmptyLevel, NotCrossed, Levels
<1> QED
  BY <1>3, <1>4, <1>5, <1>6

LEMMA AcceptedOrder ==
  ASSUME NEW r, TypeOK, r.id \in OrderIDs, ArgumentError(r) = "SUCCESS"
  PROVE  NewOrder(r) \in Order
<1>1. r.quantity \in Quantities /\ r.price \in Prices /\ r.side \in Sides
  BY DEF ArgumentError
<1>2. r.id \in OrderIDs /\ now \in Nat /\ r.quantity \in 0 .. MAX_QUANTITY
  BY <1>1, LimitsAssumption DEF TypeOK, Quantities
<1> QED
  BY <1>1, <1>2 DEF NewOrder, Order

\* Whatever call is running: callbacks add orders too in the C API.
LEMMA AcceptedInv ==
  ASSUME NEW r, NEW ptr,
         StepInv, r.id \in OrderIDs, Refusal(r) = "SUCCESS",
         ptr = Pool!Back(free_list),
         mem' = [mem EXCEPT ![ptr] = NewOrder(r)],
         call' = [IdleCall EXCEPT !.at = "matching", !.taker = ptr],
         free_list' = Pool!PopBack(free_list),
         now' = now + 1,
         UNCHANGED <<book, order_map, result>>
  PROVE  StepInv'
<1>1. /\ TypeOK /\ ListedAreLive
      /\ Pool!PoolPartition /\ AcceptedBefore
      /\ Refusal(r) = "SUCCESS"
      /\ now' = now + 1
      /\ UNCHANGED <<book, order_map, result>>
  BY DEF StepInv, BookInv, CallInv
<1>2. ptr = Pool!Back(free_list)
  OBVIOUS
<1>3. /\ mem' = [mem EXCEPT ![ptr] = NewOrder(r)]
      /\ call' = [IdleCall EXCEPT !.at = "matching", !.taker = ptr]
      /\ free_list' = Pool!PopBack(free_list)
  OBVIOUS
<1>4. /\ ArgumentError(r) = "SUCCESS"
      /\ order_map[r.id] = Null
      /\ free_list # << >>
  BY <1>1 DEF Refusal
<1>5. free_list \in Seq(Slots) /\ Len(free_list) \in 1 .. Len(free_list)
  BY <1>1, <1>4 DEF TypeOK
<1>6. /\ ptr \in Slots /\ mem[ptr] = NoOrder
      /\ ptr # Null
  <2>1. ptr \in Slots /\ ptr \notin Live
    BY <1>1, <1>2, <1>5
       DEF Pool!Back, Pool!PoolPartition, Pool!FreeIsNotLive
  <2> QED
    BY <2>1, SlotFacts
<1>7. /\ NewOrder(r) \in Order /\ NewOrder(r) # NoOrder
      /\ NewOrder(r).id = r.id /\ NewOrder(r).timestamp = now
  BY <1>1, <1>4, AcceptedOrder, NoOrderAssumption DEF NewOrder
<1>8. /\ mem' \in [Slots -> Order \cup {NoOrder}]
      /\ mem'[ptr] = NewOrder(r)
      /\ \A s \in Slots \ {ptr} : mem'[s] = mem[s]
  BY <1>1, <1>3, <1>6, <1>7 DEF TypeOK
<1>9. \A side \in Sides : \A p \in Levels(side) : ~Linked(ptr, side, p)
  BY <1>1, <1>6 DEF ListedAreLive, Linked
<1>10. /\ call' \in Calls /\ call'.taker = ptr /\ ~InCallback'
  <2>1. call' = [at |-> "matching", taker |-> ptr, maker |-> Null,
                 level |-> 0, quantity |-> 0]
    BY <1>3 DEF IdleCall
  <2> QED
    BY <1>6, <2>1, LimitsAssumption DEF Calls, InCallback
<1>11. TypeOK'
  <2>1. free_list' \in Seq(Slots)
    BY <1>3, <1>5 DEF Pool!PopBack
  <2>2. now' \in Nat
    BY <1>1 DEF TypeOK
  <2> QED
    BY <1>1, <1>8, <1>10, <2>1, <2>2 DEF TypeOK, Levels
<1>12. Pool!PoolPartition'
  <2>1. Live' = Live \cup {ptr}
    BY <1>6, <1>7, <1>8, SlotFacts DEF Live
  <2>2. Pool!Allocate(ptr)
    BY <1>2, <1>3, <1>4, <2>1 DEF Pool!Allocate
  <2> QED
    BY <1>6, <2>2, PoolAllocate DEF StepInv
<1>13. /\ ListedAreLive' /\ IndexedAreListed'
       /\ TimePriority' /\ NoEmptyLevel' /\ NotCrossed'
  BY <1>1, <1>6, <1>8, <1>9, UnlistedStepInv
<1>14. MakerInFront'
  BY <1>10 DEF MakerInFront
<1>15. TakerIsPrivate'
  BY <1>1, <1>4, <1>6, <1>7, <1>8, <1>9, <1>10
     DEF TakerIsPrivate, Taker, Linked, Levels
<1>16. ASSUME NEW s \in Slots, mem'[s] # NoOrder
       PROVE  /\ mem'[s].timestamp < now + 1
              /\ s # ptr => mem'[s].timestamp < mem'[ptr].timestamp
  <2>1. now \in Nat
    BY <1>1 DEF TypeOK
  <2>2. CASE s = ptr
    BY <1>7, <1>8, <2>1, <2>2
  <2>3. CASE s # ptr
    <3>1. mem'[s] = mem[s] /\ s \in Live
      BY <1>8, <1>16, <2>3, SlotFacts
    <3>2. mem[s].timestamp < now /\ mem[s].timestamp \in Nat
      BY <1>1, <1>8, <1>16, <3>1, OrderFacts DEF AcceptedBefore
    <3> QED
      BY <1>7, <1>8, <2>1, <3>1, <3>2
  <2> QED
    BY <2>2, <2>3
<1>17. AcceptedBefore'
  BY <1>1, <1>16, SlotFacts DEF AcceptedBefore, Live
<1>18. TakerComesLast'
  <2>1. PICK sd, x, tm : /\ sd = mem'[ptr].side /\ x = mem'[ptr].price
                         /\ tm = mem'[ptr].timestamp
    OBVIOUS
  <2>2. sd \in Sides
    BY <1>7, <1>8, <2>1 DEF Order
  <2>3. ASSUME NEW s \in Slots, x \in Levels(sd), Linked(s, sd, x)
        PROVE  mem'[s].timestamp < tm
    <3>1. s # ptr
      BY <1>9, <2>2, <2>3
    <3>2. mem[s] # NoOrder
      BY <1>1, <2>2, <2>3 DEF ListedAreLive, Linked
    <3>3. mem'[s] = mem[s]
      BY <1>8, <3>1
    <3> QED
      BY <1>16, <2>1, <3>1, <3>2, <3>3
  <2>4. Taker'.side = sd /\ Taker'.price = x /\ Taker'.timestamp = tm
    BY <1>10, <2>1 DEF Taker
  <2> QED
    BY <1>1, <2>3, <2>4 DEF TakerComesLast, Linked, Levels, Slots, Pool!Slots
<1> QED
  BY <1>11, <1>12, <1>13, <1>14, <1>15, <1>17, <1>18
     DEF StepInv, BookInv, CallInv

LEMMA AddAcceptedInv ==
  ASSUME StepInv, NEW r \in Requests, AddAccepted(r)
  PROVE  StepInv'
<1>1. PICK ptr : ptr = Pool!Back(free_list)
  OBVIOUS
<1>2. /\ Refusal(r) = "SUCCESS"
      /\ mem' = [mem EXCEPT ![ptr] = NewOrder(r)]
      /\ call' = [IdleCall EXCEPT !.at = "matching", !.taker = ptr]
      /\ free_list' = Pool!PopBack(free_list)
      /\ now' = now + 1
      /\ UNCHANGED <<book, order_map, result>>
  BY <1>1 DEF AddAccepted
<1>3. r.id \in OrderIDs
  BY DEF OrderIDs
<1> QED
  BY <1>1, <1>2, <1>3, AcceptedInv

\* Between calls nothing is said of a maker or a taker.
LEMMA IdleFacts ==
  ASSUME TypeOK, call' = IdleCall
  PROVE  call' \in Calls /\ Idle' /\ ~InCallback'
BY SlotFacts, LimitsAssumption DEF IdleCall, Calls, Idle, InCallback

LEMMA IdleCallInv ==
  ASSUME TypeOK, call' = IdleCall
  PROVE  call' \in Calls /\ CallInv'
<1>1. call' \in Calls /\ Idle' /\ ~InCallback'
  BY IdleFacts
<1> QED
  BY <1>1 DEF CallInv, MakerInFront, TakerIsPrivate, TakerComesLast

LEMMA FilledBookInv ==
  ASSUME StepInv, Matching,
         mem' = [mem EXCEPT ![call.taker] = NoOrder],
         free_list' = Pool!PushBack(free_list, call.taker),
         call' \in Calls, result' \in ErrorCodes,
         UNCHANGED <<book, order_map, now>>
  PROVE  BookInv'
<1>1. TypeOK /\ AcceptedBefore /\ ~Idle
  BY DEF StepInv, BookInv, CallInv, Matching, Idle
<1>2. PICK tk : tk = call.taker
  OBVIOUS
<1>3. /\ mem' = [mem EXCEPT ![tk] = NoOrder]
      /\ free_list' = Pool!PushBack(free_list, tk)
  BY <1>2
<1>4. /\ tk \in Slots /\ mem[tk] # NoOrder
      /\ \A side \in Sides : \A p \in Levels(side) : ~Linked(tk, side, p)
  BY <1>1, <1>2, TakerFacts DEF Taker
<1>5. /\ mem' \in [Slots -> Order \cup {NoOrder}]
      /\ mem'[tk] = NoOrder
      /\ \A s \in Slots \ {tk} : mem'[s] = mem[s]
  BY <1>1, <1>3, <1>4 DEF TypeOK
<1>6. Pool!PoolPartition' /\ free_list' \in Seq(Slots)
  BY <1>3, <1>4, <1>5, ReleasedPool
<1>8. TypeOK'
  BY <1>1, <1>5, <1>6 DEF TypeOK, Levels
<1>9. /\ ListedAreLive' /\ IndexedAreListed'
      /\ TimePriority' /\ NoEmptyLevel' /\ NotCrossed'
  BY <1>1, <1>4, <1>5, UnlistedStepInv
<1>11. AcceptedBefore'
  <2>1. \A s \in Slots : mem'[s] # NoOrder =>
          mem[s] # NoOrder /\ mem'[s] = mem[s]
    BY <1>5
  <2> QED
    BY <1>1, <2>1, SlotFacts DEF AcceptedBefore, Live
<1> QED
  BY <1>6, <1>8, <1>9, <1>11 DEF BookInv

LEMMA FilledInv ==
  ASSUME StepInv, Filled
  PROVE  StepInv'
<1>1. TypeOK /\ call' = IdleCall
  BY DEF StepInv, BookInv, Filled
<1>2. call' \in Calls /\ CallInv'
  BY <1>1, IdleCallInv
<1>3. BookInv'
  BY <1>2, FilledBookInv DEF Filled, ErrorCodes
<1> QED
  BY <1>2, <1>3 DEF StepInv

-----------------------------------------------------------------------------
(***************************************************************************)
(* The taker comes to rest.                                                *)
(***************************************************************************)
\* begin() of a map that is not empty.
LEMMA BestExists ==
  ASSUME TypeOK, NEW side \in Sides, Levels(side) # {}
  PROVE  \E p \in Levels(side) : IsBest(side, p)
<1>1. /\ MIN_PRICE \in Nat /\ MAX_PRICE \in Nat
      /\ Levels(side) \subseteq MIN_PRICE .. MAX_PRICE
  BY LimitsAssumption DEF TypeOK, Prices
<1>2. CASE side = "SELL"
  <2>1. Levels(side) \in SUBSET Nat
    BY <1>1
  <2>2. PICK p \in Levels(side) : \A q \in Levels(side) : p <= q
    BY <2>1, Least
  <2> QED
    BY <1>2, <2>2 DEF IsBest, AtLeastAsGood
<1>3. CASE side # "SELL"
  <2> DEFINE Below == {MAX_PRICE - p : p \in Levels(side)}
  <2>1. Below \in SUBSET Nat /\ Below # {}
    BY <1>1
  <2>2. PICK b \in Below : \A c \in Below : b <= c
    BY <2>1, Least
  <2>3. PICK p \in Levels(side) : b = MAX_PRICE - p
    BY <2>2
  <2>4. \A q \in Levels(side) : q <= p
    BY <1>1, <2>2, <2>3
  <2>5. side = "BUY"
    BY <1>3 DEF Sides
  <2> QED
    BY <2>4, <2>5 DEF IsBest, AtLeastAsGood
<1> QED
  BY <1>2, <1>3

\* When the loop ends with quantity left, no opposite level crosses at all.
LEMMA NothingCrosses ==
  ASSUME StepInv, CannotTrade, NEW q \in Levels(Opposite(Taker.side))
  PROVE  ~Crosses(Taker.side, Taker.price, q)
<1>1. /\ TypeOK /\ ~Idle
      /\ Taker.side \in Sides /\ Opposite(Taker.side) \in Sides
      /\ Taker.price \in Prices
  BY TakerFacts DEF StepInv, BookInv, CallInv, CannotTrade, Matching, Idle
<1>2. PICK p \in Levels(Opposite(Taker.side)) : IsBest(Opposite(Taker.side), p)
  BY <1>1, BestExists
<1>3. /\ ~Crosses(Taker.side, Taker.price, p)
      /\ AtLeastAsGood(Opposite(Taker.side), p, q)
  BY <1>2 DEF CannotTrade, IsBest
<1>4. p \in Int /\ q \in Int /\ Taker.price \in Int
  BY <1>1, ListFacts, LimitsAssumption DEF Prices
<1> QED
  BY <1>1, <1>3, <1>4 DEF Crosses, AtLeastAsGood, Opposite, Sides

\* The taker is linked last at its level, whether or not order_map_ is told.
LEMMA LinkedTakerInv ==
  ASSUME StepInv, CannotTrade,
         book' = AddToPriceLevel(call.taker, Taker),
         call' \in Calls, result' \in ErrorCodes,
         order_map' \in {order_map, [order_map EXCEPT ![Taker.id] = call.taker]},
         UNCHANGED <<free_list, mem, now>>
  PROVE  BookInv'
<1>1. /\ TypeOK /\ ListedAreLive /\ IndexedAreListed /\ TimePriority
      /\ NoEmptyLevel /\ NotCrossed /\ Pool!PoolPartition
      /\ AcceptedBefore /\ TakerComesLast
      /\ ~Idle /\ Taker.quantity > 0
  BY DEF StepInv, BookInv, CallInv, CannotTrade, Matching, Idle
<1>2. PICK tk, S, P : tk = call.taker /\ S = Taker.side /\ P = Taker.price
  OBVIOUS
<1>3. /\ tk \in Slots /\ mem[tk] # NoOrder
      /\ S \in Sides /\ P \in Prices
      /\ mem[tk].side = S /\ mem[tk].price = P
      /\ mem[tk].quantity > 0 /\ Taker.quantity \in Nat
      /\ \A sd \in Sides : \A x \in Levels(sd) : ~Linked(tk, sd, x)
  BY <1>1, <1>2, TakerFacts DEF Taker
<1>4. LinkedLast(tk, S, P)
  BY <1>1, <1>2, <1>3, AddLinksLast
<1>5. PICK list \in Seq(Slots) :
        /\ book'[S][P].orders = Append(list, tk)
        /\ P \in Levels(S) => list = book[S][P].orders
        /\ P \notin Levels(S) => list = << >>
  BY <1>4 DEF LinkedLast
<1>6. /\ DOMAIN book' = Sides
      /\ \A sd \in Sides \ {S} : book'[sd] = book[sd]
      /\ DOMAIN book'[S] = Levels(S) \cup {P}
      /\ \A x \in Levels(S) \ {P} : book'[S][x] = book[S][x]
      /\ book'[S][P] \in Level
  BY <1>4 DEF LinkedLast
<1>7. ASSUME NEW sd \in Sides, NEW x \in DOMAIN book'[sd],
             ~(sd = S /\ x = P)
      PROVE  x \in Levels(sd) /\ book'[sd][x] = book[sd][x]
  BY <1>6, <1>7 DEF Levels
<1>8. ASSUME NEW k \in 1 .. Len(list)
      PROVE  P \in Levels(S) /\ list = book[S][P].orders /\ list[k] \in Slots
  BY <1>5
<1>9. /\ Len(list) \in Nat
      /\ Len(Append(list, tk)) = Len(list) + 1
      /\ \A k \in 1 .. Len(list) : Append(list, tk)[k] = list[k]
      /\ Append(list, tk)[Len(list) + 1] = tk
  BY <1>3
<1>10. TypeOK'
  <2>1. \A sd \in Sides : /\ DOMAIN book'[sd] \subseteq Prices
                          /\ \A x \in DOMAIN book'[sd] : book'[sd][x] \in Level
    BY <1>1, <1>3, <1>6, <1>7 DEF TypeOK, Levels
  <2>2. order_map' \in [OrderIDs -> Slots \cup {Null}]
    BY <1>1, <1>2, <1>3 DEF TypeOK
  <2> QED
    BY <1>1, <1>6, <2>1, <2>2 DEF TypeOK, Levels
<1>12. Pool!PoolPartition'
  BY <1>1 DEF Pool!PoolPartition, Pool!FreeOnce, Pool!FreeIsNotLive, Live
<1>13. ListedAreLive'
  <2> SUFFICES ASSUME NEW sd \in Sides, NEW x \in DOMAIN book'[sd],
                      NEW i \in 1 .. Len(book'[sd][x].orders),
                      NEW s, s = book'[sd][x].orders[i]
               PROVE  /\ mem[s] # NoOrder
                      /\ mem[s].side = sd /\ mem[s].price = x
                      /\ mem[s].quantity > 0
    BY DEF ListedAreLive, Levels
  <2>1. CASE ~(sd = S /\ x = P)
    BY <1>1, <1>7, <2>1 DEF ListedAreLive
  <2>2. CASE sd = S /\ x = P
    <3>1. i \in 1 .. Len(list) + 1 /\ s = Append(list, tk)[i]
      BY <1>5, <1>9, <2>2
    <3>2. CASE i = Len(list) + 1
      BY <1>3, <1>9, <2>2, <3>1, <3>2
    <3>3. CASE i \in 1 .. Len(list)
      <4>1. P \in Levels(S) /\ s = book[S][P].orders[i]
            /\ i \in 1 .. Len(book[S][P].orders)
        BY <1>8, <1>9, <3>1, <3>3
      <4>2. S \in Sides /\ ListedAreLive
        BY <1>1, <1>3
      <4>3. PICK t : t = book[S][P].orders[i]
        OBVIOUS
      <4>4. /\ mem[t] # NoOrder
            /\ mem[t].side = S /\ mem[t].price = P
            /\ mem[t].quantity > 0
        BY <4>1, <4>2, <4>3 DEF ListedAreLive
      <4> QED
        BY <2>2, <4>1, <4>3, <4>4
    <3> QED
      BY <1>9, <3>1, <3>2, <3>3
  <2> QED
    BY <2>1, <2>2
<1>14. IndexedAreListed'
  <2> SUFFICES ASSUME NEW id \in OrderIDs, order_map'[id] # Null,
                      NEW s, s = order_map'[id]
               PROVE  /\ mem[s] # NoOrder
                      /\ mem[s].id = id
                      /\ mem[s].price \in DOMAIN book'[mem[s].side]
                      /\ LinkedNext(s, mem[s].side, mem[s].price)
    BY SMTT(20) DEF IndexedAreListed, Linked, LinkedNext, Levels, Null, Pool!Null
  <2>1. CASE s = tk /\ id = Taker.id
    <3>1. mem[s].id = id
      BY <1>2, <2>1 DEF Taker
    <3>2. P \in DOMAIN book'[S] /\ LinkedNext(tk, S, P)
      BY <1>5, <1>6, <1>9 DEF LinkedNext
    <3> QED
      BY <1>3, <2>1, <3>1, <3>2
  <2>2. CASE ~(s = tk /\ id = Taker.id)
    <3>1. s = order_map[id]
      BY <1>1, <1>2, <2>2 DEF TypeOK
    <3>2. /\ s \in Slots /\ mem[s] # NoOrder /\ mem[s].id = id
          /\ mem[s].price \in Levels(mem[s].side)
          /\ Linked(s, mem[s].side, mem[s].price)
      BY <1>1, <3>1 DEF IndexedAreListed, TypeOK
    <3>3. PICK sd, x : sd = mem[s].side /\ x = mem[s].price
      OBVIOUS
    <3>4. sd \in Sides /\ x \in Levels(sd) /\ Linked(s, sd, x)
      BY <1>1, <3>2, <3>3, OrderFacts
    <3>5. x \in DOMAIN book'[sd] /\ LinkedNext(s, sd, x)
      <4>1. CASE sd = S /\ x = P
        <5>1. list = book[S][P].orders
          BY <1>5, <3>4, <4>1
        <5>2. PICK k \in 1 .. Len(list) : list[k] = s
          BY <3>4, <4>1, <5>1 DEF Linked
        <5> QED
          BY <1>5, <1>6, <1>9, <4>1, <5>2 DEF LinkedNext
      <4>2. CASE ~(sd = S /\ x = P)
        <5>1. x \in DOMAIN book'[sd]
          BY <1>6, <3>4 DEF Levels
        <5> QED
          BY <1>7, <3>4, <4>2, <5>1 DEF Linked, LinkedNext
      <4> QED
        BY <4>1, <4>2
    <3> QED
      BY <3>2, <3>3, <3>5
  <2> QED
    BY <2>1, <2>2
<1>15. TimePriority'
  <2> SUFFICES ASSUME NEW sd \in Sides, NEW x \in DOMAIN book'[sd],
                      NEW i \in 1 .. Len(book'[sd][x].orders),
                      NEW j \in 1 .. Len(book'[sd][x].orders),
                      i < j
               PROVE  mem[book'[sd][x].orders[i]].timestamp
                        < mem[book'[sd][x].orders[j]].timestamp
    BY SMTT(20) DEF TimePriority, Levels
  <2>1. CASE ~(sd = S /\ x = P)
    BY <1>1, <1>7, <2>1 DEF TimePriority
  <2>2. CASE sd = S /\ x = P
    <3>1. /\ i \in 1 .. Len(list) /\ j \in 1 .. Len(list) + 1
          /\ book'[sd][x].orders[i] = list[i]
          /\ book'[sd][x].orders[j] = Append(list, tk)[j]
      BY <1>5, <1>9, <2>2
    <3>2. CASE j = Len(list) + 1
      <4>1. /\ P \in Levels(S) /\ list = book[S][P].orders
            /\ list[i] \in Slots
        BY <1>8, <3>1
      <4>2. Linked(list[i], S, P)
        BY <3>1, <4>1 DEF Linked
      <4>3. list[i] # tk /\ mem[list[i]] # NoOrder
        BY <1>1, <1>3, <4>1, <4>2 DEF ListedAreLive, Linked
      <4>4. mem[list[i]].timestamp < mem[tk].timestamp
        BY <1>1, <1>2, <4>1, <4>2 DEF TakerComesLast, Taker
      <4> QED
        BY <1>9, <3>1, <3>2, <4>4
    <3>3. CASE j \in 1 .. Len(list)
      <4>1. P \in Levels(S) /\ list = book[S][P].orders
        BY <1>8, <3>1
      <4>2. mem[list[i]].timestamp < mem[list[j]].timestamp
        BY <1>1, <1>3, <3>1, <3>3, <4>1 DEF TimePriority
      <4> QED
        BY <1>9, <3>1, <3>3, <4>2
    <3> QED
      BY <1>9, <3>1, <3>2, <3>3
  <2> QED
    BY <2>1, <2>2
<1>16. NoEmptyLevel'
  <2>1. Append(list, tk) # << >>
    BY <1>9
  <2> QED
    BY <1>1, <1>5, <1>7, <2>1 DEF NoEmptyLevel, Levels
<1>17. NotCrossed'
  <2> SUFFICES ASSUME NEW b \in DOMAIN book'["BUY"],
                      NEW a \in DOMAIN book'["SELL"]
               PROVE  b < a
    BY DEF NotCrossed, Levels
  <2>1. \A q \in Levels(Opposite(S)) : ~Crosses(S, P, q) /\ q \in Int
    <3>1. Opposite(S) \in Sides
      BY <1>3, SideFacts
    <3> QED
      BY <1>1, <1>2, <3>1, NothingCrosses, ListFacts,
           LimitsAssumption DEF Prices
  <2>2. P \in Int
    BY <1>3, LimitsAssumption DEF Prices
  <2>3. CASE S = "BUY"
    <3>1. a \in Levels("SELL")
      BY <1>7, <2>3, SideFacts
    <3>2. b = P \/ b \in Levels("BUY")
      BY <1>6, <2>3
    <3>3. P < a
      BY <2>1, <2>2, <2>3, <3>1 DEF Opposite, Crosses
    <3> QED
      BY <1>1, <3>1, <3>2, <3>3 DEF NotCrossed
  <2>4. CASE S = "SELL"
    <3>1. b \in Levels("BUY")
      BY <1>7, <2>4, SideFacts
    <3>2. a = P \/ a \in Levels("SELL")
      BY <1>6, <2>4
    <3>3. b < P
      BY <2>1, <2>2, <2>4, <3>1 DEF Opposite, Crosses
    <3> QED
      BY <1>1, <3>1, <3>2, <3>3 DEF NotCrossed
  <2> QED
    BY <1>3, <2>3, <2>4 DEF Sides
<1>18. AcceptedBefore'
  BY <1>1 DEF AcceptedBefore, Live
<1> QED
  BY <1>10, <1>12, <1>13, <1>14, <1>15, <1>16, <1>17, <1>18 DEF BookInv

LEMMA RestInv ==
  ASSUME StepInv, Rest
  PROVE  StepInv'
<1>1. TypeOK /\ call' = IdleCall
  BY DEF StepInv, BookInv, Rest
<1>2. call' \in Calls /\ CallInv'
  BY <1>1, IdleCallInv
<1>3. BookInv'
  BY <1>2, LinkedTakerInv DEF Rest, ErrorCodes
<1> QED
  BY <1>2, <1>3 DEF StepInv

\* An exception that leaves the book alone.
LEMMA AbandonedInv ==
  ASSUME StepInv, call' \in Calls, result' \in ErrorCodes,
         UNCHANGED <<free_list, mem, book, order_map, now>>
  PROVE  BookInv'
<1>1. TypeOK
  BY DEF StepInv, BookInv
<1>2. TypeOK'
  BY <1>1 DEF TypeOK, Levels
<1>3. Pool!PoolPartition'
  BY DEF StepInv, BookInv, CallInv, Pool!PoolPartition, Pool!FreeOnce,
         Pool!FreeIsNotLive, Live
<1>4. ListedAreLive' /\ IndexedAreListed' /\ TimePriority' /\ NoEmptyLevel'
  <2>1. ListedAreLive'
    BY DEF StepInv, BookInv, CallInv, ListedAreLive, Levels
  <2>2. IndexedAreListed'
    BY DEF StepInv, BookInv, CallInv, IndexedAreListed, Linked, Levels
  <2>3. TimePriority'
    BY DEF StepInv, BookInv, CallInv, TimePriority, Levels
  <2>4. NoEmptyLevel'
    BY DEF StepInv, BookInv, CallInv, NoEmptyLevel, Levels
  <2> QED
    BY <2>1, <2>2, <2>3, <2>4
<1>6. AcceptedBefore'
  BY DEF StepInv, BookInv, AcceptedBefore, Live
<1>7. NotCrossed'
  BY DEF StepInv, BookInv, CallInv, NotCrossed, Levels
<1> QED
  BY <1>2, <1>3, <1>4, <1>6, <1>7 DEF BookInv

LEMMA ThrowInv ==
  ASSUME StepInv, Throw
  PROVE  StepInv'
<1>1. /\ call' = IdleCall /\ result' \in ErrorCodes
      /\ UNCHANGED <<free_list, mem, order_map, now>>
  BY DEF Throw, ErrorCodes
<1>2. call' \in Calls /\ CallInv'
  BY <1>1, IdleCallInv DEF StepInv, BookInv
<1>3. CASE UNCHANGED book
  BY <1>1, <1>2, <1>3, AbandonedInv DEF StepInv
<1>4. CASE CannotTrade /\ book' = AddToPriceLevel(call.taker, Taker)
  BY <1>1, <1>2, <1>4, LinkedTakerInv DEF StepInv
<1> QED
  BY <1>3, <1>4 DEF Throw

-----------------------------------------------------------------------------
(***************************************************************************)
(* The theorems.                                                           *)
(***************************************************************************)
LEMMA InitInv ==
  ASSUME Init
  PROVE  StepInv
<1>1. mem = [s \in Slots |-> NoOrder] /\ Live = {}
  BY SlotFacts DEF Init, Live
<1>2. /\ free_list = [i \in 1 .. POOL_CAPACITY |-> i]
      /\ book = [side \in Sides |-> [p \in {} |-> {}]]
      /\ order_map = [id \in OrderIDs |-> Null]
      /\ call = IdleCall /\ now = 0 /\ result = "SUCCESS"
  BY DEF Init, Pool!Init
<1>3. Idle /\ ~InCallback /\ call \in Calls
  BY <1>2, LimitsAssumption DEF IdleCall, Idle, InCallback, Calls
<1>4. \A side \in Sides : Levels(side) = {}
  BY <1>2 DEF Levels
<1>5. free_list \in Seq(Slots) /\ Len(free_list) = POOL_CAPACITY
  BY <1>2, SlotFacts
<1>6. TypeOK
  <2>1. DOMAIN book = Sides
    BY <1>2
  <2>2. mem \in [Slots -> Order \cup {NoOrder}]
    BY <1>1
  <2>3. order_map \in [OrderIDs -> Slots \cup {Null}]
    BY <1>2
  <2> QED
    BY <1>2, <1>3, <1>4, <1>5, <2>1, <2>2, <2>3 DEF TypeOK, ErrorCodes
<1>7. Pool!PoolPartition
  <2>1. {free_list[i] : i \in 1 .. Len(free_list)} = Slots \ Live
    BY <1>1, <1>2, <1>5, SlotFacts
  <2> QED
    BY <1>2, <1>5, <2>1
       DEF Pool!PoolPartition, Pool!FreeOnce, Pool!FreeIsNotLive, Slots
<1>8. ListedAreLive /\ TimePriority /\ NoEmptyLevel /\ NotCrossed
  BY <1>4, SideFacts DEF ListedAreLive, TimePriority, NoEmptyLevel, NotCrossed
<1>9. IndexedAreListed
  BY <1>2 DEF IndexedAreListed
<1>10. MakerInFront /\ TakerIsPrivate
  BY <1>3 DEF MakerInFront, TakerIsPrivate
<1>11. AcceptedBefore /\ TakerComesLast
  BY <1>1, <1>3 DEF AcceptedBefore, TakerComesLast
<1> QED
  BY <1>6, <1>7, <1>8, <1>9, <1>10, <1>11 DEF StepInv, BookInv, CallInv

LEMMA NextInv ==
  ASSUME StepInv, [Next]_vars
  PROVE  StepInv'
<1>1. ASSUME NEW r \in Requests, AddRejected(r)
      PROVE  StepInv'
  <2>1. result' \in ErrorCodes
    BY <1>1 DEF AddRejected, Refusal, ArgumentError, ErrorCodes
  <2> QED
    BY <1>1, <2>1, QuietStepsInv DEF AddRejected
<1>2. ASSUME NEW r \in Requests, AddAccepted(r)
      PROVE  StepInv'
  BY <1>2, AddAcceptedInv
<1>3. CASE Engine
  BY <1>3, ExecuteTradeInv, SettlePartialInv, SettleFilledInv, RestInv,
     FilledInv DEF Engine
<1>4. CASE Throw
  BY <1>4, ThrowInv
<1>5. ASSUME NEW id \in OrderIDs, CancelOrder(id)
      PROVE  StepInv'
  BY <1>5, CancelOrderInv
<1>6. ASSUME NEW id \in OrderIDs, CancelNotFound(id)
      PROVE  StepInv'
  BY <1>6, QuietStepsInv DEF CancelNotFound, ErrorCodes
<1>7. CASE UNCHANGED vars
  BY <1>7, QuietStepsInv DEF vars, StepInv, BookInv, TypeOK
<1> QED
  BY <1>1, <1>2, <1>3, <1>4, <1>5, <1>6, <1>7 DEF Next

LEMMA StepInvariance == Spec => []StepInv
<1>1. Init => StepInv
  BY InitInv
<1>2. StepInv /\ [Next]_vars => StepInv'
  BY NextInv
<1> QED
  BY <1>1, <1>2, PTL DEF Spec

\* Every variable keeps its type; the remaining quantity of an order, a
\* uint32, never wraps below zero (OrderBook.cpp:157-162, 190-195).
THEOREM TypeCorrectness == Spec => []TypeOK
<1>1. StepInv => TypeOK
  BY DEF StepInv, BookInv, CallInv
<1> QED
  BY <1>1, StepInvariance, PTL

\* No bid ever meets an ask (OrderBook.cpp:142-206).
THEOREM NeverCrossed == Spec => []NotCrossed
<1>1. StepInv => NotCrossed
  BY DEF StepInv, BookInv, CallInv
<1> QED
  BY <1>1, StepInvariance, PTL

\* Orders at a level stand in the order of their acceptance
\* (OrderBook.cpp:224-258).
THEOREM TimePriorityHolds == Spec => []TimePriority
<1>1. StepInv => TimePriority
  BY DEF StepInv, BookInv, CallInv
<1> QED
  BY <1>1, StepInvariance, PTL

=============================================================================
