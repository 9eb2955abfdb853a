---------------------------- MODULE CApi_proofs ----------------------------
(***************************************************************************)
(* Proofs about a book behind the C API whose callbacks add and cancel     *)
(* orders, for every request and limit, whatever may throw, and however    *)
(* deep calls nest; and about the doubles prices are passed as.            *)
(***************************************************************************)
EXTENDS CApi, OrderBook_refinement

-----------------------------------------------------------------------------
(***************************************************************************)
(* The inductive invariant: the book's own (BookInv), and of the calls in  *)
(* progress that the trade each of them reported can still be settled and  *)
(* that no call reaches the trade of one it interrupted.                   *)
(***************************************************************************)
\* The interrupted calls, the running one, and which was made from which.
Suspended == Stack!Range(outer)
Running   == IF Idle THEN {} ELSE {call}

Called(c, d) ==
  \E i, j \in 1 .. Len(outer) : i < j /\ c = outer[i] /\ d = outer[j]

\* The taker of a call is in no list and no index, and where it comes to rest
\* it is the youngest.
TakerWaits(c) ==
  /\ c.taker \in Slots
  /\ mem[c.taker] # NoOrder
  /\ order_map[mem[c.taker].id] = Null
  /\ \A side \in Sides : \A p \in Levels(side) :
       \A s \in Slots : Linked(s, side, p) =>
         /\ s # c.taker
         /\ side = mem[c.taker].side /\ p = mem[c.taker].price
              => mem[s].timestamp < mem[c.taker].timestamp

\* The trade a call reported can still be settled.
TradeStands(c) ==
  LET side == Opposite(mem[c.taker].side)
  IN  /\ c.maker \in Slots
      /\ mem[c.maker] # NoOrder
      /\ mem[c.maker].side = side
      /\ c.level \in Levels(side)
      /\ Head(book[side][c.level].orders) = c.maker
      /\ Crosses(mem[c.taker].side, mem[c.taker].price, c.level)
      /\ c.quantity = TradeQuantity(mem[c.taker], mem[c.maker])

CallStands(c) == TakerWaits(c) /\ (c.at = "callback" => TradeStands(c))

\* A call d made from the callback of c is about another order, which does
\* not trade at the price of the trade c reported.
OutOfReach(c, d) ==
  /\ c.taker # d.taker
  /\ mem[c.taker].id # mem[d.taker].id
  /\ mem[d.taker].side = mem[c.taker].side =>
       ~Crosses(mem[d.taker].side, mem[d.taker].price, c.level)

CallsInv ==
  /\ outer \in Seq(Calls)
  /\ \A c \in Suspended : c.at = "callback"
  /\ Idle => call = IdleCall /\ outer = << >>
  /\ \A c \in InProgress : CallStands(c)
  /\ \A c, d \in Suspended : Called(c, d) => OutOfReach(c, d)
  /\ \A c \in Suspended, d \in Running : OutOfReach(c, d)

NestedInv == BookInv /\ ListedAreIndexed /\ CallsInv

\* The two orders of a reported trade.
Parties(c) == IF c.at = "callback" THEN {c.taker, c.maker} ELSE {}

\* The calls that are still to settle a trade of an order: there is at most
\* one, so what was reported for the order is what it lost but for that trade.
Owing(s) == {c \in InProgress : s \in Parties(c)}

Balanced(s) ==
  /\ Owing(s) = {} => mem[s].original = mem[s].quantity + mem[s].reported
  /\ \A c \in Owing(s) :
       mem[s].original = mem[s].quantity + mem[s].reported - c.quantity

FillsInv == \A s \in Live : Balanced(s)

-----------------------------------------------------------------------------
(***************************************************************************)
(* The running call is a call of the engine as OrderBook.tla knows it.     *)
(***************************************************************************)
\* The quantity of the running call's trade is what the loop computed.
FairQuantity == InCallback => call.quantity = TradeQuantity(Taker, Maker)

LEMMA InProgressMeans ==
  InProgress = Suspended \cup Running
BY DEF InProgress, Suspended, Running

LEMMA NestedIsStep == NestedInv => StepInv /\ FairQuantity
<1> SUFFICES ASSUME NestedInv
             PROVE  StepInv /\ FairQuantity
  OBVIOUS
<1>1. /\ TypeOK
      /\ \A c \in Running : CallStands(c)
  BY InProgressMeans DEF NestedInv, BookInv, CallsInv
<1>2. ASSUME ~Idle
      PROVE  /\ CallStands(call)
             /\ call.taker \in Slots /\ Taker # NoOrder
             /\ order_map[Taker.id] = Null
             /\ Taker.side \in Sides /\ Taker.quantity \in Nat
  <2>1. CallStands(call)
    BY <1>1, <1>2 DEF Running
  <2>2. call.taker \in Slots /\ Taker # NoOrder /\ order_map[Taker.id] = Null
    BY <2>1 DEF CallStands, TakerWaits, Taker
  <2> QED
    BY <1>1, <2>1, <2>2, OrderFacts DEF Taker
<1>3. TakerIsPrivate
  <2> SUFFICES ASSUME ~Idle
               PROVE  \A side \in Sides : \A p \in Levels(side) :
                        ~Linked(call.taker, side, p)
    BY <1>2, SlotFacts DEF TakerIsPrivate
  <2> QED
    BY <1>2 DEF CallStands, TakerWaits
<1>4. TakerComesLast
  BY <1>2 DEF TakerComesLast, CallStands, TakerWaits, Taker
<1>5. ASSUME InCallback
      PROVE  /\ call.maker \in Slots /\ Maker # NoOrder
             /\ Maker.side = Opposite(Taker.side)
             /\ call.level \in Levels(Maker.side)
             /\ Head(book[Maker.side][call.level].orders) = call.maker
             /\ Crosses(Taker.side, Taker.price, call.level)
             /\ call.quantity = TradeQuantity(Taker, Maker)
  <2>1. ~Idle /\ call.at = "callback"
    BY <1>5 DEF Idle, InCallback
  <2> QED
    BY <1>2, <2>1 DEF CallStands, TradeStands, Taker, Maker
<1>6. MakerInFront
  <2> SUFFICES ASSUME InCallback
               PROVE  /\ call.quantity \in {Maker.quantity, Taker.quantity}
                      /\ call.quantity <= Maker.quantity
                      /\ call.quantity <= Taker.quantity
    BY <1>2, <1>5 DEF MakerInFront, InCallback, Idle
  <2>1. Maker.quantity \in Nat /\ Taker.quantity \in Nat
    BY <1>1, <1>2, <1>5, OrderFacts DEF Maker, InCallback, Idle
  <2> QED
    BY <1>5, <2>1 DEF TradeQuantity
<1>7. FairQuantity
  BY <1>5 DEF FairQuantity
<1> QED
  BY <1>3, <1>4, <1>6, <1>7 DEF NestedInv, StepInv, CallInv

RunningStands == \A c \in Running : CallStands(c)

LEMMA StepIsNested == StepInv /\ FairQuantity => RunningStands
<1> SUFFICES ASSUME StepInv, FairQuantity, ~Idle
             PROVE  CallStands(call)
  BY DEF Running, RunningStands
<1>1. TypeOK /\ TakerComesLast
  BY DEF StepInv, BookInv, CallInv
<1>2. TakerWaits(call)
  BY <1>1, TakerFacts DEF TakerWaits, Taker, TakerComesLast
<1>3. ASSUME call.at = "callback"
      PROVE  TradeStands(call)
  <2>1. InCallback
    BY <1>3 DEF InCallback
  <2> QED
    BY <2>1, CallbackFacts DEF TradeStands, Taker, Maker, FairQuantity
<1> QED
  BY <1>2, <1>3 DEF CallStands

\* The same after a step.
LEMMA StepIsNestedNext == StepInv' /\ FairQuantity' => RunningStands'
BY StepIsNested, PTL
-----------------------------------------------------------------------------
(***************************************************************************)
(* A call whose orders, level and index entry a step leaves alone can go   *)
(* on after it as it could before.                                         *)
(***************************************************************************)
SameTerms(s) ==
  /\ mem'[s] # NoOrder
  /\ mem'[s].id = mem[s].id /\ mem'[s].price = mem[s].price
  /\ mem'[s].side = mem[s].side /\ mem'[s].timestamp = mem[s].timestamp

TimesKept ==
  \A s \in Slots : mem[s] # NoOrder /\ mem'[s] # NoOrder =>
    mem'[s].timestamp = mem[s].timestamp

\* No order goes before the taker or to its level, and the maker stays.
BookKept(c) ==
  \/ ListsKept
  \/ \E ptr \in Slots :
       Unlinked(ptr) /\ (c.at = "callback" => ptr # c.maker)
  \/ \E tk \in Slots, side \in Sides, p \in Prices :
       /\ LinkedLast(tk, side, p)
       /\ tk # c.taker
       /\ ~(side = mem[c.taker].side /\ p = mem[c.taker].price)

Undisturbed(c) ==
  /\ SameTerms(c.taker) /\ mem'[c.taker].quantity = mem[c.taker].quantity
  /\ c.at = "callback" =>
       SameTerms(c.maker) /\ mem'[c.maker].quantity = mem[c.maker].quantity
  /\ order_map'[mem[c.taker].id] = Null
  /\ BookKept(c)

\* What the last disjuncts of BookKept come to.
LEMMA KeptForTaker ==
  ASSUME NEW c, TypeOK, TakerWaits(c), BookKept(c),
         NEW s, NEW sd \in Sides, NEW x \in DOMAIN book'[sd],
         LinkedNext(s, sd, x)
  PROVE  \/ x \in Levels(sd) /\ Linked(s, sd, x)
         \/ s # c.taker
            /\ ~(sd = mem[c.taker].side /\ x = mem[c.taker].price)
<1>1. CASE ListsKept
  BY <1>1 DEF ListsKept, Linked, LinkedNext
<1>2. ASSUME NEW ptr \in Slots, Unlinked(ptr)
      PROVE  x \in Levels(sd) /\ Linked(s, sd, x)
  BY <1>2 DEF Unlinked, Survivors, LinkedNext
<1>3. ASSUME NEW tk \in Slots, NEW side \in Sides, NEW p \in Prices,
             LinkedLast(tk, side, p), tk # c.taker,
             ~(side = mem[c.taker].side /\ p = mem[c.taker].price)
      PROVE  \/ x \in Levels(sd) /\ Linked(s, sd, x)
             \/ s # c.taker
                /\ ~(sd = mem[c.taker].side /\ x = mem[c.taker].price)
  <2>1. CASE ~(sd = side /\ x = p)
    <3>1. x \in Levels(sd) /\ book'[sd][x] = book[sd][x]
      BY <1>3, <2>1 DEF LinkedLast, Levels
    <3> QED
      BY <3>1 DEF Linked, LinkedNext
  <2>2. CASE sd = side /\ x = p
    <3>1. PICK list \in Seq(Slots) :
            /\ book'[side][p].orders = Append(list, tk)
            /\ p \in Levels(side) => list = book[side][p].orders
            /\ p \notin Levels(side) => list = << >>
      BY <1>3 DEF LinkedLast
    <3>2. PICK i \in 1 .. Len(Append(list, tk)) : Append(list, tk)[i] = s
      BY <2>2, <3>1 DEF LinkedNext
    <3>3. s = tk \/ \E k \in 1 .. Len(list) : list[k] = s
      BY <3>1, <3>2
    <3>4. CASE s = tk
      BY <1>3, <2>2, <3>4
    <3>5. CASE \E k \in 1 .. Len(list) : list[k] = s
      BY <2>2, <3>1, <3>5 DEF Linked
    <3> QED
      BY <3>3, <3>4, <3>5
  <2> QED
    BY <2>1, <2>2
<1> QED
  BY <1>1, <1>2, <1>3 DEF BookKept

LEMMA KeptForMaker ==
  ASSUME NEW c, TypeOK, NoEmptyLevel, BookKept(c), c.at = "callback",
         NEW sd \in Sides, NEW x \in Levels(sd),
         Head(book[sd][x].orders) = c.maker
  PROVE  x \in DOMAIN book'[sd] /\ Head(book'[sd][x].orders) = c.maker
<1>1. CASE ListsKept
  BY <1>1 DEF ListsKept
<1>2. ASSUME NEW ptr \in Slots, Unlinked(ptr), ptr # c.maker
      PROVE  x \in DOMAIN book'[sd] /\ Head(book'[sd][x].orders) = c.maker
  BY <1>2 DEF Unlinked, Others
<1>3. ASSUME NEW tk \in Slots, NEW side \in Sides, NEW p \in Prices,
             LinkedLast(tk, side, p)
      PROVE  x \in DOMAIN book'[sd] /\ Head(book'[sd][x].orders) = c.maker
  <2>1. CASE ~(sd = side /\ x = p)
    <3>1. x \in DOMAIN book'[sd] /\ book'[sd][x] = book[sd][x]
      BY <1>3, <2>1 DEF LinkedLast, Levels
    <3> QED
      BY <3>1
  <2>2. CASE sd = side /\ x = p
    <3>1. /\ x \in DOMAIN book'[sd]
          /\ book'[sd][x].orders = Append(book[sd][x].orders, tk)
      BY <1>3, <2>2 DEF LinkedLast
    <3>2. book[sd][x].orders \in Seq(Slots) /\ book[sd][x].orders # << >>
      BY ListFacts DEF NoEmptyLevel
    <3>3. Head(Append(book[sd][x].orders, tk)) = Head(book[sd][x].orders)
      BY <3>2
    <3> QED
      BY <3>1, <3>3
  <2> QED
    BY <2>1, <2>2
<1> QED
  BY <1>1, <1>2, <1>3 DEF BookKept

LEMMA CallKept ==
  ASSUME NEW c, BookInv, BookInv', TimesKept, CallStands(c), Undisturbed(c)
  PROVE  CallStands(c)'
<1>1. TypeOK /\ ListedAreLive /\ NoEmptyLevel /\ ListedAreLive'
  BY DEF BookInv
<1>2. PICK tk, o : tk = c.taker /\ o = mem[tk]
  OBVIOUS
<1>3. /\ tk \in Slots /\ o # NoOrder
      /\ mem'[tk] # NoOrder
      /\ mem'[tk].id = o.id /\ mem'[tk].price = o.price
      /\ mem'[tk].side = o.side /\ mem'[tk].timestamp = o.timestamp
      /\ mem'[tk].quantity = o.quantity
      /\ order_map'[o.id] = Null
      /\ o.side \in Sides
  <2>1. tk \in Slots /\ o # NoOrder
    BY <1>2 DEF CallStands, TakerWaits
  <2> QED
    BY <1>1, <1>2, <2>1, OrderFacts DEF Undisturbed, SameTerms
<1>4. ASSUME NEW sd \in Sides, NEW x \in DOMAIN book'[sd], NEW s \in Slots,
             LinkedNext(s, sd, x)
      PROVE  /\ s # tk
             /\ sd = o.side /\ x = o.price
                  => mem'[s].timestamp < o.timestamp
  <2>1. TakerWaits(c) /\ BookKept(c)
    BY DEF CallStands, Undisturbed
  <2>2. \/ x \in Levels(sd) /\ Linked(s, sd, x)
        \/ s # tk /\ ~(sd = o.side /\ x = o.price)
    BY <1>1, <1>2, <1>4, <2>1, KeptForTaker
  <2>3. CASE x \in Levels(sd) /\ Linked(s, sd, x)
    <3>1. /\ s # tk
          /\ sd = o.side /\ x = o.price => mem[s].timestamp < o.timestamp
      BY <1>2, <2>1, <2>3 DEF TakerWaits
    <3>2. mem[s] # NoOrder
      BY <1>1, <2>3 DEF ListedAreLive, Linked
    <3>3. mem'[s] # NoOrder
      BY <1>1, <1>4 DEF ListedAreLive, LinkedNext, Levels
    <3> QED
      BY <3>1, <3>2, <3>3 DEF TimesKept
  <2> QED
    BY <2>2, <2>3
<1>5. TakerWaits(c)'
  BY <1>2, <1>3, <1>4
     DEF TakerWaits, Linked, LinkedNext, Levels, Slots, Pool!Slots, Null,
         Pool!Null
<1>6. ASSUME c.at = "callback"
      PROVE  TradeStands(c)'
  <2>1. PICK sd : sd = Opposite(o.side)
    OBVIOUS
  <2>2. /\ c.maker \in Slots
        /\ mem[c.maker] # NoOrder
        /\ mem[c.maker].side = sd
        /\ c.level \in Levels(sd)
        /\ Head(book[sd][c.level].orders) = c.maker
        /\ Crosses(o.side, o.price, c.level)
        /\ c.quantity = TradeQuantity(o, mem[c.maker])
    BY <1>2, <1>6, <2>1 DEF CallStands, TradeStands
  <2>3. /\ mem'[c.maker] # NoOrder
        /\ mem'[c.maker].side = sd
        /\ mem'[c.maker].quantity = mem[c.maker].quantity
    BY <1>6, <2>2 DEF Undisturbed, SameTerms
  <2>4. /\ c.level \in DOMAIN book'[sd]
        /\ Head(book'[sd][c.level].orders) = c.maker
    <3>1. sd \in Sides
      BY <1>3, <2>1, SideFacts
    <3> QED
      BY <1>1, <1>6, <2>2, <3>1, KeptForMaker DEF Undisturbed
  <2>5. c.quantity = TradeQuantity(mem'[tk], mem'[c.maker])
    BY <1>3, <2>2, <2>3 DEF TradeQuantity
  <2> QED
    BY <1>2, <1>3, <2>1, <2>2, <2>3, <2>4, <2>5
       DEF TradeStands, Levels, Slots, Pool!Slots
<1> QED
  BY <1>5, <1>6 DEF CallStands

LEMMA ReachKept ==
  ASSUME NEW c, NEW d, OutOfReach(c, d), SameTerms(c.taker), SameTerms(d.taker)
  PROVE  OutOfReach(c, d)'
BY DEF OutOfReach, SameTerms

-----------------------------------------------------------------------------
(***************************************************************************)
(* The stack of calls: a call is made, goes on, or returns.                *)
(***************************************************************************)
LEMMA SuspendedMeans ==
  /\ \A c : c \in Suspended <=> \E i \in DOMAIN outer : c = outer[i]
  /\ \A c : c \in Suspended' <=> \E i \in DOMAIN outer' : c = outer'[i]
BY DEF Suspended, Stack!Range

LEMMA CallsFacts ==
  ASSUME NestedInv
  PROVE  /\ TypeOK /\ BookInv /\ StepInv
         /\ outer \in Seq(Calls)
         /\ \A c \in InProgress : CallStands(c) /\ c \in Calls
         /\ \A c \in Suspended : c \in InProgress /\ c.at = "callback"
         /\ ~Idle => call \in InProgress /\ call \in Running /\ CallStands(call)
         /\ \A c \in InProgress : /\ c.taker \in Slots /\ mem[c.taker] # NoOrder
                                  /\ mem[c.taker].id \in OrderIDs
                                  /\ mem[c.taker].side \in Sides
<1>1. /\ TypeOK /\ BookInv /\ StepInv
      /\ outer \in Seq(Calls)
      /\ \A c \in InProgress : CallStands(c)
      /\ \A c \in Suspended : c.at = "callback"
  BY NestedIsStep DEF NestedInv, CallsInv, BookInv
<1>2. \A c : c \in InProgress <=> c \in Suspended \/ (~Idle /\ c = call)
  BY InProgressMeans DEF Running
<1>3. \A c \in InProgress : c \in Calls
  BY <1>1, <1>2, SuspendedMeans DEF TypeOK
<1>4. \A c \in InProgress : c.taker \in Slots /\ mem[c.taker] # NoOrder
  BY <1>1 DEF CallStands, TakerWaits
<1> QED
  BY <1>1, <1>2, <1>3, <1>4, OrderFacts DEF Running

\* What a cancellation or a refusal must not do.
LEMMA CallsStay ==
  ASSUME NestedInv, BookInv', TimesKept, UNCHANGED <<call, outer>>,
         \A c \in InProgress : Undisturbed(c)
  PROVE  CallsInv'
<1>1. /\ BookInv /\ outer \in Seq(Calls)
      /\ \A c \in InProgress : CallStands(c) /\ SameTerms(c.taker)
      /\ \A c \in Suspended : c \in InProgress
      /\ \A c \in Running : c \in InProgress
      /\ CallsInv
  BY CallsFacts, InProgressMeans DEF NestedInv, Undisturbed
<1>2. /\ InProgress' = InProgress /\ Suspended' = Suspended
      /\ Running' = Running /\ Idle' = Idle
      /\ \A c, d : Called(c, d)' = Called(c, d)
  BY DEF InProgress, Suspended, Running, Idle, Called
<1>3. \A c \in InProgress' : CallStands(c)'
  BY <1>1, <1>2, CallKept
<1>4. \A c, d \in Suspended' : Called(c, d)' => OutOfReach(c, d)'
  BY <1>1, <1>2, ReachKept DEF CallsInv
<1>5. \A c \in Suspended', d \in Running' : OutOfReach(c, d)'
  BY <1>1, <1>2, ReachKept DEF CallsInv
<1>6. \A c \in Suspended' : c.at = "callback"
  BY <1>1, <1>2 DEF CallsInv
<1>7. Idle' => call' = IdleCall' /\ outer' = << >>
  BY <1>1, <1>2 DEF CallsInv, IdleCall, Null, Pool!Null
<1>8. outer' \in Seq(Calls')
  BY <1>1 DEF Calls, Slots, Pool!Slots, Null, Pool!Null
<1> QED
  BY <1>3, <1>4, <1>5, <1>6, <1>7, <1>8 DEF CallsInv

\* The running call goes on.
LEMMA CallGoesOn ==
  ASSUME NestedInv, StepInv', FairQuantity', TimesKept, UNCHANGED outer,
         ~Idle, ~Idle', call'.taker = call.taker, SameTerms(call.taker),
         \A c \in Suspended : Undisturbed(c)
  PROVE  CallsInv'
<1>1. /\ BookInv /\ BookInv' /\ outer \in Seq(Calls)
      /\ \A c \in Suspended : CallStands(c) /\ SameTerms(c.taker)
      /\ CallsInv /\ call \in Running
  BY CallsFacts DEF NestedInv, Undisturbed, StepInv
<1>2. /\ Suspended' = Suspended
      /\ \A c, d : Called(c, d)' = Called(c, d)
  BY DEF Suspended, Called
<1>3. InProgress' = Suspended' \cup Running'
  BY DEF InProgress, Suspended, Running
<1>4. \A c \in Suspended' : CallStands(c)'
  BY <1>1, <1>2, CallKept
<1>5. \A c \in Running' : CallStands(c)'
  BY StepIsNestedNext DEF RunningStands
<1>6. \A c, d \in Suspended' : Called(c, d)' => OutOfReach(c, d)'
  BY <1>1, <1>2, ReachKept DEF CallsInv
<1>7. ASSUME NEW c \in Suspended', NEW d \in Running'
      PROVE  OutOfReach(c, d)'
  <2>1. PICK e : e = call
    OBVIOUS
  <2>2. OutOfReach(c, e) /\ SameTerms(c.taker) /\ SameTerms(e.taker)
    BY <1>1, <1>2, <1>7, <2>1 DEF CallsInv
  <2>3. OutOfReach(c, e)'
    BY <2>2, ReachKept
  <2>4. d.taker = e.taker
    BY <1>7, <2>1 DEF Running
  <2> QED
    BY <2>3, <2>4 DEF OutOfReach
<1>8. \A c \in Suspended' : c.at = "callback"
  BY <1>1, <1>2 DEF CallsInv
<1>9. outer' \in Seq(Calls')
  BY <1>1 DEF Calls, Slots, Pool!Slots, Null, Pool!Null
<1> QED
  BY <1>3, <1>4, <1>5, <1>6, <1>7, <1>8, <1>9 DEF CallsInv

\* A call that is made suspends the running one.
LEMMA CallPushed ==
  ASSUME NestedInv, outer' = IF Idle THEN outer ELSE Append(outer, call)
  PROVE  Suspended' = InProgress
<1>1. outer \in Seq(Calls)
  BY CallsFacts
<1>2. CASE Idle
  BY <1>2, InProgressMeans DEF Suspended, Running
<1>3. CASE ~Idle
  <2>1. outer' = Append(outer, call)
    BY <1>3
  <2>2. /\ DOMAIN outer' = 1 .. Len(outer) + 1 /\ Len(outer) \in Nat
        /\ DOMAIN outer = 1 .. Len(outer)
        /\ outer'[Len(outer) + 1] = call
        /\ \A i \in 1 .. Len(outer) : outer'[i] = outer[i]
    BY <1>1, <2>1
  <2>3. \A c : c \in Suspended' <=> c \in Suspended \/ c = call
    BY <2>2, SuspendedMeans
  <2> QED
    BY <1>3, <2>3, InProgressMeans DEF Running
<1> QED
  BY <1>2, <1>3

\* A call that returns resumes the innermost suspended one.
LEMMA CallPopped ==
  ASSUME NestedInv, ~Idle, Return
  PROVE  InProgress' = Suspended
<1>1. outer \in Seq(Calls) /\ CallsInv
  BY CallsFacts DEF NestedInv
<1>2. InProgress' = Suspended' \cup Running'
  BY DEF InProgress, Suspended, Running
<1>3. CASE outer = << >>
  <2>1. outer' = << >> /\ Idle'
    BY <1>3 DEF Return, Idle, IdleCall
  <2> QED
    BY <1>2, <1>3, <2>1, SuspendedMeans DEF Running
<1>4. CASE outer # << >>
  <2>1. /\ call' = outer[Len(outer)]
        /\ outer' = SubSeq(outer, 1, Len(outer) - 1)
    BY <1>4 DEF Return, Stack!Last, Stack!Front
  <2>2. PICK n \in Nat : Len(outer) = n + 1
    BY <1>1, <1>4
  <2>3. /\ DOMAIN outer = 1 .. n + 1 /\ DOMAIN outer' = 1 .. n
        /\ \A i \in 1 .. n : outer'[i] = outer[i]
        /\ call' = outer[n + 1]
    BY <1>1, <2>1, <2>2
  <2>4. Running' = {call'}
    <3>1. call' \in Suspended
      BY <2>3, SuspendedMeans
    <3> QED
      BY <1>1, <3>1 DEF CallsInv, Idle, Running
  <2>5. \A c : c \in Suspended <=> c \in Suspended' \/ c = call'
    BY <2>3, SuspendedMeans
  <2> QED
    BY <1>2, <2>4, <2>5
<1> QED
  BY <1>3, <1>4

\* A call is made by the client or from a callback.
LEMMA CallBegins ==
  ASSUME NestedInv, StepInv', TimesKept,
         ~Idle', ~InCallback', Idle \/ InCallback,
         outer' = IF Idle THEN outer ELSE Append(outer, call),
         \A c \in InProgress : Undisturbed(c),
         \A c \in InProgress, d \in Running' : OutOfReach(c, d)'
  PROVE  CallsInv'
<1>1. /\ BookInv /\ BookInv' /\ outer \in Seq(Calls) /\ call \in Calls
      /\ \A c \in InProgress : CallStands(c) /\ SameTerms(c.taker)
      /\ CallsInv
  BY CallsFacts DEF NestedInv, Undisturbed, StepInv, TypeOK
<1>2. Suspended' = InProgress
  BY CallPushed
<1>3. InProgress' = Suspended' \cup Running'
  BY DEF InProgress, Suspended, Running
<1>4. \A c \in Suspended' : CallStands(c)'
  BY <1>1, <1>2, CallKept
<1>5. \A c \in Running' : CallStands(c)'
  <2>1. FairQuantity'
    BY DEF FairQuantity
  <2> QED
    BY <2>1, StepIsNestedNext DEF RunningStands
<1>6. ASSUME NEW c \in Suspended', NEW d \in Suspended', Called(c, d)'
      PROVE  OutOfReach(c, d)'
  <2>1. SameTerms(c.taker) /\ SameTerms(d.taker)
    BY <1>1, <1>2
  <2>2. OutOfReach(c, d)
    <3>1. CASE Idle
      <4>1. outer' = outer /\ outer = << >>
        BY <1>1, <3>1 DEF CallsInv
      <4> QED
        BY <1>6, <4>1 DEF Called
    <3>2. CASE ~Idle
      <4>1. PICK i, j \in 1 .. Len(outer') :
              i < j /\ c = outer'[i] /\ d = outer'[j]
        BY <1>6 DEF Called
      <4>2. /\ Len(outer') = Len(outer) + 1 /\ Len(outer) \in Nat
            /\ DOMAIN outer = 1 .. Len(outer)
            /\ outer'[Len(outer) + 1] = call
            /\ \A k \in 1 .. Len(outer) : outer'[k] = outer[k]
        BY <1>1, <3>2
      <4>3. i \in 1 .. Len(outer) /\ c = outer[i] /\ c \in Suspended
        BY <4>1, <4>2, SuspendedMeans
      <4>4. CASE j = Len(outer) + 1
        <5>1. d \in Running
          BY <3>2, <4>1, <4>2, <4>4 DEF Running
        <5> QED
          BY <1>1, <4>3, <5>1 DEF CallsInv
      <4>5. CASE j # Len(outer) + 1
        <5>1. j \in 1 .. Len(outer) /\ d = outer[j]
          BY <4>1, <4>2, <4>5
        <5>2. d \in Suspended /\ Called(c, d)
          BY <4>1, <4>2, <4>3, <5>1, SuspendedMeans DEF Called
        <5> QED
          BY <1>1, <4>3, <5>2 DEF CallsInv
      <4> QED
        BY <4>4, <4>5
    <3> QED
      BY <3>1, <3>2
  <2> QED
    BY <2>1, <2>2, ReachKept
<1>7. \A c \in Suspended', d \in Running' : OutOfReach(c, d)'
  BY <1>2
<1>8. \A c \in Suspended' : c.at = "callback"
  BY <1>1, <1>2, InProgressMeans DEF CallsInv, Running, Idle, InCallback
<1>9. outer' \in Seq(Calls')
  <2>1. outer' \in Seq(Calls)
    BY <1>1
  <2> QED
    BY <2>1 DEF Calls, Slots, Pool!Slots, Null, Pool!Null
<1> QED
  BY <1>3, <1>4, <1>5, <1>6, <1>7, <1>8, <1>9 DEF CallsInv

\* The running call returns, to the client or to a callback.
LEMMA CallReturns ==
  ASSUME NestedInv, BookInv', TimesKept, ~Idle, Return,
         \A c \in Suspended : Undisturbed(c)
  PROVE  CallsInv'
<1>1. /\ BookInv /\ outer \in Seq(Calls)
      /\ \A c \in Suspended : CallStands(c) /\ SameTerms(c.taker)
      /\ CallsInv
  BY CallsFacts DEF NestedInv, Undisturbed
<1>2. InProgress' = Suspended' \cup Running'
  BY DEF InProgress, Suspended, Running
<1>3. CASE outer = << >>
  <2>1. call' = IdleCall /\ outer' = << >> /\ Idle'
    BY <1>3 DEF Return, Idle, IdleCall
  <2>2. Suspended' = {} /\ Running' = {}
    BY <2>1, SuspendedMeans DEF Running
  <2>3. call' = IdleCall'
    BY <2>1 DEF IdleCall, Null, Pool!Null
  <2> QED
    BY <1>2, <2>1, <2>2, <2>3 DEF CallsInv
<1>4. CASE outer # << >>
  <2>1. /\ call' = outer[Len(outer)]
        /\ outer' = SubSeq(outer, 1, Len(outer) - 1)
    BY <1>4 DEF Return, Stack!Last, Stack!Front
  <2>2. PICK n \in Nat : Len(outer) = n + 1
    BY <1>1, <1>4
  <2>3. /\ outer' \in Seq(Calls) /\ Len(outer') = n
        /\ DOMAIN outer = 1 .. n + 1 /\ DOMAIN outer' = 1 .. n
        /\ \A i \in 1 .. n : outer'[i] = outer[i]
        /\ call' = outer[n + 1]
    BY <1>1, <2>1, <2>2
  <2>4. call' \in Suspended /\ ~Idle' /\ Running' = {call'}
    <3>1. call' \in Suspended
      BY <2>3, SuspendedMeans
    <3>2. call'.at = "callback"
      BY <1>1, <3>1 DEF CallsInv
    <3> QED
      BY <3>1, <3>2 DEF Idle, Running
  <2>5. \A c \in Suspended' : c \in Suspended /\ Called(c, call')
    BY <2>2, <2>3, SuspendedMeans DEF Called
  <2>6. \A c, d : Called(c, d)' => Called(c, d)
    BY <2>2, <2>3 DEF Called
  <2>7. \A c \in InProgress' : CallStands(c)'
    BY <1>1, <1>2, <2>4, <2>5, CallKept
  <2>8. \A c, d \in Suspended' : Called(c, d)' => OutOfReach(c, d)'
    BY <1>1, <2>5, <2>6, ReachKept DEF CallsInv
  <2>9. ASSUME NEW c \in Suspended', NEW d \in Running'
        PROVE  OutOfReach(c, d)'
    <3>1. c \in Suspended /\ d \in Suspended /\ Called(c, d)
      BY <2>4, <2>5, <2>9
    <3> QED
      BY <1>1, <3>1, ReachKept DEF CallsInv
  <2>10. \A c \in Suspended' : c.at = "callback"
    BY <1>1, <2>5 DEF CallsInv
  <2>11. outer' \in Seq(Calls')
    BY <2>3 DEF Calls, Slots, Pool!Slots, Null, Pool!Null
  <2> QED
    BY <2>4, <2>7, <2>8, <2>9, <2>10, <2>11 DEF CallsInv
<1> QED
  BY <1>3, <1>4

-----------------------------------------------------------------------------
(***************************************************************************)
(* Which slots the calls in progress use.                                  *)
(***************************************************************************)
LEMMA FrameFacts ==
  ASSUME NestedInv, NEW c \in InProgress
  PROVE  /\ c.taker \in Slots /\ mem[c.taker] # NoOrder /\ c.taker \notin Listed
         /\ mem[c.taker].side \in Sides
         /\ mem[c.taker].id \in OrderIDs
         /\ order_map[mem[c.taker].id] = Null
         /\ c.at = "callback" =>
              /\ c.maker \in Slots /\ mem[c.maker] # NoOrder
              /\ c.maker \in Listed /\ c.maker # c.taker
              /\ mem[c.maker].side = Opposite(mem[c.taker].side)
              /\ mem[c.maker].price = c.level
              /\ Crosses(mem[c.taker].side, mem[c.taker].price, c.level)
<1>1. /\ StepInv /\ CallStands(c)
      /\ c.taker \in Slots /\ mem[c.taker] # NoOrder
      /\ mem[c.taker].id \in OrderIDs
      /\ mem[c.taker].side \in Sides
  BY CallsFacts
<1>2. c.taker \notin Listed /\ order_map[mem[c.taker].id] = Null
  BY <1>1, ListedMeans DEF CallStands, TakerWaits
<1>3. ASSUME c.at = "callback"
      PROVE  /\ c.maker \in Slots /\ mem[c.maker] # NoOrder
             /\ c.maker \in Listed
             /\ mem[c.maker].side = Opposite(mem[c.taker].side)
             /\ mem[c.maker].price = c.level
             /\ Crosses(mem[c.taker].side, mem[c.taker].price, c.level)
  <2>1. PICK side : side = Opposite(mem[c.taker].side)
    OBVIOUS
  <2>2. /\ side \in Sides /\ c.level \in Levels(side)
        /\ Head(book[side][c.level].orders) = c.maker
        /\ Crosses(mem[c.taker].side, mem[c.taker].price, c.level)
    BY <1>1, <1>3, <2>1, SideFacts DEF CallStands, TradeStands
  <2>3. PICK s : s = c.maker
    OBVIOUS
  <2>4. /\ s \in Slots /\ Linked(s, side, c.level)
        /\ mem[s] # NoOrder
        /\ mem[s].side = side /\ mem[s].price = c.level
    BY <1>1, <2>2, <2>3, FrontFacts
  <2> QED
    BY <2>1, <2>2, <2>3, <2>4, ListedMeans
<1> QED
  BY <1>1, <1>2, <1>3

\* The running call uses no order of a suspended one, and does not come to
\* rest where its taker will.
LEMMA CallsApart ==
  ASSUME NestedInv, ~Idle, NEW c \in Suspended
  PROVE  /\ c \in InProgress /\ c.at = "callback"
         /\ c.taker # call.taker /\ mem[c.taker].id # Taker.id
         /\ c.maker # call.taker
         /\ ~(/\ Taker.side = mem[c.taker].side
              /\ Taker.price = mem[c.taker].price)
         /\ InCallback => c.taker # call.maker /\ c.maker # call.maker
<1>1. /\ StepInv /\ c \in InProgress /\ c.at = "callback"
      /\ call \in InProgress /\ OutOfReach(c, call)
  <2>1. /\ StepInv /\ c \in InProgress /\ c.at = "callback"
        /\ call \in InProgress /\ call \in Running
    BY CallsFacts
  <2> QED
    BY <2>1 DEF NestedInv, CallsInv
<1>2. /\ c.taker # call.taker /\ mem[c.taker].id # Taker.id
      /\ Taker.side = mem[c.taker].side
           => ~Crosses(Taker.side, Taker.price, c.level)
  BY <1>1 DEF OutOfReach, Taker
<1>3. /\ c.maker \in Listed /\ c.taker \notin Listed
      /\ mem[c.taker].side \in Sides
      /\ mem[c.maker].side = Opposite(mem[c.taker].side)
      /\ mem[c.maker].price = c.level
      /\ Crosses(mem[c.taker].side, mem[c.taker].price, c.level)
  BY <1>1, FrameFacts
<1>4. call.taker \notin Listed
  BY <1>1, FrameFacts
<1>5. ASSUME InCallback
      PROVE  c.taker # call.maker /\ c.maker # call.maker
  <2>1. call.at = "callback"
    BY <1>5 DEF InCallback
  <2>2. /\ call.maker \in Listed
        /\ Taker.side \in Sides
        /\ Maker.side = Opposite(Taker.side)
        /\ Maker.price = call.level
        /\ Crosses(Taker.side, Taker.price, call.level)
    BY <1>1, <2>1, FrameFacts DEF Taker, Maker
  <2>3. c.taker # call.maker
    BY <1>3, <2>2
  <2>4. ASSUME c.maker = call.maker
        PROVE  FALSE
    <3>1. /\ Opposite(Taker.side) = Opposite(mem[c.taker].side)
          /\ c.level = call.level
      BY <1>3, <2>2, <2>4 DEF Maker
    <3>2. Taker.side = mem[c.taker].side
      BY <1>3, <2>2, <3>1, SideFacts
    <3> QED
      BY <1>2, <2>2, <3>1, <3>2
  <2> QED
    BY <2>3, <2>4
<1> QED
  BY <1>1, <1>2, <1>3, <1>4, <1>5

-----------------------------------------------------------------------------
(***************************************************************************)
(* The index, when orders stay and when one goes.                          *)
(***************************************************************************)
LEMMA IndexKept ==
  ASSUME ListedAreIndexed, Listed' = Listed, UNCHANGED order_map,
         \A s \in Listed : mem'[s].id = mem[s].id
  PROVE  ListedAreIndexed'
BY IndexedMeans

LEMMA IndexWithout ==
  ASSUME StepInv, ListedAreIndexed, NEW ptr \in Listed,
         Listed' = Listed \ {ptr},
         order_map' = [order_map EXCEPT ![mem[ptr].id] = Null],
         \A s \in Listed \ {ptr} : mem'[s].id = mem[s].id
  PROVE  ListedAreIndexed'
<1>1. /\ order_map \in [OrderIDs -> Slots \cup {Null}]
      /\ \A s \in Listed : order_map[mem[s].id] = s
      /\ \A s \in Listed : mem[s].id \in OrderIDs
  BY IndexedMeans, ListedFacts, LiveFacts DEF StepInv, BookInv, TypeOK
<1>2. ASSUME NEW s \in Listed'
      PROVE  order_map'[mem'[s].id] = s
  <2>1. s \in Listed /\ s # ptr /\ mem'[s].id = mem[s].id
    BY <1>2
  <2>2. mem[s].id # mem[ptr].id
    BY <1>1, <2>1
  <2> QED
    BY <1>1, <2>1, <2>2
<1> QED
  BY <1>2, IndexedMeans

-----------------------------------------------------------------------------
(***************************************************************************)
(* One step of the running call.                                           *)
(***************************************************************************)
LEMMA ReportNested ==
  ASSUME NestedInv, ExecuteTrade, UNCHANGED outer
  PROVE  NestedInv'
<1>1. StepInv /\ TypeOK /\ ListedAreIndexed
  BY CallsFacts DEF NestedInv
<1>2. StepInv' /\ BookInv'
  BY <1>1, ExecuteTradeInv DEF StepInv
<1>3. PICK ptr \in Slots, q \in Nat : ReportStep(ptr, q)
  BY <1>1, ReportEffect
<1>4. PICK tk : tk = call.taker
  OBVIOUS
<1>5. /\ ~Idle /\ ~Idle' /\ InCallback'
      /\ ptr \in Listed
      /\ q \in {mem[ptr].quantity, mem[tk].quantity}
      /\ q <= mem[ptr].quantity /\ q <= mem[tk].quantity
      /\ \A s \in Slots : mem'[s] = IF s \in {ptr, tk}
                                    THEN [mem[s] EXCEPT !.reported = @ + q]
                                    ELSE mem[s]
      /\ Live' = Live /\ Listed' = Listed
      /\ call'.taker = tk /\ call'.maker = ptr /\ call'.quantity = q
      /\ UNCHANGED <<book, order_map>>
  BY <1>3, <1>4 DEF ReportStep, Taker
<1>6. ASSUME NEW s \in Slots, mem[s] # NoOrder
      PROVE  SameTerms(s) /\ mem'[s].quantity = mem[s].quantity
  <2>1. mem[s] \in Order
    BY <1>1, <1>6, OrderFacts
  <2>2. mem'[s] # NoOrder
    BY <1>5, <1>6, SlotFacts DEF Live
  <2>3. mem'[s] = mem[s] \/ mem'[s] = [mem[s] EXCEPT !.reported = @ + q]
    BY <1>5
  <2> QED
    BY <2>1, <2>2, <2>3 DEF SameTerms, Order
<1>7. TimesKept
  BY <1>6 DEF TimesKept, SameTerms
<1>8. \A c \in InProgress : Undisturbed(c)
  <2> SUFFICES ASSUME NEW c \in InProgress
               PROVE  Undisturbed(c)
    OBVIOUS
  <2>1. BookKept(c)
    BY <1>1, <1>5, SameBookKept DEF BookKept
  <2>2. /\ c.taker \in Slots /\ mem[c.taker] # NoOrder
        /\ order_map[mem[c.taker].id] = Null
        /\ c.at = "callback" => c.maker \in Slots /\ mem[c.maker] # NoOrder
    BY FrameFacts
  <2>3. order_map'[mem[c.taker].id] = Null
    BY <1>5, <2>2
  <2> QED
    BY <1>6, <2>1, <2>2, <2>3 DEF Undisturbed
<1>9. FairQuantity'
  <2>1. /\ tk \in Slots /\ mem[tk] # NoOrder /\ mem[tk].quantity \in Nat
        /\ mem[ptr] # NoOrder /\ mem[ptr].quantity \in Nat
    BY <1>1, <1>4, <1>5, ListedFacts, LiveFacts, TakerFacts DEF Taker
  <2>2. /\ mem'[tk].quantity = mem[tk].quantity
        /\ mem'[ptr].quantity = mem[ptr].quantity
    BY <1>6, <2>1
  <2>3. q = TradeQuantity(mem'[tk], mem'[ptr])
    BY <1>5, <2>1, <2>2 DEF TradeQuantity
  <2> QED
    BY <1>5, <2>3 DEF FairQuantity, Taker, Maker
<1>10. CallsInv'
  <2>1. \A c \in Suspended : Undisturbed(c)
    BY <1>8, InProgressMeans
  <2>2. SameTerms(call.taker)
    BY <1>1, <1>5, <1>6, TakerFacts DEF Taker
  <2> QED
    BY <1>2, <1>4, <1>5, <1>7, <1>9, <2>1, <2>2, CallGoesOn
<1>11. ListedAreIndexed'
  BY <1>1, <1>5, <1>6, ListedFacts, IndexKept DEF SameTerms
<1> QED
  BY <1>2, <1>10, <1>11 DEF NestedInv

LEMMA SettleNested ==
  ASSUME NestedInv, SettlePartial \/ SettleFilled, UNCHANGED outer
  PROVE  NestedInv'
<1>1. StepInv /\ TypeOK /\ ListedAreIndexed
  BY CallsFacts DEF NestedInv
<1>2. StepInv' /\ BookInv'
  BY <1>1, SettlePartialInv, SettleFilledInv DEF StepInv
<1>3. PICK tk, ptr, q : SettleStep(tk, ptr, q)
  BY <1>1, SettleEffect
<1>4. /\ InCallback /\ ~Idle /\ ~Idle' /\ ~InCallback'
      /\ tk = call.taker /\ ptr = call.maker /\ call'.taker = tk
      /\ tk \in Live /\ ptr \in Listed /\ ptr # tk
      /\ \A s \in Slots \ {tk, ptr} : mem'[s] = mem[s]
      /\ mem'[tk] = [mem[tk] EXCEPT !.quantity = @ - q]
      /\ \/ /\ mem'[ptr] = [mem[ptr] EXCEPT !.quantity = @ - q]
            /\ Live' = Live /\ Listed' = Listed /\ UNCHANGED order_map
            /\ ListsKept
         \/ /\ mem'[ptr] = NoOrder
            /\ Live' = Live \ {ptr} /\ Listed' = Listed \ {ptr}
            /\ order_map' = [order_map EXCEPT ![mem[ptr].id] = Null]
            /\ Unlinked(ptr)
  BY <1>3 DEF SettleStep
<1>5. ptr \in Slots /\ ptr \in Live /\ mem[ptr].id \in OrderIDs
  BY <1>1, <1>4, ListedFacts, LiveFacts
<1>6. ASSUME NEW s \in Live, s # ptr \/ mem'[ptr] # NoOrder
      PROVE  SameTerms(s)
  <2>1. s \in Slots /\ mem[s] \in Order
    BY <1>1, LiveFacts
  <2>2. s \in Live' /\ mem'[s] # NoOrder
    <3>1. s \in Live'
      BY <1>4, <1>6
    <3> QED
      BY <3>1, SlotFacts DEF Live
  <2>3. mem'[s] = mem[s] \/ mem'[s] = [mem[s] EXCEPT !.quantity = @ - q]
    BY <1>4, <1>6, <2>1, <2>2
  <2> QED
    BY <2>1, <2>2, <2>3 DEF SameTerms, Order
<1>7. TimesKept
  <2> SUFFICES ASSUME NEW s \in Slots, mem[s] # NoOrder, mem'[s] # NoOrder
               PROVE  mem'[s].timestamp = mem[s].timestamp
    BY DEF TimesKept
  <2>1. s \in Live
    BY SlotFacts
  <2> QED
    BY <1>6, <2>1 DEF SameTerms
<1>8. ASSUME NEW c \in Suspended
      PROVE  Undisturbed(c)
  <2>1. /\ c \in InProgress /\ c.at = "callback"
        /\ c.taker # tk /\ c.maker # tk
        /\ c.taker # ptr /\ c.maker # ptr
    BY <1>4, CallsApart
  <2>2. /\ c.taker \in Slots /\ mem[c.taker] # NoOrder
        /\ c.maker \in Slots /\ mem[c.maker] # NoOrder
        /\ mem[c.taker].id \in OrderIDs
        /\ order_map[mem[c.taker].id] = Null
    BY <2>1, FrameFacts
  <2>3. mem'[c.taker] = mem[c.taker] /\ mem'[c.maker] = mem[c.maker]
    BY <1>4, <2>1, <2>2
  <2>4. order_map'[mem[c.taker].id] = Null
    BY <1>1, <1>4, <2>2 DEF TypeOK
  <2>5. BookKept(c)
    BY <1>4, <1>5, <2>1 DEF BookKept
  <2> QED
    BY <2>2, <2>3, <2>4, <2>5 DEF Undisturbed, SameTerms
<1>9. CallsInv'
  <2>1. FairQuantity'
    BY <1>4 DEF FairQuantity
  <2>2. SameTerms(call.taker)
    BY <1>4, <1>6
  <2> QED
    BY <1>2, <1>4, <1>7, <1>8, <2>1, <2>2, CallGoesOn
<1>10. ListedAreIndexed'
  <2>1. \A s \in Listed : s \in Live
    BY <1>1, ListedFacts
  <2>2. CASE Listed' = Listed /\ UNCHANGED order_map /\ Live' = Live
    <3>1. mem'[ptr] # NoOrder
      BY <1>5, <2>2, SlotFacts DEF Live
    <3>2. \A s \in Listed : mem'[s].id = mem[s].id
      BY <1>6, <2>1, <3>1 DEF SameTerms
    <3> QED
      BY <1>1, <2>2, <3>2, IndexKept
  <2>3. CASE /\ Listed' = Listed \ {ptr}
             /\ order_map' = [order_map EXCEPT ![mem[ptr].id] = Null]
    <3>1. \A s \in Listed \ {ptr} : mem'[s].id = mem[s].id
      BY <1>6, <2>1 DEF SameTerms
    <3> QED
      BY <1>1, <1>4, <2>3, <3>1, IndexWithout
  <2> QED
    BY <1>4, <2>2, <2>3
<1> QED
  BY <1>2, <1>9, <1>10 DEF NestedInv

-----------------------------------------------------------------------------
(***************************************************************************)
(* A call returns.                                                         *)
(***************************************************************************)
LEMMA ReturnFacts ==
  ASSUME NestedInv, Return
  PROVE  call' \in Calls
<1>1. outer \in Seq(Calls)
  BY CallsFacts
<1>2. CASE outer = << >>
  <2>1. call' = IdleCall
    BY <1>2 DEF Return
  <2> QED
    BY <2>1, SlotFacts, LimitsAssumption DEF IdleCall, Calls
<1>3. CASE outer # << >>
  <2>1. call' = outer[Len(outer)]
    BY <1>3 DEF Return, Stack!Last
  <2> QED
    BY <1>1, <1>3, <2>1
<1> QED
  BY <1>2, <1>3

LEMMA RestNested ==
  ASSUME NestedInv, NestedRest
  PROVE  NestedInv'
<1>1. /\ StepInv /\ TypeOK /\ ListedAreIndexed
      /\ CannotTrade /\ ~Idle
      /\ book' = AddToPriceLevel(call.taker, Taker)
      /\ order_map' = [order_map EXCEPT ![Taker.id] = call.taker]
      /\ Return /\ result' \in ErrorCodes
      /\ UNCHANGED <<free_list, mem, now>>
  BY CallsFacts DEF NestedInv, NestedRest, ErrorCodes, CannotTrade, Matching, Idle
<1>2. BookInv'
  <2>1. call' \in Calls
    BY <1>1, ReturnFacts
  <2> QED
    BY <1>1, <2>1, LinkedTakerInv
<1>3. PICK tk, o : tk = call.taker /\ o = Taker
  OBVIOUS
<1>4. /\ LinkedLast(tk, o.side, o.price) /\ Listed' = Listed \cup {tk}
      /\ tk \in Slots /\ o.side \in Sides /\ o.price \in Prices
      /\ mem[tk].id \in OrderIDs /\ o = mem[tk]
      /\ order_map[mem[tk].id] = Null
  <2>1. RestStep(call.taker)
    BY <1>1, RestEffect
  <2>2. tk \in Live
    BY <1>3, <2>1 DEF RestStep
  <2>3. tk \in Slots /\ mem[tk].id \in OrderIDs
    BY <1>1, <2>2, LiveFacts
  <2> QED
    BY <1>1, <1>3, <2>1, <2>3, TakerFacts DEF RestStep, Taker
<1>5. TimesKept
  BY <1>1 DEF TimesKept
<1>6. ASSUME NEW c \in Suspended
      PROVE  Undisturbed(c)
  <2>1. /\ c \in InProgress /\ c.taker # tk /\ mem[c.taker].id # mem[tk].id
        /\ ~(o.side = mem[c.taker].side /\ o.price = mem[c.taker].price)
    BY <1>1, <1>3, CallsApart DEF Taker
  <2>2. /\ mem[c.taker] # NoOrder /\ mem[c.taker].id \in OrderIDs
        /\ order_map[mem[c.taker].id] = Null
        /\ c.at = "callback" => mem[c.maker] # NoOrder
    BY <2>1, FrameFacts
  <2>3. order_map'[mem[c.taker].id] = Null
    BY <1>1, <1>3, <1>4, <2>1, <2>2 DEF TypeOK
  <2>4. BookKept(c)
    BY <1>4, <2>1 DEF BookKept
  <2> QED
    BY <1>1, <2>2, <2>3, <2>4 DEF Undisturbed, SameTerms
<1>7. CallsInv'
  BY <1>1, <1>2, <1>5, <1>6, CallReturns
<1>8. ListedAreIndexed'
  <2>1. ASSUME NEW s \in Listed'
        PROVE  order_map'[mem'[s].id] = s
    <3>1. /\ order_map \in [OrderIDs -> Slots \cup {Null}]
          /\ order_map' = [order_map EXCEPT ![mem[tk].id] = tk]
          /\ mem'[s] = mem[s]
      BY <1>1, <1>3, <1>4 DEF TypeOK
    <3>2. CASE s = tk
      BY <1>4, <3>1, <3>2
    <3>3. CASE s \in Listed
      <4>1. order_map[mem[s].id] = s /\ s \in Slots /\ mem[s].id \in OrderIDs
        BY <1>1, <3>3, IndexedMeans, ListedFacts, LiveFacts
      <4>2. mem[s].id # mem[tk].id
        BY <1>4, <4>1, SlotFacts
      <4> QED
        BY <3>1, <4>1, <4>2
    <3> QED
      BY <1>4, <3>2, <3>3
  <2> QED
    BY <2>1, IndexedMeans
<1> QED
  BY <1>2, <1>7, <1>8 DEF NestedInv

LEMMA FilledNested ==
  ASSUME NestedInv, NestedFilled
  PROVE  NestedInv'
<1>1. /\ StepInv /\ TypeOK /\ ListedAreIndexed
      /\ Matching /\ ~Idle /\ Taker.quantity = 0
      /\ mem' = [mem EXCEPT ![call.taker] = NoOrder]
      /\ free_list' = Pool!PushBack(free_list, call.taker)
      /\ Return /\ result' \in ErrorCodes
      /\ UNCHANGED <<book, order_map, now>>
  BY CallsFacts DEF NestedInv, NestedFilled, ErrorCodes, Matching, Idle
<1>2. BookInv'
  <2>1. call' \in Calls
    BY <1>1, ReturnFacts
  <2> QED
    BY <1>1, <2>1, FilledBookInv
<1>3. /\ \A s \in Slots : mem'[s] = IF s = call.taker THEN NoOrder ELSE mem[s]
      /\ Listed' = Listed
      /\ call.taker \notin Listed
  <2>1. FilledStep(call.taker)
    BY <1>1, FilledEffect
  <2> QED
    BY <2>1 DEF FilledStep
<1>4. TimesKept
  BY <1>3 DEF TimesKept
<1>5. ASSUME NEW c \in Suspended
      PROVE  Undisturbed(c)
  <2>1. c \in InProgress /\ c.taker # call.taker /\ c.maker # call.taker
    BY <1>1, CallsApart
  <2>2. /\ c.taker \in Slots /\ mem[c.taker] # NoOrder
        /\ order_map[mem[c.taker].id] = Null
        /\ c.at = "callback" => c.maker \in Slots /\ mem[c.maker] # NoOrder
    BY <2>1, FrameFacts
  <2>3. /\ mem'[c.taker] = mem[c.taker]
        /\ c.at = "callback" => mem'[c.maker] = mem[c.maker]
    BY <1>3, <2>1, <2>2
  <2>4. order_map'[mem[c.taker].id] = Null
    BY <1>1, <2>2
  <2>5. BookKept(c)
    BY <1>1, SameBookKept DEF BookKept
  <2> QED
    BY <2>2, <2>3, <2>4, <2>5 DEF Undisturbed, SameTerms
<1>6. CallsInv'
  BY <1>1, <1>2, <1>4, <1>5, CallReturns
<1>7. ListedAreIndexed'
  BY <1>1, <1>3, ListedFacts, IndexKept
<1> QED
  BY <1>2, <1>6, <1>7 DEF NestedInv

\* Nothing changes but what the running call is and what it answered.
LEMMA NothingMoved ==
  ASSUME NestedInv, UNCHANGED <<mem, book, order_map>>
  PROVE  /\ ListedAreIndexed' /\ TimesKept
         /\ \A c \in InProgress : Undisturbed(c)
<1>1. StepInv /\ TypeOK /\ ListedAreIndexed
  BY CallsFacts DEF NestedInv
<1>2. ListsKept /\ Listed' = Listed
  BY <1>1, SameBookKept, KeptListed
<1>3. ListedAreIndexed' /\ TimesKept
  BY <1>1, <1>2, IndexKept DEF TimesKept
<1>4. ASSUME NEW c \in InProgress
      PROVE  Undisturbed(c)
  <2>1. /\ mem[c.taker] # NoOrder /\ order_map[mem[c.taker].id] = Null
        /\ c.at = "callback" => mem[c.maker] # NoOrder
    BY FrameFacts
  <2>2. order_map'[mem[c.taker].id] = Null
    BY <2>1
  <2> QED
    BY <1>2, <2>1, <2>2 DEF Undisturbed, SameTerms, BookKept
<1> QED
  BY <1>3, <1>4

LEMMA ThrowNested ==
  ASSUME NestedInv, NestedThrow
  PROVE  NestedInv'
<1>1. /\ StepInv /\ ~Idle
      /\ Return /\ result' \in ErrorCodes
      /\ UNCHANGED <<free_list, mem, book, order_map, now>>
  BY CallsFacts DEF NestedThrow, ErrorCodes, CannotTrade, Matching, Idle
<1>2. BookInv'
  <2>1. call' \in Calls
    BY <1>1, ReturnFacts
  <2> QED
    BY <1>1, <2>1, AbandonedInv
<1>3. ListedAreIndexed' /\ TimesKept /\ \A c \in InProgress : Undisturbed(c)
  BY <1>1, NothingMoved
<1>4. \A c \in Suspended : Undisturbed(c)
  BY <1>3, InProgressMeans
<1>5. CallsInv'
  BY <1>1, <1>2, <1>3, <1>4, CallReturns
<1> QED
  BY <1>2, <1>3, <1>5 DEF NestedInv

-----------------------------------------------------------------------------
(***************************************************************************)
(* What a client does between calls or from a callback.                    *)
(***************************************************************************)
LEMMA QuietNested ==
  ASSUME NestedInv, result' \in ErrorCodes,
         UNCHANGED <<free_list, mem, book, order_map, call, now, outer>>
  PROVE  NestedInv'
<1>1. StepInv
  BY CallsFacts
<1>2. BookInv'
  BY <1>1, QuietStepsInv DEF StepInv
<1>3. ListedAreIndexed' /\ TimesKept /\ \A c \in InProgress : Undisturbed(c)
  BY NothingMoved
<1>4. CallsInv'
  BY <1>2, <1>3, CallsStay
<1> QED
  BY <1>2, <1>3, <1>4 DEF NestedInv

LEMMA CancelNested ==
  ASSUME NestedInv, NEW id \in OrderIDs, NestedCancel(id)
  PROVE  NestedInv'
<1>1. /\ StepInv /\ TypeOK /\ ListedAreIndexed
      /\ \A c \in Reported : order_map[id] # c.maker
      /\ UNCHANGED outer
  BY CallsFacts DEF NestedInv, NestedCancel
<1>2. CASE CancelNotFound(id)
  BY <1>1, <1>2, QuietNested DEF CancelNotFound, ErrorCodes
<1>3. CASE CancelOrder(id)
  <2>1. PICK ptr : ptr = order_map[id]
    OBVIOUS
  <2>2. /\ ptr \in Listed /\ mem[ptr].id = id
        /\ \A s \in Slots : mem'[s] = IF s = ptr THEN NoOrder ELSE mem[s]
        /\ Unlinked(ptr) /\ Listed' = Listed \ {ptr}
        /\ order_map' = [order_map EXCEPT ![id] = Null]
        /\ UNCHANGED call
    <3>1. CancelStep(id, ptr)
      BY <1>1, <1>3, <2>1, CancelEffect
    <3> QED
      BY <3>1 DEF CancelStep
  <2>3. BookInv'
    BY <1>1, <1>3, CancelOrderInv DEF StepInv
  <2>4. TimesKept
    BY <2>2 DEF TimesKept
  <2>5. ASSUME NEW c \in InProgress
        PROVE  Undisturbed(c)
    <3>1. /\ c.taker \in Slots /\ mem[c.taker] # NoOrder
          /\ c.taker \notin Listed
          /\ mem[c.taker].id \in OrderIDs
          /\ order_map[mem[c.taker].id] = Null
          /\ c.at = "callback" => c.maker \in Slots /\ mem[c.maker] # NoOrder
      BY FrameFacts
    <3>2. c.taker # ptr /\ (c.at = "callback" => c.maker # ptr)
      BY <1>1, <2>1, <2>2, <3>1 DEF Reported
    <3>3. /\ mem'[c.taker] = mem[c.taker]
          /\ c.at = "callback" => mem'[c.maker] = mem[c.maker]
      BY <2>2, <3>1, <3>2
    <3>4. order_map'[mem[c.taker].id] = Null
      BY <1>1, <2>2, <3>1 DEF TypeOK
    <3>5. BookKept(c)
      BY <1>1, <2>2, <3>2, ListedFacts DEF BookKept
    <3> QED
      BY <3>1, <3>3, <3>4, <3>5 DEF Undisturbed, SameTerms
  <2>6. CallsInv'
    BY <1>1, <2>2, <2>3, <2>4, <2>5, CallsStay
  <2>7. ListedAreIndexed'
    <3>1. \A s \in Listed \ {ptr} : mem'[s].id = mem[s].id
      BY <1>1, <2>2, ListedFacts
    <3> QED
      BY <1>1, <2>2, <3>1, IndexWithout
  <2> QED
    BY <2>3, <2>6, <2>7 DEF NestedInv
<1> QED
  BY <1>2, <1>3 DEF NestedCancel

\* An order is accepted, from a callback only if it leaves the reported trades
\* alone.
LEMMA AcceptNested ==
  ASSUME NestedInv, NEW r, r.id \in OrderIDs,
         \/ AddAccepted(r) /\ UNCHANGED outer
         \/ NestedAddAccepted(r)
  PROVE  NestedInv'
<1>1. PICK ptr : ptr = Pool!Back(free_list)
  OBVIOUS
<1>2. /\ Refusal(r) = "SUCCESS"
      /\ mem' = [mem EXCEPT ![ptr] = NewOrder(r)]
      /\ call' = [IdleCall EXCEPT !.at = "matching", !.taker = ptr]
      /\ free_list' = Pool!PopBack(free_list)
      /\ now' = now + 1
      /\ UNCHANGED <<book, order_map, result>>
      /\ Idle \/ InCallback
  BY <1>1 DEF AddAccepted, NestedAddAccepted
<1>3. /\ outer' = IF Idle THEN outer ELSE Append(outer, call)
      /\ ~Idle => LeavesTradesAlone(r)
  BY DEF AddAccepted, NestedAddAccepted, Idle, InCallback
<1>4. /\ StepInv /\ TypeOK /\ ListedAreIndexed /\ CallsInv
  BY CallsFacts DEF NestedInv
<1>5. StepInv' /\ BookInv'
  BY <1>1, <1>2, <1>4, AcceptedInv DEF StepInv
<1>6. ptr \in Slots /\ mem[ptr] = NoOrder
  <2>1. free_list \in Seq(Slots) /\ free_list # << >>
    BY <1>2, <1>4 DEF TypeOK, Refusal
  <2>2. ptr \in Slots /\ ptr \notin Live
    BY <1>1, <1>4, <2>1
       DEF Pool!Back, StepInv, BookInv, Pool!PoolPartition, Pool!FreeIsNotLive
  <2> QED
    BY <2>2, SlotFacts
<1>7. /\ mem'[ptr] = NewOrder(r)
      /\ \A s \in Slots \ {ptr} : mem'[s] = mem[s]
  BY <1>2, <1>4, <1>6 DEF TypeOK
<1>8. call'.taker = ptr /\ call'.at = "matching" /\ ~Idle' /\ ~InCallback'
  BY <1>2 DEF IdleCall, Idle, InCallback
<1>9. TimesKept
  BY <1>6, <1>7 DEF TimesKept
<1>10. ListsKept /\ Listed' = Listed
  BY <1>2, <1>4, SameBookKept, KeptListed
<1>11. ASSUME NEW c \in InProgress
       PROVE  /\ Undisturbed(c)
              /\ \A d \in Running' : OutOfReach(c, d)'
  <2>1. /\ c.taker \in Slots /\ mem[c.taker] # NoOrder
        /\ mem[c.taker].side \in Sides
        /\ order_map[mem[c.taker].id] = Null
        /\ c.at = "callback" =>
             /\ c.maker \in Slots /\ mem[c.maker] # NoOrder
             /\ mem[c.maker].side = Opposite(mem[c.taker].side)
             /\ mem[c.maker].price = c.level
    BY FrameFacts
  <2>2. /\ mem'[c.taker] = mem[c.taker]
        /\ c.at = "callback" => mem'[c.maker] = mem[c.maker]
    BY <1>6, <1>7, <2>1
  <2>3. order_map'[mem[c.taker].id] = Null
    BY <1>2, <2>1
  <2>4. Undisturbed(c)
    BY <1>10, <2>1, <2>2, <2>3 DEF Undisturbed, SameTerms, BookKept
  <2>5. ~Idle /\ c.at = "callback" /\ c \in Reported
    <3>1. ~Idle
      BY <1>4, InProgressMeans, SuspendedMeans DEF CallsInv, Running
    <3>2. c.at = "callback"
      BY <1>2, <3>1, InProgressMeans, CallsFacts DEF Running, InCallback
    <3> QED
      BY <3>1, <3>2 DEF Reported
  <2>6. /\ mem[c.taker].id # r.id
        /\ r.side = mem[c.taker].side => ~Crosses(r.side, r.price, c.level)
    <3>1. Opposite(mem[c.maker].side) = mem[c.taker].side
      BY <2>1, <2>5, SideFacts
    <3> QED
      BY <1>3, <2>1, <2>5, <3>1 DEF LeavesTradesAlone
  <2>7. /\ NewOrder(r).id = r.id /\ NewOrder(r).side = r.side
        /\ NewOrder(r).price = r.price
    BY DEF NewOrder
  <2>8. ASSUME NEW d \in Running'
        PROVE  OutOfReach(c, d)'
    <3>1. d.taker = ptr
      BY <1>8, <2>8 DEF Running
    <3>2. c.taker # ptr
      BY <1>6, <2>1
    <3> QED
      BY <1>7, <2>2, <2>6, <2>7, <3>1, <3>2 DEF OutOfReach
  <2> QED
    BY <2>4, <2>8
<1>12. CallsInv'
  BY <1>2, <1>3, <1>5, <1>8, <1>9, <1>11, CallBegins
<1>13. ListedAreIndexed'
  <2>1. \A s \in Listed : mem'[s].id = mem[s].id
    BY <1>4, <1>6, <1>7, ListedFacts
  <2> QED
    BY <1>2, <1>4, <1>10, <2>1, IndexKept
<1> QED
  BY <1>5, <1>12, <1>13 DEF NestedInv

-----------------------------------------------------------------------------
(***************************************************************************)
(* The life of a book, and every step of the C API.                        *)
(***************************************************************************)
LEMMA FreshNested == NestedInit => NestedInv
<1> SUFFICES ASSUME NestedInit
             PROVE  NestedInv
  OBVIOUS
<1>1. Init /\ outer = << >>
  BY DEF NestedInit
<1>2. BookInv
  BY <1>1, InitInv DEF StepInv
<1>3. \A side \in Sides : Levels(side) = {}
  BY <1>1 DEF Init, Levels
<1>4. ListedAreIndexed
  BY <1>3 DEF ListedAreIndexed
<1>5. call = IdleCall /\ Idle
  BY <1>1 DEF Init, Idle, IdleCall
<1>6. Suspended = {} /\ Running = {} /\ InProgress = {}
  <2>1. Suspended = {}
    BY <1>1, SuspendedMeans
  <2> QED
    BY <1>5, <2>1, InProgressMeans DEF Running
<1>7. CallsInv
  BY <1>1, <1>5, <1>6 DEF CallsInv
<1> QED
  BY <1>2, <1>4, <1>7 DEF NestedInv

LEMMA FreshNestedNext == NestedInit' => NestedInv'
BY FreshNested, PTL

LEMMA DestroyNested ==
  ASSUME NestedInv, DestroyOrderBook
  PROVE  NestedInit'
<1>1. call = IdleCall /\ outer = << >>
  BY DEF NestedInv, CallsInv, DestroyOrderBook
<1>2. /\ mem' = [s \in Slots |-> NoOrder]
      /\ free_list' = [i \in Slots |-> i]
      /\ book' = [side \in Sides |-> [p \in {} |-> {}]]
      /\ order_map' = [id \in OrderIDs |-> Null]
      /\ call' = IdleCall /\ outer' = << >>
      /\ now' = 0 /\ result' = "SUCCESS"
  BY <1>1 DEF DestroyOrderBook
<1>3. Live' = {}
  BY <1>2, SlotFacts DEF Live
<1>4. Pool!Init'
  BY <1>2, <1>3, SlotFacts DEF Pool!Init
<1>5. Init'
  BY <1>2, <1>4
     DEF Init, Slots, Pool!Slots, Null, Pool!Null, IdleCall
<1> QED
  BY <1>2, <1>5 DEF NestedInit

LEMMA ConvertedFacts ==
  ASSUME NEW r \in Requests
  PROVE  /\ Converted(r).id \in OrderIDs
         /\ Converted(r).quantity \in Nat
<1>1. r \in [id : OrderIDs, price : Nat, quantity : Nat, side : Int]
  BY CApiAssumption
<1> QED
  BY <1>1 DEF Converted

LEMMA RefusalFacts ==
  ASSUME NEW r
  PROVE  Refusal(r) \in ErrorCodes
BY DEF Refusal, ArgumentError, ErrorCodes

LEMMA CApiStepNested ==
  ASSUME NestedInv, [CApiNext]_capiVars
  PROVE  NestedInv'
<1>1. TypeOK
  BY CallsFacts
<1>2. CASE UNCHANGED nestedVars
  BY <1>1, <1>2, QuietNested DEF nestedVars, TypeOK
<1>3. CASE DestroyOrderBook
  BY <1>3, DestroyNested, FreshNestedNext
<1>4. CASE AddToNull \/ CancelInNull
  BY <1>4, QuietNested DEF AddToNull, CancelInNull, NullHandle, ErrorCodes
<1>5. ASSUME NEW r \in Requests, AddRefused(r)
      PROVE  NestedInv'
  <2>1. PICK q : q = Converted(r)
    OBVIOUS
  <2>2. /\ result' = Refusal(q)
        /\ UNCHANGED <<free_list, mem, book, order_map, call, now, outer>>
    BY <1>5, <2>1 DEF AddRefused, AddRejected, NestedAddRejected
  <2>3. result' \in ErrorCodes
    BY <2>2, RefusalFacts
  <2> QED
    BY <2>2, <2>3, QuietNested
<1>6. ASSUME NEW r \in Requests, AddBegins(r)
      PROVE  NestedInv'
  <2>1. PICK q : q = Converted(r)
    OBVIOUS
  <2>2. q.id \in OrderIDs
    BY <2>1, ConvertedFacts
  <2>3. \/ AddAccepted(q) /\ UNCHANGED outer
        \/ NestedAddAccepted(q)
    BY <1>6, <2>1 DEF AddBegins
  <2> QED
    BY <2>2, <2>3, AcceptNested
<1>7. ASSUME NEW id \in OrderIDs, Cancel(id)
      PROVE  NestedInv'
  BY <1>7, CancelNested DEF Cancel
<1>8. CASE Continue
  BY <1>8, ReportNested, SettleNested, RestNested, FilledNested, ThrowNested
     DEF Continue, NestedEngine
<1>9. CASE CreateOrderBook \/ SetTradeCallback \/ UNCHANGED capiVars
  BY <1>2, <1>9 DEF CreateOrderBook, SetTradeCallback, capiVars
<1> QED
  BY <1>3, <1>4, <1>5, <1>6, <1>7, <1>8, <1>9 DEF CApiNext

LEMMA NestedInvariance == CApiSpec => []NestedInv
<1>1. CApiInit => NestedInv
  BY FreshNested DEF CApiInit
<1>2. NestedInv /\ [CApiNext]_capiVars => NestedInv'
  BY CApiStepNested
<1> QED
  BY <1>1, <1>2, PTL DEF CApiSpec
-----------------------------------------------------------------------------
(***************************************************************************)
(* What the invariant says of any two calls in progress.                   *)
(***************************************************************************)
LEMMA OneReachesNotTheOther ==
  ASSUME NestedInv, NEW c \in InProgress, NEW d \in InProgress, c # d
  PROVE  \/ c.at = "callback" /\ OutOfReach(c, d)
         \/ d.at = "callback" /\ OutOfReach(d, c)
<1>1. CallsInv /\ outer \in Seq(Calls)
  BY DEF NestedInv, CallsInv
<1>2. /\ c \in Suspended \/ c \in Running
      /\ d \in Suspended \/ d \in Running
  BY InProgressMeans
<1>3. CASE c \in Suspended /\ d \in Running
  BY <1>1, <1>3 DEF CallsInv
<1>4. CASE d \in Suspended /\ c \in Running
  BY <1>1, <1>4 DEF CallsInv
<1>5. CASE c \in Suspended /\ d \in Suspended
  <2>1. DOMAIN outer = 1 .. Len(outer) /\ Len(outer) \in Nat
    BY <1>1
  <2>2. PICK i \in 1 .. Len(outer) : c = outer[i]
    BY <1>5, <2>1, SuspendedMeans
  <2>3. PICK j \in 1 .. Len(outer) : d = outer[j]
    BY <1>5, <2>1, SuspendedMeans
  <2>4. i < j \/ j < i
    BY <2>1, <2>2, <2>3
  <2>5. Called(c, d) \/ Called(d, c)
    BY <2>2, <2>3, <2>4 DEF Called
  <2> QED
    BY <1>1, <1>5, <2>5 DEF CallsInv
<1>6. c \notin Running \/ d \notin Running
  BY DEF Running
<1> QED
  BY <1>2, <1>3, <1>4, <1>5, <1>6

LEMMA ReportedMeans ==
  \A c : c \in Reported <=> c \in InProgress /\ c.at = "callback"
BY DEF Reported

LEMMA TradesStand == NestedInv => SuspendedTradesStand
<1> SUFFICES ASSUME NestedInv, NEW c \in Reported
             PROVE  /\ mem[c.maker] # NoOrder /\ mem[c.taker] # NoOrder
                    /\ mem[c.maker].side = Opposite(mem[c.taker].side)
                    /\ c.level \in Levels(mem[c.maker].side)
                    /\ Head(book[mem[c.maker].side][c.level].orders) = c.maker
                    /\ c.quantity = TradeQuantity(mem[c.taker], mem[c.maker])
  BY DEF SuspendedTradesStand
<1>1. CallStands(c) /\ c.at = "callback" /\ mem[c.taker] # NoOrder
  BY ReportedMeans, CallsFacts
<1>2. TradeStands(c)
  BY <1>1 DEF CallStands
<1> QED
  BY <1>1, <1>2 DEF TradeStands

LEMMA TakersStayPrivate == NestedInv => TakersArePrivate
<1> SUFFICES ASSUME NestedInv, NEW c \in InProgress
             PROVE  /\ mem[c.taker] # NoOrder
                    /\ order_map[mem[c.taker].id] = Null
                    /\ \A side \in Sides : \A p \in Levels(side) :
                         ~Linked(c.taker, side, p)
                    /\ \A d \in InProgress \ {c} :
                         c.taker # d.taker /\ mem[c.taker].id # mem[d.taker].id
  BY DEF TakersArePrivate
<1>1. TakerWaits(c) /\ c.taker \in Slots
  BY CallsFacts DEF CallStands
<1>2. ASSUME NEW d \in InProgress \ {c}
      PROVE  c.taker # d.taker /\ mem[c.taker].id # mem[d.taker].id
  BY <1>2, OneReachesNotTheOther DEF OutOfReach
<1> QED
  BY <1>1, <1>2 DEF TakerWaits

\* However calls nest, what every interrupted loop read before its callback is
\* still true when it goes on (OrderBook.cpp:149-171, 182-204).
THEOREM InterruptedTradesStand == CApiSpec => []SuspendedTradesStand
BY TradesStand, NestedInvariance, PTL

\* However calls nest, the pool is partitioned, the index and the levels hold
\* the same orders, the book is not crossed, each level stands in the order of
\* acceptance, and nothing leads to an order that is being matched
\* (OrderBook.cpp:64-77, 100-103, 142-206).
THEOREM NestedEngineInvariance == CApiSpec => []NestedEngineInv
<1>1. NestedInv => NestedEngineInv
  BY TakersStayPrivate
     DEF NestedEngineInv, NestedInv, BookInv, TypeOK, CallsInv, MapIndexesBook
<1> QED
  BY <1>1, NestedInvariance, PTL
-----------------------------------------------------------------------------
(***************************************************************************)
(* Fills.                                                                  *)
(***************************************************************************)
\* No order is in two trades that are still to settle.
TradesApart ==
  /\ \A c, d \in InProgress : c # d => Parties(c) \cap Parties(d) = {}
  /\ \A c \in Suspended, d \in Running : Parties(c) \cap Parties(d) = {}

LEMMA ReachApart ==
  ASSUME NestedInv, NEW c \in InProgress, NEW d \in InProgress,
         c.at = "callback", d.at = "callback", OutOfReach(c, d)
  PROVE  Parties(c) \cap Parties(d) = {}
<1>1. PICK a, b : a = mem[c.taker] /\ b = mem[d.taker]
  OBVIOUS
<1>2. /\ c.taker \notin Listed /\ c.maker \in Listed
      /\ a.side \in Sides
      /\ mem[c.maker].side = Opposite(a.side)
      /\ mem[c.maker].price = c.level
  BY <1>1, FrameFacts
<1>3. /\ d.taker \notin Listed /\ d.maker \in Listed
      /\ b.side \in Sides
      /\ mem[d.maker].side = Opposite(b.side)
      /\ mem[d.maker].price = d.level
      /\ Crosses(b.side, b.price, d.level)
  BY <1>1, FrameFacts
<1>4. /\ c.taker # d.taker
      /\ b.side = a.side => ~Crosses(b.side, b.price, c.level)
  BY <1>1 DEF OutOfReach
<1>5. c.maker # d.maker
  <2> SUFFICES ASSUME c.maker = d.maker
               PROVE  FALSE
    OBVIOUS
  <2>1. Opposite(a.side) = Opposite(b.side) /\ c.level = d.level
    BY <1>2, <1>3
  <2>2. a.side = b.side
    BY <1>2, <1>3, <2>1, SideFacts
  <2> QED
    BY <1>3, <1>4, <2>1, <2>2
<1> QED
  BY <1>2, <1>3, <1>4, <1>5 DEF Parties

LEMMA NestedTradesApart == NestedInv => TradesApart
<1> SUFFICES ASSUME NestedInv
             PROVE  TradesApart
  OBVIOUS
<1>1. ASSUME NEW c \in InProgress, NEW d \in InProgress,
             c.at = "callback", OutOfReach(c, d)
      PROVE  Parties(c) \cap Parties(d) = {}
  BY <1>1, ReachApart DEF Parties
<1>2. ASSUME NEW c \in InProgress, NEW d \in InProgress, c # d
      PROVE  Parties(c) \cap Parties(d) = {}
  <2>1. CASE c.at = "callback" /\ OutOfReach(c, d)
    BY <1>1, <2>1
  <2>2. CASE d.at = "callback" /\ OutOfReach(d, c)
    BY <1>1, <2>2
  <2> QED
    BY <1>2, <2>1, <2>2, OneReachesNotTheOther
<1>3. ASSUME NEW c \in Suspended, NEW d \in Running
      PROVE  Parties(c) \cap Parties(d) = {}
  BY <1>1, InProgressMeans, CallsFacts DEF NestedInv, CallsInv
<1> QED
  BY <1>2, <1>3 DEF TradesApart

LEMMA NestedTradesApartNext == NestedInv' => TradesApart'
BY NestedTradesApart, PTL

LEMMA OwingMeans ==
  /\ \A s, c : c \in Owing(s) <=> /\ c \in Suspended \cup Running
                                  /\ s \in Parties(c)
  /\ \A s : Owing(s)' = {c \in Suspended' \cup Running' : s \in Parties(c)}
<1>1. InProgress' = Suspended' \cup Running'
  BY DEF InProgress, Suspended, Running
<1> QED
  BY <1>1, InProgressMeans DEF Owing, Parties

LEMMA OrderBalance ==
  ASSUME NestedInv, NEW s \in Live
  PROVE  /\ mem[s] \in Order /\ s \in Slots
         /\ mem[s].quantity \in Nat /\ mem[s].reported \in Nat
         /\ mem[s].original \in Nat
BY LiveFacts, CallsFacts

\* A step that keeps an order and the trades it is in.
LEMMA BalanceKept ==
  ASSUME NEW s, Balanced(s), UNCHANGED mem[s], Owing(s)' = Owing(s)
  PROVE  Balanced(s)'
BY DEF Balanced

LEMMA ReturnFills ==
  ASSUME NestedInv, FillsInv, Matching, Return,
         NEW s \in Live, mem'[s] = mem[s]
  PROVE  Balanced(s)'
<1>1. ~Idle /\ Parties(call) = {}
  BY DEF Matching, Idle, Parties
<1>2. InProgress' = Suspended
  BY <1>1, CallPopped
<1>3. Owing(s)' = {c \in Suspended : s \in Parties(c)}
  BY <1>2 DEF Owing, Parties
<1>4. Owing(s) = {c \in Suspended : s \in Parties(c)}
  BY <1>1, InProgressMeans DEF Owing, Running
<1> QED
  BY <1>3, <1>4, BalanceKept DEF FillsInv

LEMMA SameCallsFills ==
  ASSUME NestedInv, FillsInv, UNCHANGED <<call, outer>>,
         NEW s \in Live, mem'[s] = mem[s]
  PROVE  Balanced(s)'
<1>1. Owing(s)' = Owing(s)
  BY DEF Owing, InProgress, Idle, Parties
<1> QED
  BY <1>1, BalanceKept DEF FillsInv

\* What accepting an order does to the pool, the book and the calls.
LEMMA AcceptFacts ==
  ASSUME NestedInv, NEW r,
         \/ AddAccepted(r) /\ UNCHANGED outer
         \/ NestedAddAccepted(r)
  PROVE  \E ptr \in Slots :
           /\ ptr = Pool!Back(free_list) /\ ptr \notin Live
           /\ mem'[ptr] = NewOrder(r)
           /\ \A t \in Slots \ {ptr} : mem'[t] = mem[t]
           /\ call' = [IdleCall EXCEPT !.at = "matching", !.taker = ptr]
           /\ outer' = IF Idle THEN outer ELSE Append(outer, call)
           /\ UNCHANGED book
<1>1. PICK ptr : ptr = Pool!Back(free_list)
  OBVIOUS
<1>2. /\ free_list # << >>
      /\ mem' = [mem EXCEPT ![ptr] = NewOrder(r)]
      /\ call' = [IdleCall EXCEPT !.at = "matching", !.taker = ptr]
      /\ UNCHANGED book
  BY <1>1 DEF AddAccepted, NestedAddAccepted, Refusal
<1>3. outer' = IF Idle THEN outer ELSE Append(outer, call)
  BY DEF AddAccepted, NestedAddAccepted, Idle, InCallback
<1>4. TypeOK /\ Pool!PoolPartition
  BY CallsFacts DEF BookInv
<1>5. ptr \in Slots /\ ptr \notin Live
  <2>1. free_list \in Seq(Slots)
    BY <1>4 DEF TypeOK
  <2> QED
    BY <1>1, <1>2, <1>4, <2>1 DEF Pool!Back, Pool!PoolPartition, Pool!FreeIsNotLive
<1>6. /\ mem'[ptr] = NewOrder(r)
      /\ \A t \in Slots \ {ptr} : mem'[t] = mem[t]
  BY <1>2, <1>4, <1>5 DEF TypeOK
<1> QED
  BY <1>1, <1>2, <1>3, <1>5, <1>6

LEMMA AcceptFills ==
  ASSUME NestedInv, FillsInv, NEW r, r.quantity \in Nat,
         \/ AddAccepted(r) /\ UNCHANGED outer
         \/ NestedAddAccepted(r),
         NEW s \in Live'
  PROVE  Balanced(s)'
<1>1. PICK ptr \in Slots :
        /\ ptr \notin Live
        /\ mem'[ptr] = NewOrder(r)
        /\ \A t \in Slots \ {ptr} : mem'[t] = mem[t]
        /\ call' = [IdleCall EXCEPT !.at = "matching", !.taker = ptr]
        /\ outer' = IF Idle THEN outer ELSE Append(outer, call)
  BY AcceptFacts
<1>2. Owing(s)' = Owing(s)
  <2>1. Suspended' = InProgress
    BY <1>1, CallPushed
  <2>2. \A c \in Running' : Parties(c) = {}
    BY <1>1 DEF IdleCall, Running, Parties
  <2>3. Owing(s)' = {c \in Suspended' \cup Running' : s \in Parties(c)}
    BY OwingMeans
  <2> QED
    BY <2>1, <2>2, <2>3 DEF Owing
<1>3. CASE s = ptr
  <2>1. Owing(s) = {}
    <3> SUFFICES ASSUME NEW c \in InProgress, s \in Parties(c)
                 PROVE  FALSE
      BY DEF Owing
    <3>1. s \in Slots /\ mem[s] # NoOrder
      BY FrameFacts DEF Parties
    <3> QED
      BY <1>1, <1>3, <3>1, SlotFacts
  <2>2. /\ mem'[s].quantity = r.quantity /\ mem'[s].original = r.quantity
        /\ mem'[s].reported = 0
    BY <1>1, <1>3 DEF NewOrder
  <2> QED
    BY <1>2, <2>1, <2>2 DEF Balanced
<1>4. CASE s # ptr
  <2>1. s \in Slots /\ mem'[s] # NoOrder
    BY SlotFacts DEF Live
  <2>2. mem'[s] = mem[s] /\ s \in Live
    BY <1>1, <1>4, <2>1, SlotFacts
  <2> QED
    BY <1>2, <2>2, BalanceKept DEF FillsInv
<1> QED
  BY <1>3, <1>4

LEMMA ReportFills ==
  ASSUME NestedInv, NestedInv', FillsInv, ExecuteTrade, UNCHANGED outer,
         NEW s \in Live'
  PROVE  Balanced(s)'
<1>1. PICK ptr \in Slots, q \in Nat : ReportStep(ptr, q)
  BY CallsFacts, ReportEffect
<1>2. PICK tk : tk = call.taker
  OBVIOUS
<1>3. /\ Matching /\ ~Idle' /\ s \in Live
      /\ call'.at = "callback"
      /\ call'.taker = tk /\ call'.maker = ptr /\ call'.quantity = q
      /\ s \in Slots =>
           mem'[s] = IF s \in {ptr, tk} THEN [mem[s] EXCEPT !.reported = @ + q]
                     ELSE mem[s]
  BY <1>1, <1>2 DEF ReportStep, InCallback
<1>4. /\ mem[s] \in Order /\ s \in Slots
      /\ mem[s].quantity \in Nat /\ mem[s].reported \in Nat
      /\ mem[s].original \in Nat
  BY <1>3, OrderBalance
<1>5. /\ Suspended' = Suspended
      /\ Running' = {call'} /\ Parties(call') = {tk, ptr}
      /\ \A c \in Running : Parties(c) = {}
  BY <1>3 DEF Suspended, Running, Parties, Matching
<1>6. Owing(s)' = {c \in Suspended \cup {call'} : s \in Parties(c)}
  BY <1>5, OwingMeans
<1>7. Owing(s) = {c \in Suspended : s \in Parties(c)}
  BY <1>5, OwingMeans
<1>8. CASE s \in {ptr, tk}
  <2>1. Owing(s) = {} /\ Owing(s)' = {call'}
    BY <1>5, <1>6, <1>7, <1>8, NestedTradesApartNext DEF TradesApart
  <2>2. mem[s].original = mem[s].quantity + mem[s].reported
    BY <1>3, <2>1 DEF FillsInv, Balanced
  <2>3. /\ mem'[s].reported = mem[s].reported + q
        /\ mem'[s].quantity = mem[s].quantity
        /\ mem'[s].original = mem[s].original
    BY <1>3, <1>4, <1>8 DEF Order
  <2>4. mem'[s].original = mem'[s].quantity + mem'[s].reported - call'.quantity
    BY <1>3, <1>4, <2>2, <2>3
  <2> QED
    BY <2>1, <2>4 DEF Balanced
<1>9. CASE s \notin {ptr, tk}
  <2>1. Owing(s)' = Owing(s)
    BY <1>5, <1>6, <1>7, <1>9
  <2>2. mem'[s] = mem[s]
    BY <1>3, <1>4, <1>9
  <2> QED
    BY <1>3, <2>1, <2>2, BalanceKept DEF FillsInv
<1> QED
  BY <1>8, <1>9

LEMMA SettleFills ==
  ASSUME NestedInv, FillsInv, SettlePartial \/ SettleFilled, UNCHANGED outer,
         NEW s \in Live'
  PROVE  Balanced(s)'
<1>1. PICK tk, ptr, q : SettleStep(tk, ptr, q)
  BY CallsFacts, SettleEffect
<1>2. /\ call.at = "callback" /\ ~Idle /\ call'.at = "matching"
      /\ tk = call.taker /\ ptr = call.maker /\ q = call.quantity
      /\ q \in Nat /\ s \in Live
      /\ s \in Slots =>
           mem'[s] = IF s \in {ptr, tk} THEN [mem[s] EXCEPT !.quantity = @ - q]
                     ELSE mem[s]
  <2>1. call'.at = "matching"
    BY CallsFacts DEF SettlePartial, SettleFilled, NextTurn, TypeOK, Calls
  <2> QED
    BY <1>1, <2>1 DEF SettleStep, InCallback
<1>3. /\ mem[s] \in Order /\ s \in Slots
      /\ mem[s].quantity \in Nat /\ mem[s].reported \in Nat
      /\ mem[s].original \in Nat
  BY <1>2, OrderBalance
<1>4. /\ Suspended' = Suspended
      /\ Running = {call} /\ Parties(call) = {tk, ptr}
      /\ \A c \in Running' : Parties(c) = {}
  BY <1>2 DEF Suspended, Running, Parties
<1>5. Owing(s) = {c \in Suspended \cup {call} : s \in Parties(c)}
  BY <1>4, OwingMeans
<1>6. Owing(s)' = {c \in Suspended : s \in Parties(c)}
  BY <1>4, OwingMeans
<1>7. CASE s \in {ptr, tk}
  <2>1. Owing(s)' = {} /\ call \in Owing(s)
    BY <1>4, <1>5, <1>6, <1>7, NestedTradesApart DEF TradesApart
  <2>2. mem[s].original = mem[s].quantity + mem[s].reported - q
    BY <1>2, <2>1 DEF FillsInv, Balanced
  <2>3. /\ mem'[s].quantity = mem[s].quantity - q
        /\ mem'[s].reported = mem[s].reported
        /\ mem'[s].original = mem[s].original
    BY <1>2, <1>3, <1>7 DEF Order
  <2>4. mem'[s].original = mem'[s].quantity + mem'[s].reported
    BY <1>2, <1>3, <2>2, <2>3
  <2> QED
    BY <2>1, <2>4 DEF Balanced
<1>8. CASE s \notin {ptr, tk}
  <2>1. Owing(s)' = Owing(s)
    BY <1>4, <1>5, <1>6, <1>8
  <2>2. mem'[s] = mem[s]
    BY <1>2, <1>3, <1>8
  <2> QED
    BY <1>2, <2>1, <2>2, BalanceKept DEF FillsInv
<1> QED
  BY <1>7, <1>8

LEMMA CancelFills ==
  ASSUME NestedInv, FillsInv, NEW id \in OrderIDs, NestedCancel(id),
         NEW s \in Live'
  PROVE  Balanced(s)'
<1>1. UNCHANGED <<call, outer>>
  BY DEF NestedCancel, CancelOrder, CancelNotFound
<1>2. s \in Live /\ mem'[s] = mem[s]
  <2>1. CASE CancelNotFound(id)
    BY <2>1 DEF CancelNotFound, Live
  <2>2. CASE CancelOrder(id)
    <3>1. PICK ptr : CancelStep(id, ptr)
      BY <2>2, CallsFacts, CancelEffect
    <3> QED
      BY <3>1, SlotFacts DEF CancelStep
  <2> QED
    BY <2>1, <2>2 DEF NestedCancel
<1> QED
  BY <1>1, <1>2, SameCallsFills

LEMMA CApiStepFills ==
  ASSUME NestedInv, NestedInv', FillsInv, [CApiNext]_capiVars
  PROVE  FillsInv'
<1> SUFFICES ASSUME NEW s \in Live'
             PROVE  Balanced(s)'
  BY DEF FillsInv
<1>1. ASSUME UNCHANGED <<mem, call, outer>>
      PROVE  Balanced(s)'
  <2>1. s \in Live /\ mem'[s] = mem[s]
    BY <1>1 DEF Live
  <2> QED
    BY <1>1, <2>1, SameCallsFills
<1>2. CASE DestroyOrderBook
  BY <1>2, SlotFacts DEF DestroyOrderBook, Live
<1>3. ASSUME NEW r \in Requests, AddRefused(r)
      PROVE  Balanced(s)'
  BY <1>1, <1>3 DEF AddRefused, AddRejected, NestedAddRejected
<1>4. ASSUME NEW r \in Requests, AddBegins(r)
      PROVE  Balanced(s)'
  <2>1. PICK q : q = Converted(r)
    OBVIOUS
  <2>2. q.quantity \in Nat
    BY <2>1, ConvertedFacts
  <2>3. \/ AddAccepted(q) /\ UNCHANGED outer
        \/ NestedAddAccepted(q)
    BY <1>4, <2>1 DEF AddBegins
  <2> QED
    BY <2>2, <2>3, AcceptFills
<1>5. ASSUME NEW id \in OrderIDs, Cancel(id)
      PROVE  Balanced(s)'
  BY <1>5, CancelFills DEF Cancel
<1>6. CASE NestedRest \/ NestedThrow
  <2>1. Matching /\ Return /\ UNCHANGED mem
    BY <1>6 DEF NestedRest, NestedThrow, CannotTrade
  <2>2. s \in Live /\ mem'[s] = mem[s]
    BY <2>1 DEF Live
  <2> QED
    BY <2>1, <2>2, ReturnFills
<1>7. CASE NestedFilled
  <2>1. Matching /\ Return /\ FilledStep(call.taker)
    BY <1>7, CallsFacts, FilledEffect DEF NestedFilled
  <2>2. s \in Live /\ mem'[s] = mem[s]
    BY <2>1, SlotFacts DEF FilledStep
  <2> QED
    BY <2>1, <2>2, ReturnFills
<1>8. CASE Continue
  BY <1>6, <1>7, <1>8, ReportFills, SettleFills DEF Continue, NestedEngine
<1>9. CASE \/ CreateOrderBook \/ SetTradeCallback \/ UNCHANGED capiVars
           \/ AddToNull \/ CancelInNull
  BY <1>1, <1>9 DEF CreateOrderBook, SetTradeCallback, capiVars, nestedVars,
     AddToNull, CancelInNull, NullHandle
<1> QED
  BY <1>2, <1>3, <1>4, <1>5, <1>8, <1>9 DEF CApiNext

-----------------------------------------------------------------------------
LEMMA FillsOfOrder == NestedInv /\ FillsInv => NestedFillsAddUp
<1> SUFFICES ASSUME NestedInv, FillsInv, NEW s \in Live
             PROVE  mem[s].original = mem[s].quantity + mem[s].reported
                      - SumFunction([c \in {d \in Reported :
                                              s \in {d.taker, d.maker}} |->
                                       c.quantity])
  BY DEF NestedFillsAddUp
<1>1. {d \in Reported : s \in {d.taker, d.maker}} = Owing(s)
  BY DEF Reported, Owing, Parties
<1>2. PICK f : f = [c \in Owing(s) |-> c.quantity]
  OBVIOUS
<1>3. /\ mem[s].quantity \in Nat /\ mem[s].reported \in Nat
      /\ \A c \in Owing(s) : c.quantity \in Nat
  <2>1. \A c \in Owing(s) : c \in Calls
    BY CallsFacts DEF Owing
  <2> QED
    BY <2>1, OrderBalance, LimitsAssumption DEF Calls
<1>4. SumFunction(f) = SumFunctionOnSet(f, Owing(s))
  BY <1>2 DEF SumFunction
<1>5. CASE Owing(s) = {}
  <2>1. SumFunctionOnSet(f, {}) = 0
    BY SumEmpty
  <2>2. SumFunction(f) = 0
    BY <1>4, <1>5, <2>1
  <2>3. mem[s].original = mem[s].quantity + mem[s].reported - 0
    BY <1>3, <1>5 DEF FillsInv, Balanced
  <2> QED
    BY <1>1, <1>2, <2>2, <2>3
<1>6. CASE Owing(s) # {}
  <2>1. PICK c \in Owing(s) : TRUE
    BY <1>6
  <2>2. Owing(s) = {c}
    BY <2>1, NestedTradesApart DEF TradesApart, Owing
  <2>3. f[c] = c.quantity /\ \A x \in {c} : f[x] \in Nat
    BY <1>2, <1>3, <2>1
  <2>4. SumFunctionOnSet(f, {c}) = f[c] + SumFunctionOnSet(f, {c} \ {c})
    BY <2>3, FS_Singleton, SumRemove
  <2>5. {c} \ {c} = {}
    OBVIOUS
  <2>6. SumFunctionOnSet(f, {}) = 0
    BY SumEmpty
  <2>7. SumFunction(f) = c.quantity
    BY <1>3, <1>4, <2>1, <2>2, <2>3, <2>4, <2>5, <2>6
  <2> QED
    BY <1>1, <1>2, <1>3, <2>1, <2>7 DEF FillsInv, Balanced
<1> QED
  BY <1>5, <1>6

\* However calls nest, what was reported for an order is what it lost and what
\* the one interrupted call that trades with it is still to take from it
\* (OrderBook.cpp:152-171).
THEOREM NestedFillsAlwaysAddUp == CApiSpec => []NestedFillsAddUp
<1>1. CApiInit => FillsInv
  BY SlotFacts DEF CApiInit, NestedInit, Init, FillsInv, Live
<1>2. NestedInv /\ NestedInv' /\ FillsInv /\ [CApiNext]_capiVars => FillsInv'
  BY CApiStepFills
<1>3. NestedInv /\ FillsInv => NestedFillsAddUp
  BY FillsOfOrder
<1> QED
  BY <1>1, <1>2, <1>3, NestedInvariance, PTL DEF CApiSpec

-----------------------------------------------------------------------------
(***************************************************************************)
(* Prices and doubles.  TwoTo is a recursive function; that there is one   *)
(* as its recursion says is shown by least counterexamples.                *)
(***************************************************************************)
PowerStep(g, k) == IF k = 0 THEN 1 ELSE 2 * g[k - 1]

PowersOn(g, S) == g = [k \in S |-> PowerStep(g, k)]

\* There is one on the numbers up to each n.
LEMMA PowersUpTo ==
  ASSUME NEW n \in Nat
  PROVE  \E g : PowersOn(g, 0 .. n)
<1> DEFINE Bad == {k \in Nat : \A g : ~PowersOn(g, 0 .. k)}
<1>1. SUFFICES ASSUME Bad # {}
               PROVE  FALSE
  OBVIOUS
<1>2. PICK k \in Bad : \A j \in Bad : k <= j
  <2>1. Bad \in SUBSET Nat
    OBVIOUS
  <2> QED
    BY <1>1, <2>1, Least
<1>3. CASE k = 0
  <2> DEFINE g == [j \in 0 .. 0 |-> 1]
  <2>1. PowersOn(g, 0 .. 0)
    BY DEF PowersOn, PowerStep
  <2> QED
    BY <1>2, <1>3, <2>1
<1>4. CASE k # 0
  <2>1. k \in Nat /\ k - 1 \in Nat /\ k - 1 \notin Bad
    BY <1>2, <1>4
  <2>2. PICK g : PowersOn(g, 0 .. k - 1)
    BY <2>1
  <2> DEFINE h == [j \in 0 .. k |-> PowerStep(g, j)]
  <2>3. ASSUME NEW j \in 0 .. k
        PROVE  PowerStep(g, j) = PowerStep(h, j)
    <3>1. CASE j = 0
      BY <3>1 DEF PowerStep
    <3>2. CASE j # 0
      <4>1. j - 1 \in 0 .. k - 1 /\ j - 1 \in 0 .. k
        BY <2>1, <3>2
      <4>2. g[j - 1] = PowerStep(g, j - 1)
        BY <2>2, <4>1 DEF PowersOn
      <4>3. h[j - 1] = PowerStep(g, j - 1)
        BY <4>1
      <4> QED
        BY <3>2, <4>2, <4>3 DEF PowerStep
    <3> QED
      BY <3>1, <3>2
  <2>4. h = [j \in 0 .. k |-> PowerStep(h, j)]
    BY <2>3
  <2>5. PowersOn(h, 0 .. k)
    BY <2>4 DEF PowersOn
  <2> QED
    BY <1>2, <2>5
<1> QED
  BY <1>3, <1>4

\* Two such functions agree where both are defined.
LEMMA PowersAgree ==
  ASSUME NEW m \in Nat, NEW n \in Nat, NEW g, NEW h, NEW k \in Nat,
         PowersOn(g, 0 .. m), PowersOn(h, 0 .. n), k <= m, k <= n
  PROVE  g[k] = h[k]
<1> DEFINE Bad == {j \in Nat : j <= m /\ j <= n /\ g[j] # h[j]}
<1>1. SUFFICES ASSUME Bad # {}
               PROVE  FALSE
  OBVIOUS
<1>2. PICK j \in Bad : \A i \in Bad : j <= i
  <2>1. Bad \in SUBSET Nat
    OBVIOUS
  <2> QED
    BY <1>1, <2>1, Least
<1>3. /\ g[j] = IF j = 0 THEN 1 ELSE 2 * g[j - 1]
      /\ h[j] = IF j = 0 THEN 1 ELSE 2 * h[j - 1]
  BY <1>2 DEF PowersOn, PowerStep
<1>4. j # 0
  BY <1>2, <1>3
<1>5. j - 1 \in Nat /\ j - 1 <= m /\ j - 1 <= n /\ ~(j <= j - 1)
  BY <1>2, <1>4
<1>6. g[j - 1] = h[j - 1]
  BY <1>2, <1>5
<1> QED
  BY <1>2, <1>3, <1>6

\* The powers of two are what their recursion says.
LEMMA TwoToRecursion ==
  /\ TwoTo[0] = 1
  /\ \A k \in Nat : TwoTo[k + 1] = 2 * TwoTo[k]
<1> DEFINE Of(k) == CHOOSE g : PowersOn(g, 0 .. k)
           t == [k \in Nat |-> Of(k)[k]]
<1>1. \A k \in Nat : PowersOn(Of(k), 0 .. k)
  BY PowersUpTo
<1>2. ASSUME NEW k \in Nat
      PROVE  t[k] = PowerStep(t, k)
  <2>1. PICK g : g = Of(k) /\ PowersOn(g, 0 .. k)
    BY <1>1
  <2>2. k \in 0 .. k /\ g[k] = PowerStep(g, k)
    BY <2>1 DEF PowersOn
  <2>3. CASE k = 0
    BY <2>1, <2>2, <2>3 DEF PowerStep
  <2>4. CASE k # 0
    <3>1. k - 1 \in Nat /\ k - 1 <= k /\ k - 1 <= k - 1
      BY <2>4
    <3>2. PICK h : h = Of(k - 1) /\ PowersOn(h, 0 .. k - 1)
      BY <1>1, <3>1
    <3>3. g[k - 1] = h[k - 1]
      BY <2>1, <3>1, <3>2, PowersAgree
    <3> QED
      BY <2>1, <2>2, <2>4, <3>1, <3>2, <3>3 DEF PowerStep
  <2> QED
    BY <2>3, <2>4
<1>3. PowersOn(t, Nat)
  <2>1. t = [k \in Nat |-> PowerStep(t, k)]
    BY <1>2
  <2> QED
    BY <2>1 DEF PowersOn
<1>4. TwoTo = CHOOSE g : PowersOn(g, Nat)
  BY DEF TwoTo, PowersOn, PowerStep
<1>5. PowersOn(TwoTo, Nat)
  BY <1>3, <1>4
<1>6. \A k \in Nat : TwoTo[k] = IF k = 0 THEN 1 ELSE 2 * TwoTo[k - 1]
  BY <1>5 DEF PowersOn, PowerStep
<1>7. \A k \in Nat : k + 1 \in Nat /\ k + 1 # 0 /\ (k + 1) - 1 = k
  OBVIOUS
<1> QED
  BY <1>6, <1>7

\* They are positive numbers.
LEMMA TwoToPositive == \A k \in Nat : TwoTo[k] \in Nat \ {0}
<1> DEFINE Bad == {k \in Nat : TwoTo[k] \notin Nat \ {0}}
<1>1. SUFFICES ASSUME Bad # {}
               PROVE  FALSE
  OBVIOUS
<1>2. PICK k \in Bad : \A j \in Bad : k <= j
  <2>1. Bad \in SUBSET Nat
    OBVIOUS
  <2> QED
    BY <1>1, <2>1, Least
<1>3. k # 0
  BY <1>2, TwoToRecursion
<1>4. k - 1 \in Nat /\ ~(k <= k - 1) /\ (k - 1) + 1 = k
  BY <1>2, <1>3
<1>5. TwoTo[k - 1] \in Nat \ {0}
  BY <1>2, <1>4
<1>6. TwoTo[k] = 2 * TwoTo[k - 1]
  BY <1>4, TwoToRecursion
<1>7. TwoTo[k] \in Nat \ {0}
  BY <1>5, <1>6
<1> QED
  BY <1>2, <1>7

\* How close a double is to the quotient it stands for: within half the
\* spacing of doubles there, and the spacing is the least there is, or small
\* next to the quotient.
LEMMA DoubleIsNear ==
  ASSUME NEW n \in Nat, NEW d \in Nat \ {0},
         n * Grid < d * Grid * Significands
  PROVE  /\ Double(n, d) \in Nat
         /\ \E u \in Nat \ {0} :
              /\ 2 * ((d * Double(n, d)) - (n * Grid)) <= d * u
              /\ 2 * ((n * Grid) - (d * Double(n, d))) <= d * u
              /\ u = 1 \/ d * u * Significands <= 2 * (n * Grid)
<1> DEFINE Wide == {u \in Units : n * Grid < d * u * Significands}
<1>1. GRID_BITS \in Nat /\ SIGNIFICAND \in Nat
  BY CApiAssumption
<1>2. Grid \in Nat \ {0} /\ Significands \in Nat \ {0} /\ Grid \in Units
  <2>1. GRID_BITS \in 0 .. GRID_BITS
    BY <1>1
  <2> QED
    BY <1>1, <2>1, TwoToPositive DEF Grid, Significands, Units
<1>3. Units \subseteq Nat \ {0}
  <2>1. \A k \in 0 .. GRID_BITS : k \in Nat
    BY <1>1
  <2> QED
    BY <2>1, TwoToPositive DEF Units
<1>4. Grid \in Wide
  BY <1>2
<1>5. PICK u \in Wide : u = Min(Wide) /\ \A v \in Wide : u <= v
  <2>1. Wide \in SUBSET Nat /\ Wide # {}
    BY <1>3, <1>4
  <2>2. \E x \in Wide : \A y \in Wide : x <= y
    BY <2>1, Least
  <2> QED
    BY <2>2 DEF Min
<1>6. u \in Nat \ {0} /\ u \in Units /\ n * Grid < d * u * Significands
  BY <1>3, <1>5
<1> DEFINE m == n * Grid
           q == d * u
           rest == 2 * (m % q)
           up   == rest > q \/ (rest = q /\ (m \div q) % 2 = 1)
           w    == IF up THEN (m \div q) + 1 ELSE m \div q
<1>7. Double(n, d) = u * w
  BY <1>5, Zenon DEF Double
<1>8. m \in Nat /\ q \in Nat \ {0}
  BY <1>2, <1>6, SMTT(30)
<1>9. w \in Nat /\ 2 * ((q * w) - m) <= q /\ 2 * (m - (q * w)) <= q
  <2> HIDE DEF m, q
  <2> QED
    BY <1>8, NearestMultiple
<1>10. Double(n, d) \in Nat /\ q * w = d * Double(n, d)
  <2>1. PICK v \in Nat : v = w
    BY <1>9
  <2>2. u * v \in Nat /\ (d * u) * v = d * (u * v)
    BY <1>6, <2>1, SMTT(30)
  <2> QED
    BY <1>7, <2>1, <2>2
<1>11. u = 1 \/ d * u * Significands <= 2 * (n * Grid)
  <2>1. PICK k \in 0 .. GRID_BITS : u = TwoTo[k]
    BY <1>6 DEF Units
  <2>2. CASE k = 0
    BY <2>1, <2>2, TwoToRecursion
  <2>3. CASE k # 0
    <3>1. k - 1 \in 0 .. GRID_BITS /\ k - 1 \in Nat /\ (k - 1) + 1 = k
      BY <1>1, <2>1, <2>3
    <3>2. PICK v \in Nat \ {0} : v = TwoTo[k - 1]
      BY <3>1, TwoToPositive
    <3>3. u = 2 * v /\ v \in Units
      BY <2>1, <3>1, <3>2, TwoToRecursion DEF Units
    <3>4. v \notin Wide
      <4>1. ~(u <= v)
        BY <3>2, <3>3
      <4> QED
        BY <1>5, <4>1
    <3>5. ~(n * Grid < d * v * Significands)
      BY <3>3, <3>4
    <3>6. PICK x \in Nat : x = d * v * Significands
      BY <1>2, <3>2, SMTT(30)
    <3>7. d * (2 * v) * Significands = 2 * (d * v * Significands)
      BY <1>2, <3>2, SMTT(30)
    <3>8. x <= m
      BY <1>8, <3>5, <3>6
    <3>9. 2 * x <= 2 * m
      <4> HIDE DEF m
      <4> QED
        BY <1>8, <3>8
    <3> QED
      BY <3>3, <3>6, <3>7, <3>9
  <2> QED
    BY <2>2, <2>3
<1> QED
  BY <1>6, <1>9, <1>10, <1>11

\* What doubles must be able to hold next to prices and their scale.  Real ones
\* have 2^53 significands and 2^1074 of them in one; prices are at most 10^10
\* ticks of 10^-4.  A product is below 2^53 if the price is below 9 * 10^11;
\* the model has no larger doubles.
DoublesSuffice ==
  /\ MIN_PRICE > 0
  /\ 16 * MAX_PRICE <= Significands
  /\ 4 * PRICE_SCALE_FACTOR <= Grid
  /\ \A r \in Requests : r.price * PRICE_SCALE_FACTOR < Grid * Significands

LEMMA DoubleConstants ==
  /\ Grid \in Nat \ {0} /\ Significands \in Nat \ {0}
  /\ PRICE_SCALE_FACTOR \in Nat \ {0}
BY CApiAssumption, TwoToPositive DEF Grid, Significands

\* A price as a double: within an eighth of a tick.
LEMMA ShownIsNear ==
  ASSUME DoublesSuffice, NEW p \in 1 .. MAX_PRICE
  PROVE  /\ PriceToDouble(p) \in Nat \ {0}
         /\ 8 * ((PRICE_SCALE_FACTOR * PriceToDouble(p)) - (p * Grid)) <= Grid
         /\ 8 * ((p * Grid) - (PRICE_SCALE_FACTOR * PriceToDouble(p))) <= Grid
<1>1. PICK G \in Nat \ {0}, P \in Nat \ {0}, S \in Nat \ {0} :
        G = Grid /\ P = Significands /\ S = PRICE_SCALE_FACTOR
  BY DoubleConstants
<1>2. p \in Nat /\ p >= 1 /\ 16 * p <= P /\ 4 * S <= G
  BY <1>1, LimitsAssumption DEF DoublesSuffice
<1>3. p * G < S * G * P
  <2>1. p < P /\ p * G < P * G
    BY <1>2, SMTT(30)
  <2>2. P * G <= S * G * P
    BY SMTT(30)
  <2>3. p * G \in Nat /\ P * G \in Nat /\ S * G * P \in Nat
    BY <1>2, SMTT(30)
  <2> QED
    BY <2>1, <2>2, <2>3
<1>4. PICK A \in Nat, u \in Nat \ {0} :
        /\ A = PriceToDouble(p)
        /\ 2 * ((S * A) - (p * G)) <= S * u
        /\ 2 * ((p * G) - (S * A)) <= S * u
        /\ u = 1 \/ S * u * P <= 2 * (p * G)
  BY <1>1, <1>2, <1>3, DoubleIsNear DEF PriceToDouble
<1>5. PICK M \in Nat, B \in Nat, C \in Nat : M = S * u /\ B = p * G /\ C = S * A
  BY <1>2, SMTT(30)
<1>6. 4 * M <= G
  <2>1. CASE u = 1
    BY <1>2, <1>5, <2>1
  <2>2. CASE S * u * P <= 2 * (p * G)
    <3>1. M * P <= 2 * B
      BY <1>5, <2>2
    <3>2. 16 * B <= P * G
      <4>1. (16 * p) * G <= P * G
        BY <1>2, SMTT(30)
      <4>2. (16 * p) * G = 16 * (p * G)
        BY <1>2, SMTT(30)
      <4> QED
        BY <1>5, <4>1, <4>2
    <3>3. (8 * M) * P <= G * P
      <4>1. (8 * M) * P = 8 * (M * P) /\ P * G = G * P /\ P * G \in Nat
            /\ M * P \in Nat
        BY SMTT(30)
      <4> QED
        BY <3>1, <3>2, <4>1
    <3>4. 8 * M <= G
      BY <3>3, FactorCancels
    <3> QED
      BY <3>4
  <2> QED
    BY <1>4, <2>1, <2>2
<1>7. 2 * (C - B) <= M /\ 2 * (B - C) <= M
  BY <1>4, <1>5
<1>8. 8 * (C - B) <= G /\ 8 * (B - C) <= G
  BY <1>6, <1>7
<1>9. A # 0
  <2>1. ASSUME A = 0
        PROVE  FALSE
    <3>1. C = 0
      BY <1>5, <2>1
    <3>2. B >= G
      BY <1>2, <1>5, SMTT(30)
    <3> QED
      BY <1>8, <3>1, <3>2
  <2> QED
    BY <2>1
<1> QED
  BY <1>1, <1>4, <1>5, <1>8, <1>9

\* A product as a double: within half the spacing of doubles there.
LEMMA ProductIsNear ==
  ASSUME NEW m \in Nat, m < Grid * Significands
  PROVE  /\ Double(m, Grid) \in Nat
         /\ \E u \in Nat \ {0} :
              /\ 2 * (Double(m, Grid) - m) <= u
              /\ 2 * (m - Double(m, Grid)) <= u
              /\ u = 1 \/ u * Significands <= 2 * m
<1>1. PICK G \in Nat \ {0}, P \in Nat \ {0} : G = Grid /\ P = Significands
  BY DoubleConstants
<1>2. m * G < G * G * P
  <2>1. m + 1 <= G * P /\ G * P \in Nat
    BY <1>1
  <2>2. (m + 1) * G <= (G * P) * G
    BY <2>1, SMTT(30)
  <2>3. (m + 1) * G = m * G + G /\ (G * P) * G = G * G * P
    BY SMTT(30)
  <2>4. m * G \in Nat /\ G * G * P \in Nat
    BY SMTT(30)
  <2> QED
    BY <2>2, <2>3, <2>4
<1>3. PICK C \in Nat, u \in Nat \ {0} :
        /\ C = Double(m, Grid)
        /\ 2 * ((G * C) - (m * G)) <= G * u
        /\ 2 * ((m * G) - (G * C)) <= G * u
        /\ u = 1 \/ G * u * P <= 2 * (m * G)
  BY <1>1, <1>2, DoubleIsNear
<1>4. /\ (2 * (C - m)) * G = 2 * ((G * C) - (m * G))
      /\ (2 * (m - C)) * G = 2 * ((m * G) - (G * C))
      /\ (u * P) * G = G * u * P /\ (2 * m) * G = 2 * (m * G)
      /\ u * G = G * u
  BY SMTT(30)
<1>5. 2 * (C - m) <= u /\ 2 * (m - C) <= u
  <2>1. (2 * (C - m)) * G <= u * G /\ (2 * (m - C)) * G <= u * G
    BY <1>3, <1>4
  <2>2. 2 * (C - m) \in Int /\ 2 * (m - C) \in Int
    OBVIOUS
  <2> QED
    BY <2>1, <2>2, FactorCancels
<1>6. u = 1 \/ u * P <= 2 * m
  <2>1. ASSUME u # 1
        PROVE  u * P <= 2 * m
    <3>1. (u * P) * G <= (2 * m) * G
      BY <1>3, <1>4, <2>1
    <3>2. u * P \in Int /\ 2 * m \in Int
      BY SMTT(30)
    <3> QED
      BY <3>1, <3>2, FactorCancels
  <2> QED
    BY <2>1
<1> QED
  BY <1>1, <1>3, <1>5, <1>6

\* A price that was shown is filed under the same number of ticks again.
LEMMA ShownIsFixed ==
  ASSUME DoublesSuffice, NEW p \in 1 .. MAX_PRICE
  PROVE  PriceToFixed(PriceToDouble(p)) = p
<1>1. PICK G \in Nat \ {0}, P \in Nat \ {0}, S \in Nat \ {0} :
        G = Grid /\ P = Significands /\ S = PRICE_SCALE_FACTOR
  BY DoubleConstants
<1>2. p \in Nat /\ p >= 1 /\ 16 * p <= P /\ 4 * S <= G
  BY <1>1, LimitsAssumption DEF DoublesSuffice
<1>3. PICK A \in Nat : /\ A = PriceToDouble(p)
                       /\ 8 * ((S * A) - (p * G)) <= G
                       /\ 8 * ((p * G) - (S * A)) <= G
  BY <1>1, ShownIsNear
<1>4. PICK m \in Nat, B \in Nat : /\ m = A * S /\ m = S * A /\ B = p * G
  BY <1>2, SMTT(30)
<1>5. 8 * (m - B) <= G /\ 8 * (B - m) <= G
  BY <1>3, <1>4
<1>6. 16 * B <= G * P /\ G * P \in Nat /\ G * P >= 16 * G
  <2>1. (16 * p) * G <= P * G /\ (16 * p) * G = 16 * (p * G) /\ P * G = G * P
    BY <1>2, SMTT(30)
  <2>2. 16 <= P
    BY <1>2
  <2>3. 16 * G <= G * P /\ G * P \in Nat
    BY <2>2, SMTT(30)
  <2> QED
    BY <1>4, <2>1, <2>3
<1>7. m < G * P
  BY <1>5, <1>6
<1>8. PICK C \in Nat, u \in Nat \ {0} :
        /\ C = Double(m, Grid)
        /\ 2 * (C - m) <= u /\ 2 * (m - C) <= u
        /\ u = 1 \/ u * P <= 2 * m
  BY <1>1, <1>7, ProductIsNear
<1>9. 4 * u <= G
  <2>1. CASE u = 1
    BY <1>2, <2>1
  <2>2. CASE u * P <= 2 * m
    <3>1. (4 * u) * P = 4 * (u * P) /\ u * P \in Nat
      BY SMTT(30)
    <3>2. (4 * u) * P <= G * P
      BY <1>5, <1>6, <2>2, <3>1
    <3>3. 4 * u \in Int /\ G \in Int
      OBVIOUS
    <3> QED
      BY <3>2, <3>3, FactorCancels
  <2> QED
    BY <1>8, <2>1, <2>2
<1>10. /\ 2 * G \in Nat \ {0} /\ 2 * C + G \in Nat
       /\ (2 * G) * p = 2 * B
  <2>1. (2 * G) * p = 2 * (p * G)
    BY SMTT(30)
  <2> QED
    BY <1>4, <2>1
<1>11. (2 * G) * p <= 2 * C + G /\ 2 * C + G < (2 * G) * p + 2 * G
  BY <1>5, <1>8, <1>9, <1>10
<1>12. (2 * C + G) \div (2 * G) = p
  BY <1>2, <1>10, <1>11, QuotientIs
<1> QED
  BY <1>1, <1>3, <1>4, <1>8, <1>12 DEF PriceToFixed

\* The price an order is filed under: within five eighths of a tick of the
\* double the client passed.
LEMMA FixedIsNear ==
  ASSUME DoublesSuffice, NEW x \in Nat, NEW p \in 1 .. MAX_PRICE,
         x * PRICE_SCALE_FACTOR < Grid * Significands, p = PriceToFixed(x)
  PROVE  /\ 8 * ((PRICE_SCALE_FACTOR * x) - (p * Grid)) <= 5 * Grid
         /\ 8 * ((p * Grid) - (PRICE_SCALE_FACTOR * x)) <= 5 * Grid
<1>1. PICK G \in Nat \ {0}, P \in Nat \ {0}, S \in Nat \ {0} :
        G = Grid /\ P = Significands /\ S = PRICE_SCALE_FACTOR
  BY DoubleConstants
<1>2. p \in Nat /\ p >= 1 /\ 16 * p <= P /\ 4 * S <= G
  BY <1>1, LimitsAssumption DEF DoublesSuffice
<1>3. PICK m \in Nat, B \in Nat : m = x * S /\ m = S * x /\ B = p * G
  BY <1>2, SMTT(30)
<1>4. PICK C \in Nat, u \in Nat \ {0} :
        /\ C = Double(m, Grid)
        /\ 2 * (C - m) <= u /\ 2 * (m - C) <= u
        /\ u = 1 \/ u * P <= 2 * m
  BY <1>1, <1>3, ProductIsNear
<1>5. 2 * (C - B) <= G /\ 2 * (B - C) <= G
  <2>1. p = (2 * C + G) \div (2 * G)
    BY <1>1, <1>3, <1>4 DEF PriceToFixed
  <2>2. 2 * C + G \in Nat /\ 2 * G \in Nat \ {0}
    OBVIOUS
  <2>3. PICK r \in Nat : r < 2 * G /\ 2 * C + G = (2 * G) * p + r
    <3>1. /\ (2 * C + G) % (2 * G) \in 0 .. (2 * G) - 1
          /\ 2 * C + G = (2 * G) * ((2 * C + G) \div (2 * G))
                           + ((2 * C + G) % (2 * G))
      BY <2>2, Division
    <3> QED
      BY <2>1, <3>1
  <2>4. (2 * G) * p = 2 * (p * G)
    BY SMTT(30)
  <2> QED
    BY <1>3, <2>3, <2>4
<1>6. 4 * u <= G
  <2>1. CASE u = 1
    BY <1>2, <2>1
  <2>2. CASE u * P <= 2 * m
    <3>1. u * (P - 1) = u * P - u /\ u * P \in Nat
      BY SMTT(30)
    <3>2. u * (P - 1) <= 2 * B + G
      BY <1>4, <1>5, <2>2, <3>1
    <3>3. 16 * p + 8 <= 2 * (P - 1)
      BY <1>2
    <3>4. (16 * p + 8) * G <= (2 * (P - 1)) * G
      BY <3>3, SMTT(30)
    <3>5. /\ (16 * p + 8) * G = 16 * (p * G) + 8 * G
          /\ (2 * (P - 1)) * G = 2 * (G * (P - 1)) /\ G * (P - 1) \in Int
      BY SMTT(30)
    <3>6. (4 * u) * (P - 1) = 4 * (u * (P - 1)) /\ u * (P - 1) \in Int
      BY SMTT(30)
    <3>7. (4 * u) * (P - 1) <= G * (P - 1)
      BY <1>3, <3>2, <3>4, <3>5, <3>6
    <3>8. P - 1 \in Nat \ {0} /\ 4 * u \in Int /\ G \in Int
      BY <1>2
    <3> QED
      BY <3>7, <3>8, FactorCancels
  <2> QED
    BY <1>4, <2>1, <2>2
<1>7. 8 * (m - B) <= 5 * G /\ 8 * (B - m) <= 5 * G
  BY <1>4, <1>5, <1>6
<1> QED
  BY <1>1, <1>3, <1>7

\* No price is shown as nothing.
LEMMA NothingShown == PriceToDouble(0) = 0 /\ PriceToFixed(0) = 0
<1>1. PICK G \in Nat \ {0}, P \in Nat \ {0}, S \in Nat \ {0} :
        G = Grid /\ P = Significands /\ S = PRICE_SCALE_FACTOR
  BY DoubleConstants
<1>2. 0 * G < S * G * P /\ 0 < G * P /\ 0 * S = 0
  BY SMTT(30)
<1>3. PriceToDouble(0) = 0
  <2>1. PICK A \in Nat, u \in Nat \ {0} :
          /\ A = PriceToDouble(0)
          /\ 2 * ((S * A) - (0 * G)) <= S * u
          /\ u = 1 \/ S * u * P <= 2 * (0 * G)
    BY <1>1, <1>2, DoubleIsNear DEF PriceToDouble
  <2>2. S * u * P > 0 /\ 0 * G = 0 /\ S * u \in Nat /\ S * u * P \in Nat
    BY SMTT(30)
  <2>3. u = 1
    BY <2>1, <2>2
  <2>4. ~(A >= 1)
    <3>1. ASSUME A >= 1
          PROVE  FALSE
      <4>1. S * A >= S /\ S * A \in Nat
        BY <3>1, SMTT(30)
      <4> QED
        BY <2>1, <2>2, <2>3, <4>1
    <3> QED
      BY <3>1
  <2> QED
    BY <2>1, <2>4
<1>4. PriceToFixed(0) = 0
  <2>1. PICK C \in Nat, u \in Nat \ {0} :
          /\ C = Double(0, Grid)
          /\ 2 * (C - 0) <= u
          /\ u = 1 \/ u * P <= 2 * 0
    BY <1>1, <1>2, ProductIsNear
  <2>2. u * P > 0 /\ u * P \in Nat
    BY SMTT(30)
  <2>3. C = 0
    BY <2>1, <2>2
  <2>4. G < 2 * G /\ 2 * C + G = G /\ (2 * G) * 0 = 0 /\ 2 * G \in Nat \ {0}
    BY <2>3
  <2>5. G \div (2 * G) = 0
    BY <2>4, QuotientIs
  <2> QED
    BY <1>1, <1>2, <2>1, <2>4, <2>5 DEF PriceToFixed
<1> QED
  BY <1>3, <1>4

-----------------------------------------------------------------------------
(***************************************************************************)
(* What an order was asked for, and what clients are shown.                *)
(***************************************************************************)
\* Every order in the pool is filed under the price its client passed.
PricesInv ==
  /\ limit \in [Slots -> Nat]
  /\ \A s \in Live : /\ limit[s] * PRICE_SCALE_FACTOR < Grid * Significands
                     /\ mem[s].price = PriceToFixed(limit[s])

\* Without a book nothing rests and nothing runs.
HandleInv == handle = "null" => Idle /\ \A side \in Sides : Levels(side) = {}

\* An order keeps its price as long as it lives: a step of the engine.
LEMMA PriceKept ==
  ASSUME NestedInv, Continue \/ \E id \in OrderIDs : Cancel(id),
         NEW s \in Live'
  PROVE  s \in Live /\ mem'[s].price = mem[s].price
<1>1. StepInv /\ TypeOK
  BY CallsFacts
<1>2. ASSUME UNCHANGED mem
      PROVE  s \in Live /\ mem'[s].price = mem[s].price
  BY <1>2 DEF Live
<1>3. CASE ExecuteTrade /\ UNCHANGED outer
  <2>1. PICK ptr \in Slots, q \in Nat : ReportStep(ptr, q)
    BY <1>1, <1>3, ReportEffect
  <2>2. s \in Live
    BY <2>1 DEF ReportStep
  <2>3. mem[s] \in Order /\ s \in Slots
    BY <1>1, <2>2, LiveFacts
  <2>4. mem'[s] = mem[s] \/ mem'[s] = [mem[s] EXCEPT !.reported = @ + q]
    BY <2>1, <2>3 DEF ReportStep
  <2> QED
    BY <2>2, <2>3, <2>4 DEF Order
<1>4. CASE (SettlePartial \/ SettleFilled) /\ UNCHANGED outer
  <2>1. PICK tk, ptr, q : SettleStep(tk, ptr, q)
    BY <1>1, <1>4, SettleEffect
  <2>2. /\ s \in Live
        /\ s \in Slots =>
             mem'[s] = IF s \in {ptr, tk} THEN [mem[s] EXCEPT !.quantity = @ - q]
                       ELSE mem[s]
    BY <2>1 DEF SettleStep
  <2>3. mem[s] \in Order /\ s \in Slots
    BY <1>1, <2>2, LiveFacts
  <2> QED
    BY <2>2, <2>3 DEF Order
<1>5. CASE NestedFilled
  <2>1. FilledStep(call.taker)
    BY <1>1, <1>5, FilledEffect DEF NestedFilled
  <2> QED
    BY <2>1, SlotFacts DEF FilledStep
<1>6. CASE NestedRest \/ NestedThrow
  BY <1>2, <1>6 DEF NestedRest, NestedThrow
<1>7. CASE Continue
  BY <1>3, <1>4, <1>5, <1>6, <1>7 DEF Continue, NestedEngine
<1>8. ASSUME NEW id \in OrderIDs, Cancel(id)
      PROVE  s \in Live /\ mem'[s].price = mem[s].price
  <2>1. CASE CancelNotFound(id)
    BY <1>2, <2>1 DEF CancelNotFound
  <2>2. CASE CancelOrder(id)
    <3>1. PICK ptr : CancelStep(id, ptr)
      BY <1>1, <2>2, CancelEffect
    <3> QED
      BY <3>1, SlotFacts DEF CancelStep
  <2> QED
    BY <1>8, <2>1, <2>2 DEF Cancel, NestedCancel
<1> QED
  BY <1>7, <1>8

LEMMA CApiStepPrices ==
  ASSUME DoublesSuffice, NestedInv, PricesInv, [CApiNext]_capiVars
  PROVE  PricesInv'
<1>1. TypeOK /\ limit \in [Slots -> Nat]
  BY CallsFacts DEF PricesInv
<1>2. ASSUME UNCHANGED limit,
             \A s \in Live' : s \in Live /\ mem'[s].price = mem[s].price
      PROVE  PricesInv'
  <2>1. \A s \in Live' :
          /\ limit'[s] * PRICE_SCALE_FACTOR < Grid * Significands
          /\ mem'[s].price = PriceToFixed(limit'[s])
    BY <1>2 DEF PricesInv
  <2>2. limit' \in [Slots -> Nat]
    BY <1>1, <1>2
  <2>3. Slots' = Slots
    BY DEF Slots, Pool!Slots
  <2> QED
    BY <2>1, <2>2, <2>3 DEF PricesInv, PriceToFixed, Double, Grid, Significands
<1>3. ASSUME UNCHANGED <<mem, limit>>
      PROVE  PricesInv'
  BY <1>2, <1>3 DEF Live
<1>4. CASE DestroyOrderBook
  <2>1. Live' = {} /\ limit' \in [Slots -> Nat] /\ Slots' = Slots
    BY <1>4, SlotFacts DEF DestroyOrderBook, Live, Slots, Pool!Slots
  <2> QED
    BY <2>1 DEF PricesInv
<1>5. ASSUME NEW r \in Requests, AddRefused(r)
      PROVE  PricesInv'
  BY <1>3, <1>5 DEF AddRefused, AddRejected, NestedAddRejected
<1>6. ASSUME NEW r \in Requests, AddBegins(r)
      PROVE  PricesInv'
  <2>1. PICK o : o = Converted(r)
    OBVIOUS
  <2>2. r.price \in Nat /\ o.price = PriceToFixed(r.price)
    <3>1. r \in [id : OrderIDs, price : Nat, quantity : Nat, side : Int]
      BY CApiAssumption
    <3> QED
      BY <2>1, <3>1 DEF Converted
  <2>3. \/ AddAccepted(o) /\ UNCHANGED outer
        \/ NestedAddAccepted(o)
    BY <1>6, <2>1 DEF AddBegins
  <2>4. PICK ptr \in Slots :
          /\ ptr = Pool!Back(free_list)
          /\ mem'[ptr] = NewOrder(o)
          /\ \A t \in Slots \ {ptr} : mem'[t] = mem[t]
    BY <2>3, AcceptFacts
  <2>5. limit' = [limit EXCEPT ![ptr] = r.price]
    BY <1>6, <2>4 DEF AddBegins
  <2>6. limit' \in [Slots -> Nat]
    BY <1>1, <2>2, <2>5
  <2>7. ASSUME NEW s \in Live'
        PROVE  /\ limit'[s] * PRICE_SCALE_FACTOR < Grid * Significands
               /\ mem'[s].price = PriceToFixed(limit'[s])
    <3>1. s \in Slots /\ mem'[s] # NoOrder
      BY SlotFacts DEF Live
    <3>2. CASE s = ptr
      <4>1. limit'[s] = r.price /\ mem'[s].price = o.price
        BY <1>1, <2>4, <2>5, <3>2 DEF NewOrder
      <4> QED
        BY <2>2, <4>1 DEF DoublesSuffice
    <3>3. CASE s # ptr
      <4>1. limit'[s] = limit[s] /\ mem'[s] = mem[s] /\ s \in Live
        BY <1>1, <2>4, <2>5, <3>1, <3>3, SlotFacts
      <4> QED
        BY <4>1 DEF PricesInv
    <3> QED
      BY <3>2, <3>3
  <2>8. Slots' = Slots
    BY DEF Slots, Pool!Slots
  <2> QED
    BY <2>6, <2>7, <2>8
       DEF PricesInv, PriceToFixed, Double, Grid, Significands
<1>7. ASSUME Continue \/ \E id \in OrderIDs : Cancel(id)
      PROVE  PricesInv'
  <2>1. UNCHANGED limit
    BY <1>7 DEF Continue, Cancel
  <2> QED
    BY <1>2, <1>7, <2>1, PriceKept
<1>8. CASE \/ CreateOrderBook \/ SetTradeCallback \/ UNCHANGED capiVars
           \/ AddToNull \/ CancelInNull
  BY <1>3, <1>8 DEF CreateOrderBook, SetTradeCallback, capiVars, nestedVars,
     AddToNull, CancelInNull, NullHandle
<1> QED
  BY <1>4, <1>5, <1>6, <1>7, <1>8 DEF CApiNext

LEMMA PricesInvariance ==
  ASSUME DoublesSuffice
  PROVE  CApiSpec => []PricesInv
<1>1. CApiInit => PricesInv
  BY SlotFacts DEF CApiInit, NestedInit, Init, PricesInv
<1>2. NestedInv /\ PricesInv /\ [CApiNext]_capiVars => PricesInv'
  BY CApiStepPrices
<1> QED
  BY <1>1, <1>2, NestedInvariance, PTL DEF CApiSpec

LEMMA TradesWithinLimits ==
  ASSUME DoublesSuffice, NestedInv, PricesInv
  PROVE  LimitsHonoured
<1> SUFFICES ASSUME InCallback
             PROVE  LimitsHonoured
  BY DEF LimitsHonoured
<1>1. PICK tk, mk, p : tk = call.taker /\ mk = call.maker /\ p = Maker.price
  OBVIOUS
<1>2. /\ tk \in Live /\ mk \in Live
      /\ mem[mk].price = p /\ p \in 1 .. MAX_PRICE
      /\ mem[tk].price \in 1 .. MAX_PRICE
      /\ Taker.side \in Sides
      /\ Crosses(Taker.side, mem[tk].price, p)
  <2>1. StepInv /\ TypeOK
    BY CallsFacts
  <2>2. /\ tk \in Slots /\ mem[tk] # NoOrder /\ Taker.side \in Sides
        /\ mk \in Slots /\ mem[mk] # NoOrder
        /\ p = mem[mk].price
        /\ Crosses(Taker.side, mem[tk].price, p)
    BY <1>1, <2>1, CallbackFacts, TakerFacts DEF Taker, Maker
  <2>3. mem[tk].price \in Prices /\ p \in Prices
    BY <2>1, <2>2, OrderFacts
  <2> QED
    BY SMTT(20), <2>2, <2>3, SlotFacts, LimitsAssumption DEF Prices, DoublesSuffice
<1>3. PICK G \in Nat \ {0}, S \in Nat \ {0} : G = Grid /\ S = PRICE_SCALE_FACTOR
  BY DoubleConstants
<1>4. PICK x \in Nat, y \in Nat, pt \in 1 .. MAX_PRICE, z \in Nat :
        /\ x = limit[tk] /\ y = limit[mk] /\ pt = mem[tk].price
        /\ z = PriceToDouble(p)
  BY <1>2, ShownIsNear, SlotFacts DEF PricesInv
<1>5. 8 * ((S * x) - (pt * G)) <= 5 * G /\ 8 * ((pt * G) - (S * x)) <= 5 * G
  <2>1. x * PRICE_SCALE_FACTOR < Grid * Significands /\ pt = PriceToFixed(x)
    BY <1>2, <1>4 DEF PricesInv
  <2> QED
    BY <1>3, <2>1, FixedIsNear
<1>6. 8 * ((S * y) - (p * G)) <= 5 * G /\ 8 * ((p * G) - (S * y)) <= 5 * G
  <2>1. y * PRICE_SCALE_FACTOR < Grid * Significands /\ p = PriceToFixed(y)
    BY <1>2, <1>4 DEF PricesInv
  <2> QED
    BY <1>2, <1>3, <2>1, FixedIsNear
<1>7. 8 * ((S * z) - (p * G)) <= G /\ 8 * ((p * G) - (S * z)) <= G
  BY <1>2, <1>3, <1>4, ShownIsNear
<1>8. PICK a \in Nat, b \in Nat, c \in Nat, d \in Nat, e \in Nat :
        a = S * x /\ b = S * y /\ c = S * z /\ d = p * G /\ e = pt * G
  <2>1. S * x \in Nat /\ S * y \in Nat /\ S * z \in Nat
    BY SMTT(30)
  <2>2. p \in Nat /\ pt \in Nat
    BY <1>2, <1>4, LimitsAssumption
  <2>3. p * G \in Nat /\ pt * G \in Nat
    BY <2>2, SMTT(30)
  <2> QED
    BY <2>1, <2>3
<1>9. /\ 4 * S * (z - x) = 4 * c - 4 * a /\ 4 * S * (x - z) = 4 * a - 4 * c
      /\ 4 * S * (z - y) = 4 * c - 4 * b /\ 4 * S * (y - z) = 4 * b - 4 * c
  <2>1. /\ 4 * S * (z - x) = 4 * (S * z) - 4 * (S * x)
        /\ 4 * S * (x - z) = 4 * (S * x) - 4 * (S * z)
        /\ 4 * S * (z - y) = 4 * (S * z) - 4 * (S * y)
        /\ 4 * S * (y - z) = 4 * (S * y) - 4 * (S * z)
    BY SMTT(30)
  <2> QED
    BY <1>8, <2>1
<1>10. 4 * b - 4 * c <= 3 * G /\ 4 * c - 4 * b <= 3 * G
  BY <1>6, <1>7, <1>8
<1>11. p \in Nat /\ pt \in Nat
  BY <1>2, <1>4, LimitsAssumption
<1>12. CASE Taker.side = "BUY"
  <2>1. p <= pt
    BY <1>2, <1>4, <1>12 DEF Crosses
  <2>2. d <= e
    <3>1. p * G <= pt * G
      BY <1>11, <2>1, SMTT(30)
    <3> QED
      BY <1>8, <3>1
  <2>3. 4 * c - 4 * a <= 3 * G
    BY <1>5, <1>7, <1>8, <2>2
  <2>4. ~(4 * S * (z - x) > 3 * G) /\ ~(4 * S * (y - z) > 3 * G)
    BY <1>9, <1>10, <2>3
  <2> QED
    BY <1>1, <1>3, <1>4, <1>12, <2>4 DEF LimitsHonoured, CallbackPrice
<1>13. CASE Taker.side # "BUY"
  <2>1. p >= pt
    BY <1>2, <1>4, <1>13 DEF Crosses, Sides
  <2>2. d >= e
    <3>1. p * G >= pt * G
      BY <1>11, <2>1, SMTT(30)
    <3> QED
      BY <1>8, <3>1
  <2>3. 4 * a - 4 * c <= 3 * G
    BY <1>5, <1>7, <1>8, <2>2
  <2>4. ~(4 * S * (z - y) > 3 * G) /\ ~(4 * S * (x - z) > 3 * G)
    BY <1>9, <1>10, <2>3
  <2> QED
    BY <1>1, <1>3, <1>4, <1>13, <2>4 DEF LimitsHonoured, CallbackPrice
<1> QED
  BY <1>12, <1>13

\* Nobody trades more than three quarters of a tick past the price they
\* passed, when doubles are precise enough for the prices: half a tick is
\* what lround may move a price by, an eighth at most what the product
\* loses, and an eighth what the price shown does (CAPI.cpp:86-91,
\* Common.h:91-97).
THEOREM LimitsAreHonoured == DoublesSuffice => (CApiSpec => []LimitsHonoured)
<1> SUFFICES ASSUME DoublesSuffice
             PROVE  CApiSpec => []LimitsHonoured
  OBVIOUS
<1>1. NestedInv /\ PricesInv => LimitsHonoured
  BY TradesWithinLimits
<1>2. CApiSpec => []PricesInv
  BY PricesInvariance
<1> QED
  BY <1>1, <1>2, NestedInvariance, PTL

-----------------------------------------------------------------------------
\* The running totals stay right when calls nest.
LEMMA CApiStepTotals ==
  ASSUME NestedInv, TotalsAddUp, [CApiNext]_capiVars
  PROVE  TotalsAddUp'
<1>1. StepInv /\ TypeOK
  BY CallsFacts
<1>2. \A s \in Listed : s \in Slots /\ s \in Live /\ (~Idle => s # call.taker)
  BY <1>1, ListedFacts
<1>3. ASSUME UNCHANGED book, \A s \in Listed : mem'[s] = mem[s]
      PROVE  TotalsAddUp'
  <2>1. \A s \in Listed : RemainingNext[s] = Remaining[s]
    BY <1>2, <1>3 DEF Remaining, RemainingNext
  <2> QED
    BY <1>1, <1>3, <2>1, TotalsKept
<1>4. ASSUME [Next]_vars
      PROVE  TotalsAddUp'
  BY <1>1, <1>4, TotalsStep
<1>5. CASE DestroyOrderBook
  <2>1. \A sd \in Sides : DOMAIN book'[sd] = {}
    BY <1>5 DEF DestroyOrderBook
  <2> QED
    BY <2>1, TotalsPrimed
<1>6. ASSUME NEW r \in Requests, AddRefused(r)
      PROVE  TotalsAddUp'
  BY <1>3, <1>6 DEF AddRefused, AddRejected, NestedAddRejected
<1>7. ASSUME NEW r \in Requests, AddBegins(r)
      PROVE  TotalsAddUp'
  <2>1. PICK o : o = Converted(r)
    OBVIOUS
  <2>2. \/ AddAccepted(o) /\ UNCHANGED outer
        \/ NestedAddAccepted(o)
    BY <1>7, <2>1 DEF AddBegins
  <2>3. PICK ptr \in Slots :
          /\ ptr \notin Live /\ UNCHANGED book
          /\ \A t \in Slots \ {ptr} : mem'[t] = mem[t]
    BY <2>2, AcceptFacts
  <2>4. \A s \in Listed : mem'[s] = mem[s]
    BY <1>2, <2>3
  <2> QED
    BY <1>3, <2>3, <2>4
<1>8. ASSUME NEW id \in OrderIDs, Cancel(id)
      PROVE  TotalsAddUp'
  BY <1>4, <1>8 DEF Cancel, NestedCancel, Next
<1>9. CASE NestedFilled
  <2>1. FilledStep(call.taker) /\ ~Idle /\ UNCHANGED book
    BY <1>1, <1>9, FilledEffect DEF NestedFilled, Matching, Idle
  <2>2. \A s \in Listed : mem'[s] = mem[s]
    BY <1>2, <2>1 DEF FilledStep
  <2> QED
    BY <1>3, <2>1, <2>2
<1>10. CASE NestedRest
  <2>1. RestStep(call.taker) /\ book' = AddToPriceLevel(call.taker, Taker)
    BY <1>1, <1>10, RestEffect DEF NestedRest
  <2> QED
    BY <1>1, <2>1, RestedTotals
<1>11. CASE NestedThrow
  BY <1>3, <1>11 DEF NestedThrow
<1>12. CASE ExecuteTrade \/ SettlePartial \/ SettleFilled
  BY <1>4, <1>12 DEF Next, Engine
<1>13. CASE Continue
  BY <1>9, <1>10, <1>11, <1>12, <1>13 DEF Continue, NestedEngine
<1>14. CASE \/ CreateOrderBook \/ SetTradeCallback \/ UNCHANGED capiVars
            \/ AddToNull \/ CancelInNull
  BY <1>3, <1>14 DEF CreateOrderBook, SetTradeCallback, capiVars, nestedVars,
     AddToNull, CancelInNull, NullHandle
<1> QED
  BY <1>5, <1>6, <1>7, <1>8, <1>13, <1>14 DEF CApiNext

LEMMA CApiStepHandle ==
  ASSUME HandleInv, [CApiNext]_capiVars
  PROVE  HandleInv'
<1>1. ASSUME UNCHANGED <<handle, call, book>>
      PROVE  HandleInv'
  BY <1>1 DEF HandleInv, Idle, Levels
<1>2. ASSUME handle' = handle, handle = "book"
      PROVE  HandleInv'
  BY <1>2 DEF HandleInv
<1>3. CASE CreateOrderBook
  BY <1>3 DEF CreateOrderBook, HandleInv, nestedVars, Idle, Levels
<1>4. CASE DestroyOrderBook
  BY <1>4 DEF DestroyOrderBook, HandleInv, Idle, Levels
<1>5. CASE \/ SetTradeCallback \/ UNCHANGED capiVars
           \/ AddToNull \/ CancelInNull
  BY <1>1, <1>5 DEF SetTradeCallback, capiVars, nestedVars,
     AddToNull, CancelInNull, NullHandle
<1>6. ASSUME NEW r \in Requests, AddRefused(r) \/ AddBegins(r)
      PROVE  HandleInv'
  BY <1>2, <1>6 DEF AddRefused, AddBegins, ClientRuns
<1>7. ASSUME NEW id \in OrderIDs, Cancel(id)
      PROVE  HandleInv'
  BY <1>2, <1>7 DEF Cancel, ClientRuns
<1>8. CASE Continue
  <2>1. ~Idle /\ handle' = handle
    BY <1>8 DEF Continue, NestedEngine, ExecuteTrade, SettlePartial,
       SettleFilled, NestedRest, NestedFilled, NestedThrow, CannotTrade,
       Matching, InCallback, Idle
  <2> QED
    BY <2>1 DEF HandleInv
<1> QED
  BY <1>3, <1>4, <1>5, <1>6, <1>7, <1>8 DEF CApiNext

LEMMA NothingOnSide ==
  ASSUME NestedInv, DoublesSuffice, NEW side \in Sides, Levels(side) = {}
  PROVE  /\ GetBest(side) = 0 /\ GetDepth(side) = 0
         /\ GetQuantityAtPrice(0, side) = 0
         /\ QuantityResting(side, 0) % QuantityModulus = 0
<1>1. StepInv /\ TypeOK /\ ListedAreIndexed
  BY CallsFacts DEF NestedInv
<1>2. Indexed = Listed
  BY <1>1, IndexedIsListed
<1>3. RestingAt(side, 0) = {}
  BY <1>1, <1>2, ListedFacts DEF RestingAt
<1>4. SumFunctionOnSet([s \in {} |-> mem[s].quantity], {}) = 0
  BY SumEmpty
<1>5. QuantityResting(side, 0) = 0
  BY <1>3, <1>4 DEF QuantityResting, SumFunction
<1>6. QuantityModulus \in Nat \ {0}
  BY LimitsAssumption
<1>7. 0 % QuantityModulus = 0
  BY <1>6
<1>8. GetDepth(side) = 0
  BY FS_EmptySet DEF GetDepth
<1> QED
  BY <1>5, <1>7, <1>8 DEF GetBest, GetQuantityAtPrice

LEMMA PricesAreAsked ==
  ASSUME DoublesSuffice, NestedInv, TotalsAddUp, HandleInv
  PROVE  ShownPricesCanBeAsked
<1> SUFFICES ASSUME NEW side \in Sides
             PROVE  LET shown == BestPrice(side)
                        code  == IF side = "BUY" THEN 0 ELSE 1
                    IN  /\ shown = 0 <=> Depth(side) = 0
                        /\ QuantityAtPrice(shown, code)
                             = QuantityResting(side, GetBest(side))
                                 % QuantityModulus
                        /\ IsEmpty = 1 => shown = 0
  BY DEF ShownPricesCanBeAsked
<1>1. PICK shown, code : /\ shown = BestPrice(side)
                         /\ code = IF side = "BUY" THEN 0 ELSE 1
  OBVIOUS
<1>2. ToSide(code) = side
  BY <1>1 DEF ToSide, Sides
<1>3. StepInv /\ TypeOK /\ ListedAreIndexed
  BY CallsFacts DEF NestedInv
<1>4. CASE Levels(side) = {}
  <2>1. /\ GetBest(side) = 0 /\ GetDepth(side) = 0
        /\ GetQuantityAtPrice(0, side) = 0
        /\ QuantityResting(side, 0) % QuantityModulus = 0
    BY <1>4, NothingOnSide
  <2>2. shown = 0 /\ Depth(side) = 0
    BY <1>1, <2>1, NothingShown DEF BestPrice, Depth
  <2>3. QuantityAtPrice(shown, code) = 0
    BY <1>2, <2>1, <2>2, NothingShown DEF QuantityAtPrice
  <2> QED
    BY <1>1, <2>1, <2>2, <2>3
<1>5. CASE Levels(side) # {}
  <2>1. handle # "null"
    BY <1>5 DEF HandleInv
  <2>2. PICK p \in Levels(side) : p = GetBest(side)
    BY <1>3, <1>5, BestExists DEF GetBest, IsBest
  <2>3. p \in Prices /\ p \in 1 .. MAX_PRICE
    BY <1>3, LimitsAssumption DEF TypeOK, Prices, DoublesSuffice
  <2>4. shown = PriceToDouble(p) /\ shown # 0 /\ PriceToFixed(shown) = p
    BY <1>1, <2>1, <2>2, <2>3, ShownIsNear, ShownIsFixed DEF BestPrice
  <2>5. Depth(side) # 0
    <3>1. IsFiniteSet(Levels(side))
      <4>1. Levels(side) \subseteq MIN_PRICE .. MAX_PRICE
        BY <1>3 DEF TypeOK, Prices
      <4>2. IsFiniteSet(MIN_PRICE .. MAX_PRICE)
        BY LimitsAssumption, FS_Interval
      <4> QED
        BY <4>1, <4>2, FS_Subset
    <3> QED
      BY <1>5, <2>1, <3>1, FS_EmptySet DEF Depth, GetDepth
  <2>6. QuantityAtPrice(shown, code) = GetQuantityAtPrice(p, side)
    BY <1>2, <2>1, <2>4 DEF QuantityAtPrice
  <2>7. GetQuantityAtPrice(p, side) = QuantityResting(side, p) % QuantityModulus
    BY <1>3, <2>3, QuantityIsShown
  <2>8. IsEmpty # 1
    BY <1>5, <2>1 DEF IsEmpty
  <2> QED
    BY <1>1, <2>2, <2>4, <2>5, <2>6, <2>7, <2>8
<1> QED
  BY <1>4, <1>5

\* A best price the API shows can be passed back to it: rounded to a double,
\* multiplied and rounded again it is the same number of ticks, the quantity
\* there is that of the orders resting there, and 0.0 is shown exactly when
\* the side has no levels (CAPI.cpp:140-199), in the middle of nested calls
\* too.
THEOREM ShownPricesAreUsable ==
  DoublesSuffice => (CApiSpec => []ShownPricesCanBeAsked)
<1> SUFFICES ASSUME DoublesSuffice
             PROVE  CApiSpec => []ShownPricesCanBeAsked
  OBVIOUS
<1>1. CApiInit => TotalsAddUp /\ HandleInv
  BY DEF CApiInit, NestedInit, Init, TotalsAddUp, HandleInv, Levels, Idle,
     IdleCall
<1>2. NestedInv /\ TotalsAddUp /\ [CApiNext]_capiVars => TotalsAddUp'
  BY CApiStepTotals
<1>3. HandleInv /\ [CApiNext]_capiVars => HandleInv'
  BY CApiStepHandle
<1>4. NestedInv /\ TotalsAddUp /\ HandleInv => ShownPricesCanBeAsked
  BY PricesAreAsked
<1> QED
  BY <1>1, <1>2, <1>3, <1>4, NestedInvariance, PTL DEF CApiSpec

=============================================================================
