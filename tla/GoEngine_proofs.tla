-------------------------- MODULE GoEngine_proofs --------------------------
(***************************************************************************)
(* Proofs about the Go engine, for every set of requests and every limit:  *)
(* its two maps and its running totals stay consistent, and it implements  *)
(* price-time priority.                                                    *)
(*                                                                         *)
(* Every method does to the book one of three things: it leaves the lists  *)
(* as they are, it appends an order to one of them, or it cuts one order   *)
(* out.  BookStep says what the three have in common, and the invariants   *)
(* are proved to survive any such step.                                    *)
(***************************************************************************)
EXTENDS GoEngine, NumberLemmas, SequenceTheorems

-----------------------------------------------------------------------------
(***************************************************************************)
(* Constants and arithmetic.                                               *)
(***************************************************************************)
LEMMA SideFacts ==
  /\ "BUY" \in Sides /\ "SELL" \in Sides
  /\ \A side \in Sides : /\ Opposite(side) \in Sides
                         /\ Opposite(side) # side
                         /\ Opposite(Opposite(side)) = side
BY DEF Sides, Opposite

LEMMA QuantityFacts ==
  ASSUME NEW x \in Nat, NEW y \in Nat
  PROVE  /\ Plus(x, y) \in 0 .. QuantityModulus - 1
         /\ Minus(x, y) \in 0 .. QuantityModulus - 1
BY LimitsAssumption DEF Plus, Minus

LEMMA PricesAreNumbers ==
  Prices \subseteq Nat
BY LimitsAssumption DEF Prices

\* A price that passes the checks is rounded to one of the book's prices.
LEMMA RoundedIsPrice ==
  ASSUME NEW price \in Int, ~BadPrice(price)
  PROVE  PriceToFixed(price) \in Prices
<1>1. /\ Units \in Nat \ {0} /\ MIN_PRICE = 0 /\ MAX_PRICE \in Nat /\ 2 \in Nat \ {0}
  BY GoAssumption, LimitsAssumption
<1>2. PICK half \in Nat : half = Units \div 2 /\ half < Units
  <2>1. /\ Units \div 2 \in Nat /\ Units % 2 \in 0 .. 1
        /\ Units = 2 * (Units \div 2) + (Units % 2)
    BY <1>1, Division
  <2> QED
    BY <1>1, <2>1
<1>3. PICK top \in Nat : top = MAX_PRICE * Units
  BY <1>1
<1>4. price + half \in Nat /\ price + half < top + Units
  <2>1. 0 <= price /\ price <= top
    BY <1>3 DEF BadPrice
  <2> QED
    BY <1>1, <1>2, <1>3, <2>1
<1>5. PICK n \in Nat : n = price + half
  BY <1>4
<1>6. /\ n \div Units \in Nat /\ n % Units \in 0 .. Units - 1
      /\ n = Units * (n \div Units) + (n % Units)
  BY <1>1, Division
<1>7. PICK q \in Nat : q = n \div Units
  BY <1>6
<1>8. Units * q <= n
  BY <1>1, <1>6, <1>7
<1>9. q <= MAX_PRICE
  <2>1. SUFFICES ASSUME q >= MAX_PRICE + 1
                 PROVE  FALSE
    BY <1>1, <1>7
  <2>2. Units * q >= Units * (MAX_PRICE + 1)
    BY <1>1, <1>7, <2>1, SMTT(30)
  <2>3. Units * (MAX_PRICE + 1) = MAX_PRICE * Units + Units
    BY <1>1, SMTT(30)
  <2>4. Units * q >= top + Units
    BY <1>3, <2>2, <2>3
  <2>5. n < top + Units
    BY <1>4, <1>5
  <2>6. PICK m \in Int : m = Units * q
    BY <1>1, <1>7
  <2> QED
    BY <1>1, <1>3, <1>5, <1>8, <2>4, <2>5, <2>6
<1>10. PriceToFixed(price) = q
  BY <1>2, <1>5, <1>7 DEF PriceToFixed
<1> QED
  BY <1>1, <1>7, <1>9, <1>10 DEF Prices

\* What an accepted request passed.
LEMMA AcceptedFacts ==
  ASSUME NEW r \in Requests, Refusal(r) = "SUCCESS"
  PROVE  /\ ~closed /\ r.quantity \in Quantities /\ ~BadPrice(r.price)
         /\ r.side \in Sides /\ orders[r.id] = NoOrder
         /\ r.id \in OrderIDs
BY DEF Refusal, OrderIDs

-----------------------------------------------------------------------------
(***************************************************************************)
(* What can happen to the list of a price level: some orders leave it, and *)
(* some come to its end.                                                   *)
(***************************************************************************)
Moved(list, left, out, in) ==
  /\ left \in Seq(OrderIDs)
  /\ \A i \in 1 .. Len(left) :
       /\ left[i] \notin out
       /\ left[i] \in in \/ \E k \in 1 .. Len(list) : list[k] = left[i]
  /\ \A i, j \in 1 .. Len(left) : i < j =>
       /\ \E k \in 1 .. Len(list) : list[k] = left[i]
       /\ \/ left[j] \in in
          \/ \E k, l \in 1 .. Len(list) :
               k < l /\ left[i] = list[k] /\ left[j] = list[l]
  /\ \A k \in 1 .. Len(list) : list[k] \notin out =>
       \E i \in 1 .. Len(left) : left[i] = list[k]
  /\ list # << >> /\ Head(list) \notin out =>
       left # << >> /\ Head(left) = Head(list)

LEMMA SameMoves ==
  ASSUME NEW list \in Seq(OrderIDs), NEW out,
         \A i \in 1 .. Len(list) : list[i] \notin out
  PROVE  Moved(list, list, out, {})
BY DEF Moved

LEMMA AppendMoves ==
  ASSUME NEW list \in Seq(OrderIDs), NEW id \in OrderIDs
  PROVE  Moved(list, Append(list, id), {}, {id})
<1>1. PICK left : left = Append(list, id)
  OBVIOUS
<1>2. /\ left \in Seq(OrderIDs) /\ Len(list) \in Nat
      /\ Len(left) = Len(list) + 1
      /\ \A i \in 1 .. Len(list) : left[i] = list[i]
      /\ left[Len(list) + 1] = id
  BY <1>1
<1>3. ASSUME NEW i \in 1 .. Len(left)
      PROVE  left[i] \in {id} \/ \E k \in 1 .. Len(list) : list[k] = left[i]
  BY <1>2
<1>4. ASSUME NEW i \in 1 .. Len(left), NEW j \in 1 .. Len(left), i < j
      PROVE  /\ \E k \in 1 .. Len(list) : list[k] = left[i]
             /\ \/ left[j] \in {id}
                \/ \E k, l \in 1 .. Len(list) :
                     k < l /\ left[i] = list[k] /\ left[j] = list[l]
  <2>1. i \in 1 .. Len(list) /\ left[i] = list[i]
    BY <1>2, <1>4
  <2>2. CASE j = Len(list) + 1
    BY <1>2, <2>1, <2>2
  <2>3. CASE j # Len(list) + 1
    <3>1. j \in 1 .. Len(list) /\ left[j] = list[j]
      BY <1>2, <2>3
    <3> QED
      BY <1>4, <2>1, <3>1
  <2> QED
    BY <2>2, <2>3
<1>5. ASSUME NEW k \in 1 .. Len(list)
      PROVE  \E i \in 1 .. Len(left) : left[i] = list[k]
  BY <1>2
<1>6. ASSUME list # << >>
      PROVE  left # << >> /\ Head(left) = Head(list)
  <2>1. Len(list) >= 1
    BY <1>6
  <2>2. 1 \in 1 .. Len(list) /\ Len(left) > 0
    BY <1>2, <2>1
  <2> QED
    BY <1>2, <1>6, <2>2
<1>7. Moved(list, left, {}, {id})
  BY <1>2, <1>3, <1>4, <1>5, <1>6 DEF Moved
<1> QED
  BY <1>1, <1>7

\* The library's RemoveAt cuts out one element.
LEMMA RemoveAtProperties ==
  ASSUME NEW S, NEW list \in Seq(S), NEW at \in 1 .. Len(list)
  PROVE  /\ RemoveAt(list, at) \in Seq(S)
         /\ Len(RemoveAt(list, at)) = Len(list) - 1
         /\ \A i \in 1 .. at - 1 : RemoveAt(list, at)[i] = list[i]
         /\ \A i \in at .. Len(list) - 1 : RemoveAt(list, at)[i] = list[i + 1]
<1>1. PICK a, b, n : a = SubSeq(list, 1, at - 1) /\ n = Len(list)
                     /\ b = SubSeq(list, at + 1, n)
  OBVIOUS
<1>2. n \in Nat /\ at \in 1 .. n
  BY <1>1
<1>3. /\ \A i \in 1 .. at - 1 : list[i] \in S
      /\ \A i \in at + 1 .. n : list[i] \in S
      /\ at - 1 \in Int /\ at + 1 \in Int /\ n \in Int /\ 1 \in Int
  BY <1>1, <1>2
<1>4. /\ a \in Seq(S)
      /\ Len(a) = at - 1
      /\ \A i \in 1 .. at - 1 : a[i] = list[i]
  <2>1. /\ a \in Seq(S)
        /\ Len(a) = IF 1 <= at - 1 THEN at - 1 - 1 + 1 ELSE 0
        /\ \A i \in 1 .. at - 1 - 1 + 1 : a[i] = list[1 + i - 1]
    BY <1>1, <1>3, SubSeqProperties
  <2> QED
    BY <1>2, <2>1
<1>5. /\ b \in Seq(S)
      /\ Len(b) = n - at
      /\ \A i \in 1 .. n - at : b[i] = list[at + i]
  <2>1. /\ b \in Seq(S)
        /\ Len(b) = IF at + 1 <= n THEN n - (at + 1) + 1 ELSE 0
        /\ \A i \in 1 .. n - (at + 1) + 1 : b[i] = list[at + 1 + i - 1]
    BY <1>1, <1>3, SubSeqProperties
  <2> QED
    BY <1>2, <2>1
<1>6. /\ a \o b \in Seq(S)
      /\ Len(a \o b) = Len(a) + Len(b)
      /\ \A i \in 1 .. Len(a) + Len(b) :
           (a \o b)[i] = IF i <= Len(a) THEN a[i] ELSE b[i - Len(a)]
  BY <1>4, <1>5, ConcatProperties
<1>7. Len(a \o b) = n - 1
  BY <1>2, <1>4, <1>5, <1>6
<1>8. \A i \in 1 .. at - 1 : (a \o b)[i] = list[i]
  BY <1>2, <1>4, <1>5, <1>6
<1>9. ASSUME NEW i \in at .. n - 1
      PROVE  (a \o b)[i] = list[i + 1]
  <2>1. (a \o b)[i] = b[i - (at - 1)]
    BY <1>2, <1>4, <1>5, <1>6
  <2>2. i - (at - 1) \in 1 .. n - at /\ at + (i - (at - 1)) = i + 1
    BY <1>2
  <2> QED
    BY <1>5, <2>1, <2>2
<1>10. RemoveAt(list, at) = a \o b
  BY <1>1 DEF RemoveAt
<1> QED
  BY <1>1, <1>6, <1>7, <1>8, <1>9, <1>10
LEMMA RemoveMoves ==
  ASSUME NEW list \in Seq(OrderIDs), NEW at \in 1 .. Len(list), NEW id,
         \A i \in 1 .. Len(list) : list[i] = id <=> i = at
  PROVE  Moved(list, RemoveAt(list, at), {id}, {})
<1>1. PICK left : left = RemoveAt(list, at)
  OBVIOUS
<1>2. /\ left \in Seq(OrderIDs)
      /\ Len(list) \in Nat
      /\ Len(left) = Len(list) - 1
      /\ \A i \in 1 .. at - 1 : left[i] = list[i]
      /\ \A i \in at .. Len(list) - 1 : left[i] = list[i + 1]
  BY <1>1, RemoveAtProperties
<1>3. ASSUME NEW i \in 1 .. Len(left)
      PROVE  \E k \in 1 .. Len(list) : k # at /\ left[i] = list[k]
  <2>1. CASE i < at
    BY <1>2, <2>1
  <2>2. CASE i >= at
    <3>1. /\ i + 1 \in 1 .. Len(list)
          /\ i + 1 # at
          /\ i \in at .. Len(list) - 1
      BY <1>2, <2>2
    <3> QED
      BY <1>2, <3>1
  <2> QED
    BY <2>1, <2>2
<1>4. ASSUME NEW i \in 1 .. Len(left), NEW j \in 1 .. Len(left), i < j
      PROVE  \E k, l \in 1 .. Len(list) :
               k < l /\ left[i] = list[k] /\ left[j] = list[l]
  <2>1. CASE j < at
    <3>1. /\ i \in 1 .. at - 1 /\ i \in 1 .. Len(list)
          /\ j \in 1 .. at - 1 /\ j \in 1 .. Len(list)
      BY <1>2, <1>4, <2>1
    <3> QED
      BY <1>2, <1>4, <3>1
  <2>2. CASE i < at /\ at <= j
    <3>1. /\ i \in 1 .. at - 1 /\ i \in 1 .. Len(list)
          /\ j \in at .. Len(list) - 1 /\ j + 1 \in 1 .. Len(list)
          /\ i < j + 1
      BY <1>2, <1>4, <2>2
    <3> QED
      BY <1>2, <3>1
  <2>3. CASE at <= i
    <3>1. /\ i \in at .. Len(list) - 1 /\ i + 1 \in 1 .. Len(list)
          /\ j \in at .. Len(list) - 1 /\ j + 1 \in 1 .. Len(list)
          /\ i + 1 < j + 1
      BY <1>2, <1>4, <2>3
    <3> QED
      BY <1>2, <3>1
  <2> QED
    BY <2>1, <2>2, <2>3
<1>5. ASSUME NEW k \in 1 .. Len(list), list[k] # id
      PROVE  \E i \in 1 .. Len(left) : left[i] = list[k]
  <2>1. k # at
    BY <1>5
  <2>2. CASE k < at
    <3>1. k \in 1 .. at - 1 /\ k \in 1 .. Len(left)
      BY <1>2, <2>2
    <3> QED
      BY <1>2, <3>1
  <2>3. CASE k > at
    <3>1. k - 1 \in 1 .. Len(left) /\ k - 1 \in at .. Len(list) - 1
      BY <1>2, <2>3
    <3>2. left[k - 1] = list[k - 1 + 1] /\ k - 1 + 1 = k
      BY <1>2, <3>1
    <3> QED
      BY <3>1, <3>2
  <2> QED
    BY <2>1, <2>2, <2>3
<1>6. ASSUME list # << >>, Head(list) # id
      PROVE  left # << >> /\ Head(left) = Head(list)
  <2>1. 1 \in 1 .. Len(list) /\ list[1] # id
    BY <1>2, <1>6
  <2>2. 1 \in 1 .. at - 1 /\ Len(left) > 0
    BY <1>2, <2>1
  <2> QED
    BY <1>2, <1>6, <2>2
<1>7. \A i \in 1 .. Len(left) : left[i] # id
  BY <1>3
<1>8. Moved(list, left, {id}, {})
  BY <1>2, <1>3, <1>4, <1>5, <1>6, <1>7 DEF Moved
<1> QED
  BY <1>1, <1>8

-----------------------------------------------------------------------------
(***************************************************************************)
(* The book as a line of orders and a total for every side and price.      *)
(***************************************************************************)
Line(sd, x)  == IF x \in Levels(sd) THEN book[sd][x].orders ELSE << >>
Total(sd, x) == IF x \in Levels(sd) THEN book[sd][x].total_quantity ELSE 0

LineNext(sd, x) ==
  IF x \in DOMAIN book'[sd] THEN book'[sd][x].orders ELSE << >>
TotalNext(sd, x) ==
  IF x \in DOMAIN book'[sd] THEN book'[sd][x].total_quantity ELSE 0

InLine(id, line) == \E i \in 1 .. Len(line) : line[i] = id

Level == [orders : Seq(OrderIDs), total_quantity : 0 .. QuantityModulus - 1]

BookType ==
  /\ DOMAIN book = Sides
  /\ \A sd \in Sides :
       /\ Levels(sd) \subseteq Prices
       /\ \A x \in Levels(sd) :
            book[sd][x] \in Level /\ book[sd][x].orders # << >>

\* A step of the book: the orders `out' leave every line, the orders `in'
\* come to the end of the line of side S and price P, and the total shown
\* there changes by d, or goes with its level.
BookStep(out, in, S, P, d) ==
  /\ BookType'
  /\ \A sd \in Sides : \A x \in Prices :
       Moved(Line(sd, x), LineNext(sd, x), out,
             IF sd = S /\ x = P THEN in ELSE {})
  /\ \A id \in in : InLine(id, LineNext(S, P))
  /\ \A sd \in Sides : \A x \in Prices :
       TotalNext(sd, x) =
         IF sd = S /\ x = P
         THEN IF LineNext(S, P) = << >> THEN 0
              ELSE (Total(S, P) + d) % QuantityModulus
         ELSE Total(sd, x)

LEMMA LinePrimed ==
  /\ \A sd, x : Line(sd, x)' = LineNext(sd, x)
  /\ \A sd, x : Total(sd, x)' = TotalNext(sd, x)
BY DEF Line, LineNext, Total, TotalNext, Levels

LEMMA LineFacts ==
  ASSUME BookType, NEW sd \in Sides, NEW x
  PROVE  /\ Line(sd, x) \in Seq(OrderIDs)
         /\ Len(Line(sd, x)) \in Nat
         /\ \A i \in 1 .. Len(Line(sd, x)) : Line(sd, x)[i] \in OrderIDs
         /\ x \in Levels(sd) <=> Line(sd, x) # << >>
         /\ Len(Line(sd, x)) > 0 => x \in Prices
         /\ Total(sd, x) \in 0 .. QuantityModulus - 1
         /\ Total(sd, x) \in Nat
<1>1. CASE x \in Levels(sd)
  BY <1>1, LimitsAssumption DEF BookType, Level, Line, Total
<1>2. CASE x \notin Levels(sd)
  <2>1. Line(sd, x) = << >> /\ Total(sd, x) = 0
    BY <1>2 DEF Line, Total
  <2>2. << >> \in Seq(OrderIDs) /\ Len(<< >>) = 0 /\ 1 .. 0 = {}
    OBVIOUS
  <2> QED
    BY <1>2, <2>1, <2>2, LimitsAssumption
<1> QED
  BY <1>1, <1>2

LEMMA SameBookStep ==
  ASSUME BookType, UNCHANGED book, NEW S, NEW P, NEW out,
         \A sd \in Sides : \A x \in Prices : \A i \in 1 .. Len(Line(sd, x)) :
           Line(sd, x)[i] \notin out
  PROVE  BookStep(out, {}, S, P, 0)
<1>1. \A sd, x : LineNext(sd, x) = Line(sd, x) /\ TotalNext(sd, x) = Total(sd, x)
  BY DEF Line, LineNext, Total, TotalNext, Levels
<1>2. BookType'
  BY DEF BookType, Levels
<1>3. \A sd \in Sides : \A x \in Prices :
        Moved(Line(sd, x), Line(sd, x), out, {})
  BY LineFacts, SameMoves
<1>4. ASSUME NEW sd \in Sides, NEW x \in Prices
      PROVE  /\ (Total(sd, x) + 0) % QuantityModulus = Total(sd, x)
             /\ Line(sd, x) = << >> => Total(sd, x) = 0
  <2>1. Total(sd, x) \in 0 .. QuantityModulus - 1 /\ QuantityModulus \in Nat
    BY LineFacts, LimitsAssumption
  <2>2. Line(sd, x) = << >> => x \notin Levels(sd)
    BY LineFacts
  <2> QED
    BY <2>1, <2>2 DEF Total
<1>5. \A sd \in Sides : \A x \in Prices :
        Moved(Line(sd, x), LineNext(sd, x), out,
              IF sd = S /\ x = P THEN {} ELSE {})
  BY <1>1, <1>3
<1>6. \A sd \in Sides : \A x \in Prices :
        TotalNext(sd, x) =
          IF sd = S /\ x = P
          THEN IF LineNext(S, P) = << >> THEN 0
               ELSE (Total(S, P) + 0) % QuantityModulus
          ELSE Total(sd, x)
  BY <1>1, <1>4
<1> QED
  BY <1>2, <1>5, <1>6 DEF BookStep

\* A level is replaced, or put where there was none.
LEMMA WithLevelFacts ==
  ASSUME BookType, NEW S \in Sides, NEW P \in Prices, NEW level,
         level \in Level, level.orders # << >>,
         book' = WithLevel(S, P, level)
  PROVE  /\ BookType'
         /\ LineNext(S, P) = level.orders
         /\ TotalNext(S, P) = level.total_quantity
         /\ \A sd \in Sides : \A x \in Prices : ~(sd = S /\ x = P) =>
              LineNext(sd, x) = Line(sd, x) /\ TotalNext(sd, x) = Total(sd, x)
<1>1. /\ DOMAIN book' = Sides
      /\ DOMAIN book'[S] = Levels(S) \cup {P}
      /\ \A x \in Levels(S) \cup {P} :
           book'[S][x] = IF x = P THEN level ELSE book[S][x]
      /\ \A sd \in Sides \ {S} : book'[sd] = book[sd]
  BY DEF BookType, WithLevel
<1>2. BookType'
  <2>1. ASSUME NEW sd \in Sides
        PROVE  /\ DOMAIN book'[sd] \subseteq Prices
               /\ \A x \in DOMAIN book'[sd] :
                    book'[sd][x] \in Level /\ book'[sd][x].orders # << >>
    BY <1>1 DEF BookType, Levels
  <2> QED
    BY <1>1, <2>1 DEF BookType, Levels
<1>3. LineNext(S, P) = level.orders /\ TotalNext(S, P) = level.total_quantity
  BY <1>1 DEF LineNext, TotalNext
<1>4. ASSUME NEW sd \in Sides, NEW x \in Prices, ~(sd = S /\ x = P)
      PROVE  LineNext(sd, x) = Line(sd, x) /\ TotalNext(sd, x) = Total(sd, x)
  BY <1>1, <1>4 DEF Line, LineNext, Total, TotalNext, Levels
<1> QED
  BY <1>2, <1>3, <1>4

LEMMA WithoutLevelFacts ==
  ASSUME BookType, NEW S \in Sides, NEW P \in Prices,
         book' = WithoutLevel(S, P)
  PROVE  /\ BookType'
         /\ LineNext(S, P) = << >> /\ TotalNext(S, P) = 0
         /\ \A sd \in Sides : \A x \in Prices : ~(sd = S /\ x = P) =>
              LineNext(sd, x) = Line(sd, x) /\ TotalNext(sd, x) = Total(sd, x)
<1>1. /\ DOMAIN book' = Sides
      /\ DOMAIN book'[S] = Levels(S) \ {P}
      /\ \A x \in Levels(S) \ {P} : book'[S][x] = book[S][x]
      /\ \A sd \in Sides \ {S} : book'[sd] = book[sd]
  BY DEF BookType, WithoutLevel
<1>2. BookType'
  <2>1. ASSUME NEW sd \in Sides
        PROVE  /\ DOMAIN book'[sd] \subseteq Prices
               /\ \A x \in DOMAIN book'[sd] :
                    book'[sd][x] \in Level /\ book'[sd][x].orders # << >>
    BY <1>1 DEF BookType, Levels
  <2> QED
    BY <1>1, <2>1 DEF BookType, Levels
<1>3. LineNext(S, P) = << >> /\ TotalNext(S, P) = 0
  BY <1>1 DEF LineNext, TotalNext
<1>4. ASSUME NEW sd \in Sides, NEW x \in Prices, ~(sd = S /\ x = P)
      PROVE  LineNext(sd, x) = Line(sd, x) /\ TotalNext(sd, x) = Total(sd, x)
  BY <1>1, <1>4 DEF Line, LineNext, Total, TotalNext, Levels
<1> QED
  BY <1>2, <1>3, <1>4

LEMMA AddStep ==
  ASSUME BookType, NEW id \in OrderIDs, NEW o,
         o.side \in Sides, o.price \in Prices, o.quantity \in Nat,
         book' = AddOrderToBook(id, o)
  PROVE  BookStep({}, {id}, o.side, o.price, o.quantity)
<1>1. PICK S, P : S = o.side /\ P = o.price
  OBVIOUS
<1>2. PICK line, total : line = Line(S, P) /\ total = Total(S, P)
  OBVIOUS
<1>3. line \in Seq(OrderIDs) /\ total \in Nat
  BY <1>1, <1>2, LineFacts
<1>4. PICK level : level = [orders |-> Append(line, id),
                            total_quantity |-> Plus(total, o.quantity)]
  OBVIOUS
<1>5. /\ level \in Level /\ level.orders = Append(line, id)
      /\ level.orders # << >>
      /\ level.total_quantity = (total + o.quantity) % QuantityModulus
  <2>1. Append(line, id) \in Seq(OrderIDs) /\ Append(line, id) # << >>
    <3>1. Append(line, id) \in Seq(OrderIDs) /\ Len(Append(line, id)) = Len(line) + 1
      BY <1>3
    <3>2. Len(line) \in Nat /\ Len(<< >>) = 0
      BY <1>3
    <3> QED
      BY <3>1, <3>2
  <2>2. Plus(total, o.quantity) \in 0 .. QuantityModulus - 1
    BY <1>3, QuantityFacts
  <2> QED
    BY <1>4, <2>1, <2>2 DEF Level, Plus
<1>6. book' = WithLevel(S, P, level)
  <2>1. PICK old : old = IF P \in Levels(S) THEN book[S][P]
                         ELSE [orders |-> << >>, total_quantity |-> 0]
    OBVIOUS
  <2>2. old.orders = line /\ old.total_quantity = total
    BY <1>2, <2>1 DEF Line, Total
  <2>3. book' = WithLevel(S, P,
                  [orders |-> Append(old.orders, id),
                   total_quantity |-> Plus(old.total_quantity, o.quantity)])
    BY <1>1, <2>1 DEF AddOrderToBook
  <2> QED
    BY <1>4, <2>2, <2>3
<1>7. /\ BookType'
      /\ LineNext(S, P) = level.orders
      /\ TotalNext(S, P) = level.total_quantity
      /\ \A sd \in Sides : \A x \in Prices : ~(sd = S /\ x = P) =>
           LineNext(sd, x) = Line(sd, x) /\ TotalNext(sd, x) = Total(sd, x)
  BY <1>1, <1>5, <1>6, WithLevelFacts
<1>8. ASSUME NEW sd \in Sides, NEW x \in Prices
      PROVE  Moved(Line(sd, x), LineNext(sd, x), {},
                   IF sd = S /\ x = P THEN {id} ELSE {})
  <2>1. CASE sd = S /\ x = P
    BY <1>2, <1>3, <1>5, <1>7, <2>1, AppendMoves
  <2>2. CASE ~(sd = S /\ x = P)
    <3>1. Moved(Line(sd, x), Line(sd, x), {}, {})
      BY LineFacts, SameMoves
    <3> QED
      BY <1>7, <2>2, <3>1
  <2> QED
    BY <2>1, <2>2
<1>9. InLine(id, LineNext(S, P))
  <2>1. /\ Len(line) + 1 \in 1 .. Len(Append(line, id))
        /\ Append(line, id)[Len(line) + 1] = id
    BY <1>3
  <2> QED
    BY <1>5, <1>7, <2>1 DEF InLine
<1>10. BookStep({}, {id}, S, P, o.quantity)
  BY <1>2, <1>5, <1>7, <1>8, <1>9 DEF BookStep
<1> QED
  BY <1>1, <1>10

\* A partial fill is taken from the total.
LEMMA ChargeStep ==
  ASSUME BookType, NEW S \in Sides, NEW P \in Levels(S), NEW q \in Nat,
         book' = WithLevel(S, P,
           [book[S][P] EXCEPT !.total_quantity = Minus(@, q)])
  PROVE  BookStep({}, {}, S, P, -q)
<1>1. PICK line, total : line = Line(S, P) /\ total = Total(S, P)
  OBVIOUS
<1>2. /\ P \in Prices /\ book[S][P] \in Level
      /\ book[S][P].orders = line /\ book[S][P].total_quantity = total
      /\ line # << >> /\ total \in Nat
  BY <1>1, LineFacts DEF BookType, Line, Total
<1>3. PICK level :
        level = [book[S][P] EXCEPT !.total_quantity = Minus(@, q)]
  OBVIOUS
<1>4. /\ level \in Level /\ level.orders = line
      /\ level.total_quantity = (total + (-q)) % QuantityModulus
  <2>1. PICK m : m = Minus(total, q)
    OBVIOUS
  <2>2. m \in 0 .. QuantityModulus - 1
    BY <1>2, <2>1, QuantityFacts
  <2>3. level \in Level /\ level.orders = line /\ level.total_quantity = m
    BY <1>2, <1>3, <2>1, <2>2 DEF Level
  <2>4. total - q = total + (-q)
    BY <1>2
  <2>5. m = (total + (-q)) % QuantityModulus
    BY <2>1, <2>4 DEF Minus
  <2> QED
    BY <2>3, <2>5
<1>5. /\ BookType'
      /\ LineNext(S, P) = line
      /\ TotalNext(S, P) = (total + (-q)) % QuantityModulus
      /\ \A sd \in Sides : \A x \in Prices : ~(sd = S /\ x = P) =>
           LineNext(sd, x) = Line(sd, x) /\ TotalNext(sd, x) = Total(sd, x)
  BY <1>2, <1>3, <1>4, WithLevelFacts
<1>6. ASSUME NEW sd \in Sides, NEW x \in Prices
      PROVE  Moved(Line(sd, x), LineNext(sd, x), {},
                   IF sd = S /\ x = P THEN {} ELSE {})
  <2>1. Moved(Line(sd, x), Line(sd, x), {}, {})
    BY LineFacts, SameMoves
  <2>2. LineNext(sd, x) = Line(sd, x)
    BY <1>1, <1>5
  <2> QED
    BY <2>1, <2>2
<1> QED
  BY <1>1, <1>2, <1>5, <1>6 DEF BookStep

\* removeOrderFromBook of an order that is in one place of the book.
LEMMA RemoveStep ==
  ASSUME NEW id, NEW o, NEW S \in Sides, NEW P \in Levels(S), NEW q \in Nat,
         BookType, S = o.side, P = o.price,
         \E at \in 1 .. Len(Line(S, P)) :
           \A i \in 1 .. Len(Line(S, P)) : Line(S, P)[i] = id <=> i = at,
         \A sd \in Sides : \A x \in Prices : ~(sd = S /\ x = P) =>
           \A i \in 1 .. Len(Line(sd, x)) : Line(sd, x)[i] # id,
         book' = RemoveOrderFromBook(id, o, q)
  PROVE  BookStep({id}, {}, S, P, -q)
<1>1. PICK line, total : line = Line(S, P) /\ total = Total(S, P)
  OBVIOUS
<1>2. PICK at \in 1 .. Len(line) :
        \A i \in 1 .. Len(line) : line[i] = id <=> i = at
  BY <1>1
<1>3. /\ P \in Prices /\ book[S][P] \in Level
      /\ book[S][P].orders = line /\ book[S][P].total_quantity = total
      /\ line \in Seq(OrderIDs) /\ total \in Nat
      /\ \A i \in 1 .. Len(line) : line[i] = id <=> i = at
      /\ at \in 1 .. Len(line)
  BY <1>1, <1>2, LineFacts DEF BookType, Line, Total
<1>4. Places(book[S][P], id) = {at}
  <2>1. DOMAIN line = 1 .. Len(line)
    BY <1>3
  <2> QED
    BY <1>3, <2>1 DEF Places
<1>5. Min({at}) = at
  BY <1>3 DEF Min
<1>6. PICK left : left = RemoveAt(line, at)
  OBVIOUS
<1>7. left \in Seq(OrderIDs) /\ Moved(line, left, {id}, {})
  <2>1. Moved(line, left, {id}, {})
    BY <1>3, <1>6, RemoveMoves
  <2> QED
    BY <2>1 DEF Moved
<1>8. book' = IF left = << >> THEN WithoutLevel(S, P)
              ELSE WithLevel(S, P, [orders |-> left,
                                    total_quantity |-> Minus(total, q)])
  <2>1. book' = LET rest == RemoveAt(book[S][P].orders,
                                     Min(Places(book[S][P], id)))
                IN  IF Places(book[S][P], id) = {} THEN book
                    ELSE IF rest = << >> THEN WithoutLevel(S, P)
                    ELSE WithLevel(S, P,
                           [orders |-> rest,
                            total_quantity |->
                              Minus(book[S][P].total_quantity, q)])
    BY Zenon DEF RemoveOrderFromBook
  <2>2. RemoveAt(book[S][P].orders, Min(Places(book[S][P], id))) = left
    BY <1>3, <1>4, <1>5, <1>6
  <2>3. Places(book[S][P], id) # {}
    BY <1>4
  <2> QED
    BY <1>3, <2>1, <2>2, <2>3, Zenon
<1>9. /\ BookType'
      /\ LineNext(S, P) = left
      /\ TotalNext(S, P) = IF left = << >> THEN 0
                           ELSE (total + (-q)) % QuantityModulus
      /\ \A sd \in Sides : \A x \in Prices : ~(sd = S /\ x = P) =>
           LineNext(sd, x) = Line(sd, x) /\ TotalNext(sd, x) = Total(sd, x)
  <2>1. CASE left = << >>
    BY <1>3, <1>8, <2>1, WithoutLevelFacts
  <2>2. CASE left # << >>
    <3>1. PICK m : m = Minus(total, q)
      OBVIOUS
    <3>2. total - q = total + (-q)
      BY <1>3
    <3>3. m \in 0 .. QuantityModulus - 1 /\ m = (total + (-q)) % QuantityModulus
      BY <1>3, <3>1, <3>2, QuantityFacts DEF Minus
    <3>4. PICK level : level = [orders |-> left, total_quantity |-> m]
      OBVIOUS
    <3>5. level \in Level /\ level.orders = left /\ level.total_quantity = m
      BY <1>7, <3>3, <3>4 DEF Level
    <3>6. book' = WithLevel(S, P, level)
      BY <1>8, <2>2, <3>1, <3>4
    <3> QED
      BY <1>3, <2>2, <3>3, <3>5, <3>6, WithLevelFacts
  <2> QED
    BY <2>1, <2>2
<1>10. ASSUME NEW sd \in Sides, NEW x \in Prices
      PROVE  Moved(Line(sd, x), LineNext(sd, x), {id},
                   IF sd = S /\ x = P THEN {} ELSE {})
  <2>1. CASE sd = S /\ x = P
    BY <1>1, <1>7, <1>9, <2>1
  <2>2. CASE ~(sd = S /\ x = P)
    <3>1. Moved(Line(sd, x), Line(sd, x), {id}, {})
      BY <2>2, LineFacts, SameMoves
    <3> QED
      BY <1>9, <2>2, <3>1
  <2> QED
    BY <2>1, <2>2
<1> QED
  BY <1>1, <1>9, <1>10 DEF BookStep

\* removeOrderFromBook of an order that is in no place of it.
LEMMA RemoveNothing ==
  ASSUME BookType, NEW id, NEW o, NEW q, o.side \in Sides, o.price \in Prices,
         \A i \in 1 .. Len(Line(o.side, o.price)) :
           Line(o.side, o.price)[i] # id,
         book' = RemoveOrderFromBook(id, o, q)
  PROVE  book' = book
<1>1. CASE o.price \notin Levels(o.side)
  BY <1>1 DEF RemoveOrderFromBook
<1>2. CASE o.price \in Levels(o.side)
  <2>1. PICK line : line = Line(o.side, o.price)
    OBVIOUS
  <2>2. line = book[o.side][o.price].orders /\ DOMAIN line = 1 .. Len(line)
    BY <1>2, <2>1, LineFacts DEF Line
  <2>3. Places(book[o.side][o.price], id) = {}
    BY <2>1, <2>2 DEF Places
  <2> QED
    BY <1>2, <2>3, Zenon DEF RemoveOrderFromBook
<1> QED
  BY <1>1, <1>2

-----------------------------------------------------------------------------
(***************************************************************************)
(* The inductive invariant.                                                *)
(***************************************************************************)
\* The lists hold known orders of their own level.
ListedAreKnown ==
  \A sd \in Sides : \A x \in Prices : \A i \in 1 .. Len(Line(sd, x)) :
    LET o == orders[Line(sd, x)[i]] IN
      o # NoOrder /\ o.side = sd /\ o.price = x /\ o.quantity > 0

TimePriority ==
  \A sd \in Sides : \A x \in Prices : \A i, j \in 1 .. Len(Line(sd, x)) :
    i < j => orders[Line(sd, x)[i]].timestamp < orders[Line(sd, x)[j]].timestamp

NotCrossed == \A b \in Levels("BUY") : \A a \in Levels("SELL") : b < a

\* The trade a callback is told of is with the front of the best level.
MakerIsInFront ==
  InCallback =>
    /\ call.maker \in OrderIDs /\ Maker # NoOrder
    /\ Maker.side = Opposite(Taker.side)
    /\ IsBest(Maker.side, Maker.price)
    /\ Head(Line(Maker.side, Maker.price)) = call.maker
    /\ call.quantity \in {Maker.quantity, Taker.quantity}
    /\ call.quantity <= Maker.quantity /\ call.quantity <= Taker.quantity

TakerIsPrivate ==
  ~Idle => call.taker \in OrderIDs /\ Taker # NoOrder /\ call.taker \notin Listed

TakerIsYoungest ==
  \A id \in OrderIDs : orders[id] # NoOrder =>
    /\ orders[id].timestamp < now
    /\ ~Idle /\ id # call.taker => orders[id].timestamp < Taker.timestamp

IdleIsClean == Idle => call = IdleCall

GoInv ==
  /\ TypeOK
  /\ BookType
  /\ ListedAreKnown
  /\ TimePriority
  /\ NotCrossed
  /\ MakerIsInFront
  /\ TakerIsPrivate
  /\ TakerIsYoungest
  /\ IdleIsClean

-----------------------------------------------------------------------------
(***************************************************************************)
(* What follows from the invariant in a state.                             *)
(***************************************************************************)
LEMMA ListedMeans ==
  ASSUME BookType
  PROVE  \A id : id \in Listed
                   <=> \E sd \in Sides : \E x \in Prices : InLine(id, Line(sd, x))
<1>1. ASSUME NEW id, id \in Listed
      PROVE  \E sd \in Sides : \E x \in Prices : InLine(id, Line(sd, x))
  <2>1. PICK sd \in Sides : \E x \in Levels(sd) : id \in ToSet(book[sd][x].orders)
    BY <1>1 DEF Listed
  <2>2. PICK x \in Levels(sd) : id \in ToSet(book[sd][x].orders)
    BY <2>1
  <2>3. x \in Prices /\ Line(sd, x) = book[sd][x].orders
        /\ Line(sd, x) \in Seq(OrderIDs)
    BY <2>2, LineFacts DEF BookType, Line
  <2>4. DOMAIN Line(sd, x) = 1 .. Len(Line(sd, x))
    BY <2>3
  <2>5. InLine(id, Line(sd, x))
    BY <2>2, <2>3, <2>4 DEF InLine, ToSet
  <2> QED
    BY <2>3, <2>5
<1>2. ASSUME NEW id, NEW sd \in Sides, NEW x \in Prices, InLine(id, Line(sd, x))
      PROVE  id \in Listed
  <2>1. Line(sd, x) \in Seq(OrderIDs)
    BY LineFacts
  <2>2. PICK i \in 1 .. Len(Line(sd, x)) : Line(sd, x)[i] = id
    BY <1>2 DEF InLine
  <2>3. x \in Levels(sd) /\ DOMAIN Line(sd, x) = 1 .. Len(Line(sd, x))
    <3>1. x \notin Levels(sd) => Len(Line(sd, x)) = 0
      BY DEF Line
    <3>2. Len(Line(sd, x)) # 0
      BY <2>2
    <3> QED
      BY <2>1, <3>1, <3>2
  <2>4. Line(sd, x) = book[sd][x].orders
    BY <2>3 DEF Line
  <2>5. id \in ToSet(book[sd][x].orders)
    BY <2>2, <2>3, <2>4 DEF ToSet
  <2> QED
    BY <2>3, <2>5 DEF Listed
<1> QED
  BY <1>1, <1>2

LEMMA OrderFacts ==
  ASSUME TypeOK, NEW id \in OrderIDs, orders[id] # NoOrder
  PROVE  /\ orders[id] \in Order
         /\ orders[id].price \in Prices
         /\ orders[id].quantity \in 0 .. MAX_QUANTITY
         /\ orders[id].quantity \in Nat
         /\ orders[id].side \in Sides
         /\ orders[id].timestamp \in Nat
BY LimitsAssumption DEF TypeOK, Order

\* An order in a line is filed there.
LEMMA LineHolds ==
  ASSUME GoInv, NEW sd \in Sides, NEW x \in Prices, NEW id,
         InLine(id, Line(sd, x))
  PROVE  /\ id \in OrderIDs /\ id \in Listed /\ orders[id] # NoOrder
         /\ orders[id].side = sd /\ orders[id].price = x
         /\ orders[id].quantity > 0 /\ x \in Levels(sd)
<1>1. BookType /\ ListedAreKnown
  BY DEF GoInv
<1>2. PICK i \in 1 .. Len(Line(sd, x)) : Line(sd, x)[i] = id
  BY DEF InLine
<1>3. id \in OrderIDs /\ Len(Line(sd, x)) > 0
  BY <1>1, <1>2, LineFacts
<1>4. x \in Levels(sd)
  BY <1>1, <1>3, LineFacts
<1> QED
  BY <1>1, <1>2, <1>3, <1>4, ListedMeans DEF ListedAreKnown

LEMMA ListedFacts ==
  ASSUME GoInv, NEW id \in Listed
  PROVE  /\ id \in OrderIDs /\ orders[id] # NoOrder
         /\ orders[id].side \in Sides
         /\ orders[id].price \in Levels(orders[id].side)
         /\ orders[id].price \in Prices
         /\ InLine(id, Line(orders[id].side, orders[id].price))
         /\ orders[id].quantity > 0
         /\ ~Idle => id # call.taker
<1>1. BookType /\ TakerIsPrivate
  BY DEF GoInv
<1>2. PICK sd \in Sides : \E x \in Prices : InLine(id, Line(sd, x))
  BY <1>1, ListedMeans
<1>3. PICK x \in Prices : InLine(id, Line(sd, x))
  BY <1>2
<1>4. /\ id \in OrderIDs /\ orders[id] # NoOrder
      /\ orders[id].side = sd /\ orders[id].price = x
      /\ orders[id].quantity > 0 /\ x \in Levels(sd)
  BY <1>3, LineHolds
<1> QED
  BY <1>1, <1>3, <1>4 DEF TakerIsPrivate

\* An order is in one place only.
LEMMA OnePlace ==
  ASSUME GoInv, NEW id \in Listed,
         NEW S, NEW P, S = orders[id].side, P = orders[id].price
  PROVE  /\ \E at \in 1 .. Len(Line(S, P)) :
              \A i \in 1 .. Len(Line(S, P)) : Line(S, P)[i] = id <=> i = at
         /\ \A sd \in Sides : \A x \in Prices : ~(sd = S /\ x = P) =>
              \A i \in 1 .. Len(Line(sd, x)) : Line(sd, x)[i] # id
<1>1. TypeOK /\ BookType /\ TimePriority
  BY DEF GoInv
<1>2. S \in Sides /\ P \in Prices /\ InLine(id, Line(S, P)) /\ id \in OrderIDs
  BY ListedFacts
<1>3. PICK line : line = Line(S, P)
  OBVIOUS
<1>4. PICK at \in 1 .. Len(line) : line[at] = id
  BY <1>2, <1>3 DEF InLine
<1>5. orders[id].timestamp \in Nat
  BY <1>1, ListedFacts, OrderFacts
<1>6. Len(line) \in Nat
  BY <1>1, <1>2, <1>3, LineFacts
<1>7. ASSUME NEW i \in 1 .. Len(line), line[i] = id
      PROVE  i = at
  <2>1. \A k, l \in 1 .. Len(line) :
          k < l => orders[line[k]].timestamp < orders[line[l]].timestamp
    BY <1>1, <1>2, <1>3 DEF TimePriority
  <2>2. ~(i < at) /\ ~(at < i)
    BY <1>4, <1>5, <1>7, <2>1
  <2> QED
    BY <1>6, <2>2
<1>8. ASSUME NEW sd \in Sides, NEW x \in Prices, ~(sd = S /\ x = P),
             NEW i \in 1 .. Len(Line(sd, x)), Line(sd, x)[i] = id
      PROVE  FALSE
  <2>1. InLine(id, Line(sd, x))
    BY <1>8 DEF InLine
  <2> QED
    BY <1>8, <2>1, LineHolds
<1> QED
  BY <1>3, <1>4, <1>7, <1>8

\* The front of a level.
LEMMA FrontFacts ==
  ASSUME GoInv, NEW sd \in Sides, NEW x \in Levels(sd), NEW id,
         id = Head(Line(sd, x))
  PROVE  /\ x \in Prices /\ InLine(id, Line(sd, x))
         /\ id \in OrderIDs /\ id \in Listed /\ orders[id] # NoOrder
         /\ orders[id].side = sd /\ orders[id].price = x
         /\ orders[id].quantity > 0 /\ orders[id].quantity \in Nat
<1>1. TypeOK /\ BookType
  BY DEF GoInv
<1>2. /\ Line(sd, x) \in Seq(OrderIDs) /\ Line(sd, x) # << >>
      /\ x \in Prices
  BY <1>1, LineFacts DEF BookType
<1>3. 1 \in 1 .. Len(Line(sd, x)) /\ Line(sd, x)[1] = id
  BY <1>2
<1>4. InLine(id, Line(sd, x))
  BY <1>3 DEF InLine
<1> QED
  BY <1>1, <1>2, <1>4, LineHolds, OrderFacts

LEMMA TakerFacts ==
  ASSUME GoInv, ~Idle
  PROVE  /\ call.taker \in OrderIDs /\ call.taker \notin Listed
         /\ orders[call.taker] # NoOrder /\ Taker = orders[call.taker]
         /\ Taker \in Order
         /\ Taker.side \in Sides /\ Opposite(Taker.side) \in Sides
         /\ Taker.side # Opposite(Taker.side)
         /\ Taker.price \in Prices
         /\ Taker.quantity \in 0 .. MAX_QUANTITY /\ Taker.quantity \in Nat
         /\ Taker.timestamp \in Nat
<1>1. /\ call.taker \in OrderIDs /\ call.taker \notin Listed
      /\ orders[call.taker] # NoOrder /\ Taker = orders[call.taker]
  BY DEF GoInv, TakerIsPrivate, Taker
<1>2. TypeOK
  BY DEF GoInv
<1> QED
  BY <1>1, <1>2, OrderFacts, SideFacts

LEMMA CallbackFacts ==
  ASSUME GoInv, InCallback
  PROVE  /\ ~Idle /\ ~Matching
         /\ call.maker \in OrderIDs /\ call.maker \in Listed
         /\ call.maker # call.taker
         /\ orders[call.maker] # NoOrder /\ Maker = orders[call.maker]
         /\ Maker.side \in Sides /\ Maker.side = Opposite(Taker.side)
         /\ Maker.price \in Levels(Maker.side) /\ Maker.price \in Prices
         /\ IsBest(Maker.side, Maker.price)
         /\ Head(Line(Maker.side, Maker.price)) = call.maker
         /\ Maker.quantity \in Nat /\ Maker.quantity > 0
         /\ call.quantity \in Nat
         /\ call.quantity <= Maker.quantity /\ call.quantity <= Taker.quantity
<1>1. TypeOK /\ MakerIsInFront /\ ~Idle /\ ~Matching
  BY DEF GoInv, InCallback, Idle, Matching
<1>2. PICK S, P : S = Maker.side /\ P = Maker.price
  OBVIOUS
<1>3. /\ call.maker \in OrderIDs /\ Maker # NoOrder /\ Maker = orders[call.maker]
      /\ S = Opposite(Taker.side) /\ IsBest(S, P)
      /\ Head(Line(S, P)) = call.maker
      /\ call.quantity <= Maker.quantity /\ call.quantity <= Taker.quantity
  BY <1>1, <1>2 DEF MakerIsInFront, Maker
<1>4. S \in Sides /\ P \in Levels(S)
  BY <1>1, <1>3, TakerFacts DEF IsBest
<1>5. /\ P \in Prices /\ call.maker \in Listed
      /\ orders[call.maker].quantity > 0 /\ orders[call.maker].quantity \in Nat
  BY <1>3, <1>4, FrontFacts
<1>6. call.quantity \in Nat
  BY <1>1, LimitsAssumption DEF TypeOK
<1>7. call.maker # call.taker
  BY <1>1, <1>5, TakerFacts
<1> QED
  BY <1>1, <1>2, <1>3, <1>4, <1>5, <1>6, <1>7


-----------------------------------------------------------------------------
(***************************************************************************)
(* What every step of the book keeps.                                      *)
(***************************************************************************)
\* The order of an id keeps its place and is not used up.
StaysFiled(id) ==
  /\ orders'[id] # NoOrder
  /\ orders'[id].side = orders[id].side
  /\ orders'[id].price = orders[id].price
  /\ orders'[id].timestamp = orders[id].timestamp
  /\ orders'[id].quantity > 0

\* The order of an id comes to the end of the line of S and P.
ComesLast(id, out, S, P) ==
  /\ id \in OrderIDs /\ orders'[id] # NoOrder
  /\ orders'[id].side = S /\ orders'[id].price = P
  /\ orders'[id].quantity > 0
  /\ \A other \in Listed \ out :
       orders[other].timestamp < orders'[id].timestamp

LEMMA ListedStep ==
  ASSUME BookType, NEW out, NEW in, NEW S \in Sides, NEW P \in Prices, NEW d,
         BookStep(out, in, S, P, d), in \cap out = {}
  PROVE  Listed' = (Listed \ out) \cup in
<1>1. \A id : id \in Listed'
                <=> \E sd \in Sides : \E x \in Prices : InLine(id, LineNext(sd, x))
  <2>1. (BookType => \A id : id \in Listed
           <=> \E sd \in Sides : \E x \in Prices : InLine(id, Line(sd, x)))'
    BY ListedMeans, PTL
  <2>2. \A sd, x, id : InLine(id, Line(sd, x))' = InLine(id, LineNext(sd, x))
    BY LinePrimed DEF InLine
  <2> QED
    BY <2>1, <2>2 DEF BookStep
<1>2. ASSUME NEW id \in Listed'
      PROVE  id \in (Listed \ out) \cup in
  <2>1. PICK sd \in Sides, x \in Prices : InLine(id, LineNext(sd, x))
    BY <1>1
  <2>2. PICK i \in 1 .. Len(LineNext(sd, x)) : LineNext(sd, x)[i] = id
    BY <2>1 DEF InLine
  <2>3. /\ id \notin out
        /\ \/ id \in in
           \/ \E k \in 1 .. Len(Line(sd, x)) : Line(sd, x)[k] = id
    <3>1. Moved(Line(sd, x), LineNext(sd, x), out,
                IF sd = S /\ x = P THEN in ELSE {})
      BY DEF BookStep
    <3> QED
      BY <2>2, <3>1 DEF Moved
  <2> QED
    BY <2>3, ListedMeans DEF InLine
<1>3. ASSUME NEW id \in Listed \ out
      PROVE  id \in Listed'
  <2>1. PICK sd \in Sides, x \in Prices : InLine(id, Line(sd, x))
    BY ListedMeans
  <2>2. PICK k \in 1 .. Len(Line(sd, x)) : Line(sd, x)[k] = id
    BY <2>1 DEF InLine
  <2>3. \E i \in 1 .. Len(LineNext(sd, x)) : LineNext(sd, x)[i] = id
    <3>1. Moved(Line(sd, x), LineNext(sd, x), out,
                IF sd = S /\ x = P THEN in ELSE {})
      BY DEF BookStep
    <3> QED
      BY <2>2, <3>1 DEF Moved
  <2> QED
    BY <1>1, <2>3 DEF InLine
<1>4. ASSUME NEW id \in in
      PROVE  id \in Listed'
  BY <1>1 DEF BookStep
<1> QED
  BY <1>2, <1>3, <1>4

LEMMA LinesStep ==
  ASSUME GoInv, NEW out, NEW in, NEW S \in Sides, NEW P \in Prices, NEW d,
         BookStep(out, in, S, P, d),
         \A id \in Listed \ out : StaysFiled(id),
         \A id \in in : ComesLast(id, out, S, P)
  PROVE  ListedAreKnown' /\ TimePriority'
<1>1. BookType /\ ListedAreKnown /\ TimePriority
  BY DEF GoInv
<1>2. ASSUME NEW sd \in Sides, NEW x \in Prices,
             NEW k \in 1 .. Len(Line(sd, x)), Line(sd, x)[k] \notin out
      PROVE  /\ Line(sd, x)[k] \in Listed \ out
             /\ StaysFiled(Line(sd, x)[k])
             /\ orders[Line(sd, x)[k]].side = sd
             /\ orders[Line(sd, x)[k]].price = x
  <2>1. InLine(Line(sd, x)[k], Line(sd, x))
    BY DEF InLine
  <2> QED
    BY <1>2, <2>1, LineHolds
<1>3. ASSUME NEW sd \in Sides, NEW x \in Prices,
             NEW i \in 1 .. Len(LineNext(sd, x))
      PROVE  LET o == orders'[LineNext(sd, x)[i]] IN
               o # NoOrder /\ o.side = sd /\ o.price = x /\ o.quantity > 0
  <2>1. PICK id : id = LineNext(sd, x)[i]
    OBVIOUS
  <2>2. /\ id \notin out
        /\ \/ sd = S /\ x = P /\ id \in in
           \/ \E k \in 1 .. Len(Line(sd, x)) : Line(sd, x)[k] = id
    <3>1. Moved(Line(sd, x), LineNext(sd, x), out,
                IF sd = S /\ x = P THEN in ELSE {})
      BY DEF BookStep
    <3> QED
      BY <2>1, <3>1 DEF Moved
  <2>3. CASE sd = S /\ x = P /\ id \in in
    BY <2>1, <2>3 DEF ComesLast
  <2>4. CASE \E k \in 1 .. Len(Line(sd, x)) : Line(sd, x)[k] = id
    BY <1>2, <2>1, <2>2, <2>4 DEF StaysFiled
  <2> QED
    BY <2>2, <2>3, <2>4
<1>4. ASSUME NEW sd \in Sides, NEW x \in Prices,
             NEW i \in 1 .. Len(LineNext(sd, x)),
             NEW j \in 1 .. Len(LineNext(sd, x)), i < j
      PROVE  orders'[LineNext(sd, x)[i]].timestamp
               < orders'[LineNext(sd, x)[j]].timestamp
  <2>1. PICK a, b : a = LineNext(sd, x)[i] /\ b = LineNext(sd, x)[j]
    OBVIOUS
  <2>2. /\ a \notin out /\ b \notin out
        /\ \E k \in 1 .. Len(Line(sd, x)) : Line(sd, x)[k] = a
        /\ \/ sd = S /\ x = P /\ b \in in
           \/ \E k, l \in 1 .. Len(Line(sd, x)) :
                k < l /\ a = Line(sd, x)[k] /\ b = Line(sd, x)[l]
    <3>1. Moved(Line(sd, x), LineNext(sd, x), out,
                IF sd = S /\ x = P THEN in ELSE {})
      BY DEF BookStep
    <3> QED
      BY SMTT(20), <1>4, <2>1, <3>1 DEF Moved
  <2>3. a \in Listed \ out /\ orders'[a].timestamp = orders[a].timestamp
    BY <1>2, <2>2 DEF StaysFiled
  <2>4. CASE sd = S /\ x = P /\ b \in in
    BY <2>1, <2>3, <2>4 DEF ComesLast
  <2>5. ASSUME NEW k \in 1 .. Len(Line(sd, x)), NEW l \in 1 .. Len(Line(sd, x)),
               k < l, a = Line(sd, x)[k], b = Line(sd, x)[l]
        PROVE  orders'[a].timestamp < orders'[b].timestamp
    <3>1. orders'[b].timestamp = orders[b].timestamp
      BY <1>2, <2>2, <2>5 DEF StaysFiled
    <3>2. orders[a].timestamp < orders[b].timestamp
      BY <1>1, <2>5 DEF TimePriority
    <3> QED
      BY <2>3, <3>1, <3>2
  <2> QED
    BY <2>1, <2>2, <2>4, <2>5
<1>5. ListedAreKnown'
  BY <1>3, LinePrimed DEF ListedAreKnown
<1>6. TimePriority'
  BY <1>4, LinePrimed DEF TimePriority
<1> QED
  BY <1>5, <1>6

\* No level appears but the one something comes to.
LEMMA LevelsStep ==
  ASSUME NEW out, NEW in, NEW S \in Sides, NEW P \in Prices, NEW d,
         BookType, BookStep(out, in, S, P, d)
  PROVE  \A sd \in Sides : \A x \in DOMAIN book'[sd] :
           x \in Prices /\ (x \in Levels(sd) \/ (in # {} /\ sd = S /\ x = P))
<1> SUFFICES ASSUME NEW sd \in Sides, NEW x \in DOMAIN book'[sd]
             PROVE  /\ x \in Prices
                    /\ x \in Levels(sd) \/ (in # {} /\ sd = S /\ x = P)
  OBVIOUS
<1>1. /\ x \in Prices /\ book'[sd][x] \in Level
      /\ book'[sd][x].orders # << >>
  BY DEF BookStep, BookType, Levels
<1>2. PICK left : left = LineNext(sd, x) /\ left \in Seq(OrderIDs)
                  /\ left # << >>
  BY <1>1 DEF LineNext, Level
<1>3. 1 \in 1 .. Len(left)
  BY <1>2
<1>4. Moved(Line(sd, x), left, out, IF sd = S /\ x = P THEN in ELSE {})
  BY <1>1, <1>2 DEF BookStep
<1>5. \/ sd = S /\ x = P /\ in # {}
      \/ \E k \in 1 .. Len(Line(sd, x)) : Line(sd, x)[k] = left[1]
  <2>1. \/ left[1] \in (IF sd = S /\ x = P THEN in ELSE {})
        \/ \E k \in 1 .. Len(Line(sd, x)) : Line(sd, x)[k] = left[1]
    BY <1>3, <1>4 DEF Moved
  <2> QED
    BY <2>1
<1>6. (\E k \in 1 .. Len(Line(sd, x)) : Line(sd, x)[k] = left[1])
        => Len(Line(sd, x)) # 0
  BY <1>1, LineFacts
<1>7. Len(Line(sd, x)) # 0 => x \in Levels(sd)
  BY <1>1, LineFacts
<1> QED
  BY <1>1, <1>5, <1>6, <1>7

LEMMA StaysUncrossed ==
  ASSUME GoInv, NEW out, NEW S \in Sides, NEW P \in Prices, NEW d,
         BookStep(out, {}, S, P, d)
  PROVE  NotCrossed'
<1>1. BookType /\ NotCrossed
  BY DEF GoInv
<1>2. \A sd \in Sides : \A x \in DOMAIN book'[sd] : x \in Levels(sd)
  BY <1>1, LevelsStep
<1> QED
  BY <1>1, <1>2, SideFacts DEF NotCrossed, Levels

\* Nothing moves while the book is not touched.
LEMMA UntouchedBook ==
  ASSUME GoInv, UNCHANGED book
  PROVE  /\ BookType' /\ NotCrossed' /\ Listed' = Listed
         /\ (\A id \in Listed : StaysFiled(id)) => ListedAreKnown' /\ TimePriority'
<1>1. BookType /\ NotCrossed
  BY DEF GoInv
<1>2. BookType' /\ NotCrossed' /\ Listed' = Listed
  BY <1>1 DEF BookType, NotCrossed, Listed, Levels
<1>3. ASSUME \A id \in Listed : StaysFiled(id)
      PROVE  ListedAreKnown' /\ TimePriority'
  <2>1. CASE Prices = {}
    BY <2>1 DEF ListedAreKnown, TimePriority, Prices
  <2>2. ASSUME NEW P \in Prices
        PROVE  ListedAreKnown' /\ TimePriority'
    <3>1. BookStep({}, {}, "BUY", P, 0)
      BY <1>1, SameBookStep
    <3> QED
      BY <1>3, <2>2, <3>1, SideFacts, LinesStep
  <2> QED
    BY <2>1, <2>2
<1> QED
  BY <1>2, <1>3

LEMMA TypeStep ==
  ASSUME TypeOK, BookType',
         orders' \in [OrderIDs -> Order \cup {NoOrder}],
         closed' \in BOOLEAN, trade_callback' \in BOOLEAN,
         call' \in [at : {"idle", "matching", "callback"},
                    taker : OrderIDs \cup {NoOrder},
                    maker : OrderIDs \cup {NoOrder},
                    quantity : 0 .. MAX_QUANTITY],
         now' \in Nat, result' \in ErrorCodes
  PROVE  TypeOK'
<1>1. /\ DOMAIN book' = Sides
      /\ \A sd \in Sides :
           /\ DOMAIN book'[sd] \subseteq Prices
           /\ \A x \in DOMAIN book'[sd] :
                /\ book'[sd][x].orders \in Seq(OrderIDs)
                /\ book'[sd][x].total_quantity \in 0 .. QuantityModulus - 1
  BY DEF BookType, Levels, Level
<1> QED
  BY <1>1 DEF TypeOK, Levels

LEMMA CallFacts ==
  ASSUME TypeOK
  PROVE  /\ call = [at |-> call.at, taker |-> call.taker,
                    maker |-> call.maker, quantity |-> call.quantity]
         /\ IdleCall \in [at : {"idle", "matching", "callback"},
                          taker : OrderIDs \cup {NoOrder},
                          maker : OrderIDs \cup {NoOrder},
                          quantity : 0 .. MAX_QUANTITY]
         /\ IdleCall.at = "idle" /\ IdleCall.taker = NoOrder
         /\ IdleCall.maker = NoOrder /\ IdleCall.quantity = 0
         /\ call.taker \in OrderIDs \cup {NoOrder}
BY LimitsAssumption DEF TypeOK, IdleCall

-----------------------------------------------------------------------------
(***************************************************************************)
(* What the actions do.                                                    *)
(***************************************************************************)
LEMMA RemoveEffect ==
  ASSUME GoInv, NEW id \in OrderIDs, orders[id] # NoOrder, NEW q \in Nat,
         book' = RemoveOrderFromBook(id, orders[id], q)
  PROVE  /\ id \in Listed =>
              BookStep({id}, {}, orders[id].side, orders[id].price, -q)
         /\ id \notin Listed => UNCHANGED book
<1>1. TypeOK /\ BookType
  BY DEF GoInv
<1>2. PICK o, S, P : o = orders[id] /\ S = o.side /\ P = o.price
  OBVIOUS
<1>3. S \in Sides /\ P \in Prices
  BY <1>1, <1>2, OrderFacts
<1>4. ASSUME id \in Listed
      PROVE  BookStep({id}, {}, S, P, -q)
  <2>1. P \in Levels(S)
    BY <1>2, <1>4, ListedFacts
  <2>2. \E at \in 1 .. Len(Line(S, P)) :
          \A i \in 1 .. Len(Line(S, P)) : Line(S, P)[i] = id <=> i = at
    BY <1>2, <1>4, OnePlace
  <2>3. \A sd \in Sides : \A x \in Prices : ~(sd = S /\ x = P) =>
          \A i \in 1 .. Len(Line(sd, x)) : Line(sd, x)[i] # id
    BY <1>2, <1>4, OnePlace
  <2>4. book' = RemoveOrderFromBook(id, o, q)
    BY <1>2
  <2>5. S = o.side /\ P = o.price
    BY <1>2
  <2> QED
    BY <1>1, <1>3, <2>1, <2>2, <2>3, <2>4, <2>5, RemoveStep
<1>5. ASSUME id \notin Listed
      PROVE  book' = book
  <2>1. ~InLine(id, Line(S, P))
    BY <1>1, <1>3, <1>5, ListedMeans
  <2>2. \A i \in 1 .. Len(Line(S, P)) : Line(S, P)[i] # id
    BY <2>1 DEF InLine
  <2> QED
    BY <1>1, <1>2, <1>3, <2>2, RemoveNothing
<1> QED
  BY <1>2, <1>4, <1>5

SettleStep(tk, mk, q) ==
  /\ InCallback
  /\ tk = call.taker /\ mk = call.maker /\ q = call.quantity
  /\ tk \in OrderIDs /\ tk \notin Listed /\ mk \in Listed /\ mk # tk
  /\ q \in Nat /\ q <= orders[mk].quantity /\ q <= orders[tk].quantity
  /\ orders' \in [OrderIDs -> Order \cup {NoOrder}]
  /\ orders'[tk] = [orders[tk] EXCEPT !.quantity = @ - q]
  /\ orders'[tk] \in Order
  /\ \A id \in OrderIDs \ {tk, mk} : orders'[id] = orders[id]
  /\ \/ /\ orders[mk].quantity = q
        /\ orders'[mk] = NoOrder
        /\ BookStep({mk}, {}, orders[mk].side, orders[mk].price, -q)
        /\ Listed' = Listed \ {mk}
     \/ /\ orders[mk].quantity # q
        /\ orders'[mk] = [orders[mk] EXCEPT !.quantity = @ - q]
        /\ orders'[mk] \in Order /\ orders'[mk].quantity > 0
        /\ BookStep({}, {}, orders[mk].side, orders[mk].price, -q)
        /\ Listed' = Listed
  /\ call' = NextTurn
  /\ UNCHANGED <<closed, trade_callback, now, result>>

LEMMA OrderCharged ==
  ASSUME NEW o \in Order, NEW q \in Nat, q <= o.quantity
  PROVE  [o EXCEPT !.quantity = @ - q] \in Order
<1>1. o.quantity - q \in 0 .. MAX_QUANTITY
  BY LimitsAssumption DEF Order
<1> QED
  BY <1>1 DEF Order

LEMMA SettleEffect ==
  ASSUME GoInv, Settle
  PROVE  SettleStep(call.taker, call.maker, call.quantity)
<1>1. TypeOK /\ BookType
  BY DEF GoInv
<1>2. PICK tk, mk, q : tk = call.taker /\ mk = call.maker /\ q = call.quantity
  OBVIOUS
<1>3. PICK S, P : S = orders[mk].side /\ P = orders[mk].price
  OBVIOUS
<1>4. /\ InCallback /\ ~Idle
      /\ mk \in OrderIDs /\ mk \in Listed /\ mk # tk
      /\ orders[mk] # NoOrder /\ Maker = orders[mk]
      /\ orders[mk].quantity \in Nat
      /\ S \in Sides /\ P \in Levels(S) /\ P \in Prices
      /\ q \in Nat /\ q <= orders[mk].quantity /\ q <= orders[tk].quantity
  BY <1>2, <1>3, CallbackFacts DEF Settle, Taker
<1>5. tk \in OrderIDs /\ tk \notin Listed /\ orders[tk] \in Order
  BY <1>2, <1>4, TakerFacts
<1>6. orders[mk] \in Order
  BY <1>1, <1>4, OrderFacts
<1>7. [orders[tk] EXCEPT !.quantity = @ - q] \in Order
  BY <1>4, <1>5, OrderCharged
<1>8. orders \in [OrderIDs -> Order \cup {NoOrder}]
  BY <1>1 DEF TypeOK
<1>9. CASE Maker.quantity = q
  <2>1. /\ orders' = [orders EXCEPT ![tk].quantity = @ - q, ![mk] = NoOrder]
        /\ book' = RemoveOrderFromBook(mk, orders[mk], q)
    BY <1>2, <1>4, <1>9 DEF Settle
  <2>2. /\ orders'[tk] = [orders[tk] EXCEPT !.quantity = @ - q]
        /\ orders'[mk] = NoOrder
        /\ \A id \in OrderIDs \ {tk, mk} : orders'[id] = orders[id]
        /\ DOMAIN orders' = OrderIDs
    BY <1>4, <1>5, <1>8, <2>1
  <2>3. orders' \in [OrderIDs -> Order \cup {NoOrder}]
    <3>1. orders' = [id \in OrderIDs |-> orders'[id]]
      BY <1>8, <2>1
    <3>2. \A id \in OrderIDs : orders'[id] \in Order \cup {NoOrder}
      BY <1>7, <1>8, <2>2
    <3> QED
      BY <3>1, <3>2, Zenon
  <2>4. BookStep({mk}, {}, S, P, -q)
    BY <1>3, <1>4, <2>1, RemoveEffect
  <2>5. Listed' = Listed \ {mk}
    BY <1>1, <1>4, <2>4, ListedStep
  <2> QED
    BY <1>2, <1>3, <1>4, <1>5, <1>7, <1>9, <2>2, <2>3, <2>4, <2>5, Zenon
       DEF SettleStep, Settle
<1>10. CASE Maker.quantity # q
  <2>1. /\ orders' = [orders EXCEPT ![tk].quantity = @ - q,
                                    ![mk].quantity = @ - q]
        /\ book' = WithLevel(S, P, [book[S][P] EXCEPT
                                      !.total_quantity = Minus(@, q)])
    BY <1>2, <1>3, <1>4, <1>10 DEF Settle
  <2>2. /\ orders'[tk] = [orders[tk] EXCEPT !.quantity = @ - q]
        /\ orders'[mk] = [orders[mk] EXCEPT !.quantity = @ - q]
        /\ \A id \in OrderIDs \ {tk, mk} : orders'[id] = orders[id]
        /\ DOMAIN orders' = OrderIDs
    BY <1>4, <1>5, <1>8, <2>1
  <2>3. orders'[mk] \in Order /\ orders'[mk].quantity > 0
    <3>1. orders'[mk] \in Order
      BY <1>4, <1>6, <2>2, OrderCharged
    <3>2. orders'[mk].quantity = orders[mk].quantity - q
      BY <1>6, <2>2 DEF Order
    <3> QED
      BY <1>4, <1>10, <3>1, <3>2
  <2>4. orders' \in [OrderIDs -> Order \cup {NoOrder}]
    <3>1. orders' = [id \in OrderIDs |-> orders'[id]]
      BY <1>8, <2>1
    <3>2. \A id \in OrderIDs : orders'[id] \in Order \cup {NoOrder}
      BY <1>7, <1>8, <2>2, <2>3
    <3> QED
      BY <3>1, <3>2, Zenon
  <2>5. BookStep({}, {}, S, P, -q)
    BY <1>1, <1>4, <2>1, ChargeStep
  <2>6. Listed' = Listed
    BY <1>1, <1>4, <2>5, ListedStep
  <2> QED
    BY <1>2, <1>3, <1>4, <1>5, <1>7, <1>10, <2>2, <2>3, <2>4, <2>5, <2>6, Zenon
       DEF SettleStep, Settle
<1> QED
  BY <1>9, <1>10

AcceptStep(r, id, o) ==
  /\ Idle /\ Refusal(r) = "SUCCESS" /\ now < MaxTime
  /\ id = r.id /\ id \in OrderIDs /\ orders[id] = NoOrder /\ id \notin Listed
  /\ o = [price |-> PriceToFixed(r.price), quantity |-> r.quantity,
          side |-> r.side, timestamp |-> now]
  /\ o \in Order /\ o.quantity > 0
  /\ orders' \in [OrderIDs -> Order \cup {NoOrder}]
  /\ orders'[id] = o
  /\ \A other \in OrderIDs \ {id} : orders'[other] = orders[other]
  /\ call' = [at |-> "matching", taker |-> id, maker |-> NoOrder, quantity |-> 0]
  /\ Listed' = Listed
  /\ now' = now + 1
  /\ UNCHANGED <<book, closed, trade_callback, result>>

LEMMA AcceptEffect ==
  ASSUME GoInv, NEW r \in Requests, AddAccepted(r)
  PROVE  \E id, o : AcceptStep(r, id, o)
<1>1. TypeOK /\ BookType
  BY DEF GoInv
<1>2. PICK id, o :
        /\ id = r.id
        /\ o = [price |-> PriceToFixed(r.price), quantity |-> r.quantity,
                side |-> r.side, timestamp |-> now]
  OBVIOUS
<1>3. /\ Refusal(r) = "SUCCESS" /\ orders' = [orders EXCEPT ![id] = o]
      /\ Idle /\ now < MaxTime
      /\ call' = [IdleCall EXCEPT !.at = "matching", !.taker = id]
      /\ now' = now + 1
      /\ UNCHANGED <<book, closed, trade_callback, result>>
  BY <1>2 DEF AddAccepted
<1>4. /\ r.quantity \in Quantities /\ ~BadPrice(r.price) /\ r.side \in Sides
      /\ orders[id] = NoOrder /\ id \in OrderIDs /\ r.price \in Int
  BY <1>2, <1>3, AcceptedFacts, RequestsAssumption
<1>5. PriceToFixed(r.price) \in Prices
  BY <1>4, RoundedIsPrice
<1>6. o \in Order /\ o.quantity > 0
  <2>1. r.quantity \in 0 .. MAX_QUANTITY /\ r.quantity > 0 /\ now \in Nat
    BY <1>1, <1>4, LimitsAssumption DEF Quantities, TypeOK
  <2> QED
    BY <1>2, <1>4, <1>5, <2>1 DEF Order
<1>7. id \notin Listed
  BY <1>4, ListedFacts
<1>8. /\ orders' \in [OrderIDs -> Order \cup {NoOrder}]
      /\ orders'[id] = o
      /\ \A other \in OrderIDs \ {id} : orders'[other] = orders[other]
  BY <1>1, <1>3, <1>4, <1>6 DEF TypeOK
<1>9. call' = [at |-> "matching", taker |-> id, maker |-> NoOrder, quantity |-> 0]
  BY <1>3 DEF IdleCall
<1>10. Listed' = Listed
  BY <1>3, UntouchedBook
<1>11. AcceptStep(r, id, o)
  BY <1>2, <1>3, <1>4, <1>6, <1>7, <1>8, <1>9, <1>10, Zenon DEF AcceptStep
<1> QED
  BY <1>11

LEMMA Smaller ==
  ASSUME NEW a \in Nat, NEW b \in Nat
  PROVE  Min({a, b}) \in {a, b} /\ Min({a, b}) <= a /\ Min({a, b}) <= b
<1>1. \E x \in {a, b} : \A y \in {a, b} : x <= y
  OBVIOUS
<1> QED
  BY <1>1 DEF Min

ReportStep(mk, q) ==
  /\ ~Idle /\ ~InCallback /\ Taker.quantity > 0
  /\ mk \in OrderIDs /\ mk \in Listed /\ orders[mk] # NoOrder
  /\ orders[mk].side = Opposite(Taker.side)
  /\ IsBest(orders[mk].side, orders[mk].price)
  /\ Head(Line(orders[mk].side, orders[mk].price)) = mk
  /\ Crosses(Taker.side, Taker.price, orders[mk].price)
  /\ q \in {Taker.quantity, orders[mk].quantity}
  /\ q \in 0 .. MAX_QUANTITY
  /\ q <= Taker.quantity /\ q <= orders[mk].quantity
  /\ call' = [at |-> "callback", taker |-> call.taker, maker |-> mk,
              quantity |-> q]
  /\ UNCHANGED <<orders, book, closed, trade_callback, now, result>>

LEMMA ReportEffect ==
  ASSUME GoInv, ExecuteTrade
  PROVE  \E mk, q : ReportStep(mk, q)
<1>1. TypeOK /\ BookType
  BY DEF GoInv
<1>2. PICK S : S = Opposite(Taker.side)
  OBVIOUS
<1>3. PICK P \in Levels(S) :
        /\ IsBest(S, P) /\ Crosses(Taker.side, Taker.price, P)
        /\ LET maker == Head(book[S][P].orders)
           IN  call' = [call EXCEPT !.at = "callback", !.maker = maker,
                          !.quantity = Min({Taker.quantity,
                                            orders[maker].quantity})]
  BY <1>2 DEF ExecuteTrade
<1>4. PICK mk, q : /\ mk = Head(Line(S, P))
                   /\ q = Min({Taker.quantity, orders[mk].quantity})
  OBVIOUS
<1>5. /\ ~Idle /\ ~InCallback /\ Taker.quantity > 0
      /\ UNCHANGED <<orders, book, closed, trade_callback, now, result>>
  BY DEF ExecuteTrade, Matching, Idle, InCallback
<1>6. S \in Sides /\ Taker.quantity \in 0 .. MAX_QUANTITY /\ Taker.quantity \in Nat
  BY <1>2, <1>5, TakerFacts
<1>7. /\ mk \in OrderIDs /\ mk \in Listed /\ orders[mk] # NoOrder
      /\ orders[mk].side = S /\ orders[mk].price = P
      /\ orders[mk].quantity \in Nat
  BY <1>4, <1>6, FrontFacts
<1>8. /\ q \in {Taker.quantity, orders[mk].quantity}
      /\ q <= Taker.quantity /\ q <= orders[mk].quantity
  BY <1>4, <1>6, <1>7, Smaller
<1>9. q \in 0 .. MAX_QUANTITY
  BY <1>6, <1>7, <1>8, LimitsAssumption
<1>10. call' = [at |-> "callback", taker |-> call.taker, maker |-> mk,
                quantity |-> q]
  <2>1. Head(book[S][P].orders) = mk
    BY <1>3, <1>4 DEF Line
  <2>2. call' = [call EXCEPT !.at = "callback", !.maker = mk, !.quantity = q]
    BY <1>3, <1>4, <2>1
  <2>3. PICK c : c = call /\ c = [at |-> c.at, taker |-> c.taker,
                                  maker |-> c.maker, quantity |-> c.quantity]
    BY <1>1, CallFacts
  <2> QED
    BY <2>2, <2>3
<1>11. ReportStep(mk, q)
  BY <1>2, <1>3, <1>4, <1>5, <1>7, <1>8, <1>9, <1>10, Zenon DEF ReportStep
<1> QED
  BY <1>11

LEMMA BestExists ==
  ASSUME NEW side \in Sides, BookType, Levels(side) # {}
  PROVE  \E p \in Levels(side) : IsBest(side, p)
<1>1. /\ MIN_PRICE \in Nat /\ MAX_PRICE \in Nat
      /\ Levels(side) \subseteq MIN_PRICE .. MAX_PRICE
  BY LimitsAssumption DEF BookType, Prices
<1>2. CASE side = "SELL"
  <2>1. Levels(side) \in SUBSET Nat
    BY <1>1
  <2>2. PICK p \in Levels(side) : \A q \in Levels(side) : p <= q
    BY <2>1, Least
  <2> QED
    BY <1>2, <2>2 DEF IsBest, AtLeastAsGood
<1>3. CASE side = "BUY"
  <2> DEFINE Under == {MAX_PRICE - p : p \in Levels(side)}
  <2>1. Under \in SUBSET Nat /\ Under # {}
    BY <1>1
  <2>2. PICK b \in Under : \A c \in Under : b <= c
    BY <2>1, Least
  <2>3. PICK p \in Levels(side) : b = MAX_PRICE - p
    BY <2>2
  <2>4. \A q \in Levels(side) : q <= p
    BY <1>1, <2>2, <2>3
  <2> QED
    BY <1>3, <2>4 DEF IsBest, AtLeastAsGood
<1> QED
  BY <1>2, <1>3 DEF Sides

\* When the loop ends with quantity left, no opposite level crosses at all.
LEMMA NothingCrosses ==
  ASSUME GoInv, CannotTrade, NEW q \in Levels(Opposite(Taker.side))
  PROVE  ~Crosses(Taker.side, Taker.price, q)
<1>1. /\ BookType /\ ~Idle
      /\ Taker.side \in Sides /\ Opposite(Taker.side) \in Sides
      /\ Taker.price \in Prices
  BY TakerFacts DEF GoInv, CannotTrade, Matching, Idle
<1>2. PICK sd, limit : sd = Taker.side /\ limit = Taker.price
  OBVIOUS
<1>3. PICK p \in Levels(Opposite(sd)) : IsBest(Opposite(sd), p)
  BY <1>1, <1>2, BestExists
<1>4. ~Crosses(sd, limit, p)
  BY <1>2, <1>3 DEF CannotTrade
<1>5. AtLeastAsGood(Opposite(sd), p, q)
  BY <1>2, <1>3 DEF IsBest
<1>6. p \in Int /\ q \in Int /\ limit \in Int /\ sd \in Sides
  <2>1. Opposite(sd) \in Sides /\ q \in Levels(Opposite(sd)) /\ sd \in Sides
    BY <1>1, <1>2
  <2>2. Levels(Opposite(sd)) \subseteq Prices /\ Prices \subseteq Int
    <3>1. \A n \in Nat : n \in Int
      OBVIOUS
    <3> QED
      BY <1>1, <2>1, <3>1, PricesAreNumbers DEF BookType
  <2>3. limit \in Prices
    BY <1>1, <1>2
  <2> QED
    BY <1>3, <2>1, <2>2, <2>3
<1>7. ~Crosses(sd, limit, q)
  BY <1>4, <1>5, <1>6 DEF Crosses, AtLeastAsGood, Opposite, Sides
<1> QED
  BY <1>2, <1>7

RestStep(tk, S, P) ==
  /\ CannotTrade /\ ~Idle /\ ~InCallback
  /\ tk = call.taker /\ S = orders[tk].side /\ P = orders[tk].price
  /\ tk \in OrderIDs /\ tk \notin Listed /\ orders[tk] # NoOrder
  /\ S \in Sides /\ P \in Prices /\ orders[tk].quantity > 0
  /\ BookStep({}, {tk}, S, P, orders[tk].quantity)
  /\ Listed' = Listed \cup {tk}
  /\ call' = IdleCall /\ result' = "SUCCESS"
  /\ UNCHANGED <<orders, closed, trade_callback, now>>

LEMMA RestEffect ==
  ASSUME GoInv, Rest
  PROVE  \E tk, S, P : RestStep(tk, S, P)
<1>1. BookType
  BY DEF GoInv
<1>2. PICK tk, o, S, P : tk = call.taker /\ o = orders[tk]
                         /\ S = o.side /\ P = o.price
  OBVIOUS
<1>3. ~Idle /\ ~InCallback /\ Taker = o /\ CannotTrade
  BY <1>2 DEF Rest, CannotTrade, Matching, Idle, InCallback, Taker
<1>4. /\ tk \in OrderIDs /\ tk \notin Listed /\ o # NoOrder
      /\ S \in Sides /\ P \in Prices /\ o.quantity \in Nat /\ o.quantity > 0
  BY <1>2, <1>3, TakerFacts DEF CannotTrade
<1>5. book' = AddOrderToBook(tk, o)
  BY <1>2, <1>3 DEF Rest
<1>6. BookStep({}, {tk}, o.side, o.price, o.quantity)
  <2>1. o.side \in Sides /\ o.price \in Prices
    BY <1>2, <1>4
  <2> QED
    BY <1>1, <1>4, <1>5, <2>1, AddStep
<1>7. BookStep({}, {tk}, S, P, o.quantity)
  BY <1>2, <1>6
<1>8. Listed' = (Listed \ {}) \cup {tk}
  <2>1. {tk} \cap {} = {}
    OBVIOUS
  <2> QED
    BY <1>1, <1>4, <1>7, <2>1, ListedStep
<1>9. Listed' = Listed \cup {tk}
  BY <1>8
<1>10. /\ call' = IdleCall /\ result' = "SUCCESS"
       /\ UNCHANGED <<orders, closed, trade_callback, now>>
  BY DEF Rest
<1>11. /\ S = orders[tk].side /\ P = orders[tk].price
       /\ orders[tk] # NoOrder /\ orders[tk].quantity > 0
       /\ BookStep({}, {tk}, S, P, orders[tk].quantity)
  BY <1>2, <1>4, <1>7
<1>12. RestStep(tk, S, P)
  BY <1>2, <1>3, <1>4, <1>9, <1>10, <1>11, Zenon DEF RestStep
<1> QED
  BY <1>12

FilledStep(tk) ==
  /\ ~Idle /\ ~InCallback
  /\ tk = call.taker /\ tk \in OrderIDs /\ tk \notin Listed
  /\ orders[tk] # NoOrder /\ Taker.quantity = 0
  /\ orders' \in [OrderIDs -> Order \cup {NoOrder}]
  /\ orders'[tk] = NoOrder
  /\ \A id \in OrderIDs \ {tk} : orders'[id] = orders[id]
  /\ Listed' = Listed
  /\ call' = IdleCall /\ result' = "SUCCESS"
  /\ UNCHANGED <<book, closed, trade_callback, now>>

LEMMA FilledEffect ==
  ASSUME GoInv, Filled
  PROVE  FilledStep(call.taker)
<1>1. TypeOK
  BY DEF GoInv
<1>2. PICK tk : tk = call.taker
  OBVIOUS
<1>3. /\ ~Idle /\ ~InCallback /\ Taker.quantity = 0
      /\ orders' = [orders EXCEPT ![tk] = NoOrder]
      /\ call' = IdleCall /\ result' = "SUCCESS"
      /\ UNCHANGED <<book, closed, trade_callback, now>>
  BY <1>2 DEF Filled, Matching, Idle, InCallback
<1>4. tk \in OrderIDs /\ tk \notin Listed /\ orders[tk] # NoOrder
  BY <1>2, <1>3, TakerFacts
<1>5. /\ orders' \in [OrderIDs -> Order \cup {NoOrder}]
      /\ orders'[tk] = NoOrder
      /\ \A id \in OrderIDs \ {tk} : orders'[id] = orders[id]
  BY <1>1, <1>3, <1>4 DEF TypeOK
<1>6. Listed' = Listed
  BY <1>3, UntouchedBook
<1> QED
  BY <1>2, <1>3, <1>4, <1>5, <1>6, Zenon DEF FilledStep

\* CancelOrder of an order that is known, in the book or not.
CancelStep(id) ==
  /\ Idle /\ id \in OrderIDs /\ orders[id] # NoOrder
  /\ orders' \in [OrderIDs -> Order \cup {NoOrder}]
  /\ orders'[id] = NoOrder
  /\ \A other \in OrderIDs \ {id} : orders'[other] = orders[other]
  /\ \/ id \in Listed /\ BookStep({id}, {}, orders[id].side, orders[id].price,
                                  -orders[id].quantity)
     \/ id \notin Listed /\ UNCHANGED book
  /\ Listed' = Listed \ {id}
  /\ result' = "SUCCESS"
  /\ UNCHANGED <<closed, trade_callback, call, now>>

LEMMA CancelEffect ==
  ASSUME GoInv, NEW id \in OrderIDs, CancelOrder(id), orders[id] # NoOrder
  PROVE  CancelStep(id)
<1>1. TypeOK /\ BookType
  BY DEF GoInv
<1>2. PICK q, S, P : q = orders[id].quantity /\ S = orders[id].side
                     /\ P = orders[id].price
  OBVIOUS
<1>3. q \in Nat /\ S \in Sides /\ P \in Prices
  BY <1>1, <1>2, OrderFacts
<1>4. /\ Idle /\ result' = "SUCCESS"
      /\ book' = RemoveOrderFromBook(id, orders[id], q)
      /\ orders' = [orders EXCEPT ![id] = NoOrder]
      /\ UNCHANGED <<closed, trade_callback, call, now>>
  BY <1>2 DEF CancelOrder
<1>5. /\ orders' \in [OrderIDs -> Order \cup {NoOrder}]
      /\ orders'[id] = NoOrder
      /\ \A other \in OrderIDs \ {id} : orders'[other] = orders[other]
  BY <1>1, <1>4 DEF TypeOK
<1>6. CASE id \in Listed
  <2>1. BookStep({id}, {}, S, P, -q)
    BY <1>2, <1>3, <1>4, <1>6, RemoveEffect
  <2>2. Listed' = Listed \ {id}
    <3>1. PICK d : d = -q
      OBVIOUS
    <3>2. BookStep({id}, {}, S, P, d) /\ {} \cap {id} = {}
      BY <2>1, <3>1
    <3> QED
      BY <1>1, <1>3, <3>2, ListedStep
  <2>3. BookStep({id}, {}, orders[id].side, orders[id].price,
                 -orders[id].quantity)
    BY <1>2, <2>1, Zenon
  <2> QED
    BY <1>4, <1>5, <1>6, <2>2, <2>3, Zenon DEF CancelStep
<1>7. CASE id \notin Listed
  <2>1. book' = book
    BY <1>3, <1>4, <1>7, RemoveEffect
  <2>2. Listed' = Listed \ {id}
    BY <1>7, <2>1, UntouchedBook
  <2> QED
    BY <1>4, <1>5, <1>7, <2>1, <2>2, Zenon DEF CancelStep
<1> QED
  BY <1>6, <1>7

-----------------------------------------------------------------------------
(***************************************************************************)
(* Every action keeps the invariant.                                       *)
(***************************************************************************)
LEMMA IdleNow ==
  ASSUME call' = IdleCall
  PROVE  /\ Idle' /\ ~InCallback'
         /\ MakerIsInFront' /\ TakerIsPrivate' /\ IdleIsClean'
<1>1. IdleCall.at = "idle"
  BY DEF IdleCall
<1>2. Idle' /\ ~InCallback'
  BY <1>1 DEF Idle, InCallback
<1>3. (IdleCall = call)'
  BY DEF IdleCall
<1> QED
  BY <1>2, <1>3 DEF MakerIsInFront, TakerIsPrivate, IdleIsClean

LEMMA AcceptInv ==
  ASSUME GoInv, NEW r \in Requests, AddAccepted(r)
  PROVE  GoInv'
<1>1. TypeOK /\ BookType /\ ListedAreKnown /\ TakerIsYoungest
  BY DEF GoInv
<1>2. PICK id, o : AcceptStep(r, id, o)
  BY AcceptEffect
<1>3. /\ Idle /\ id \in OrderIDs /\ orders[id] = NoOrder /\ id \notin Listed
      /\ o \in Order /\ o.quantity > 0 /\ o.timestamp = now
      /\ orders' \in [OrderIDs -> Order \cup {NoOrder}]
      /\ orders'[id] = o
      /\ \A other \in OrderIDs \ {id} : orders'[other] = orders[other]
      /\ call' = [at |-> "matching", taker |-> id, maker |-> NoOrder,
                  quantity |-> 0]
      /\ Listed' = Listed
      /\ now' = now + 1
      /\ UNCHANGED <<book, closed, trade_callback, result>>
  BY <1>2 DEF AcceptStep
<1>4. ~Idle' /\ ~InCallback' /\ call'.taker = id /\ now \in Nat
  BY <1>1, <1>3 DEF Idle, InCallback, TypeOK
<1>5. \A other \in Listed : StaysFiled(other)
  BY <1>3, ListedFacts DEF StaysFiled
<1>6. BookType' /\ NotCrossed' /\ ListedAreKnown' /\ TimePriority'
  BY <1>3, <1>5, UntouchedBook
<1>7. TypeOK'
  <2>1. call' \in [at : {"idle", "matching", "callback"},
                   taker : OrderIDs \cup {NoOrder},
                   maker : OrderIDs \cup {NoOrder}, quantity : 0 .. MAX_QUANTITY]
    BY <1>3, LimitsAssumption
  <2>2. /\ closed' \in BOOLEAN /\ trade_callback' \in BOOLEAN
        /\ result' \in ErrorCodes /\ now' \in Nat
    BY <1>1, <1>3 DEF TypeOK
  <2> QED
    BY <1>1, <1>3, <1>6, <2>1, <2>2, TypeStep
<1>8. MakerIsInFront' /\ IdleIsClean'
  BY <1>4 DEF MakerIsInFront, IdleIsClean
<1>9. TakerIsPrivate'
  BY <1>3, <1>4, NoOrderAssumption DEF TakerIsPrivate, Taker
<1>10. TakerIsYoungest'
  <2>1. ASSUME NEW other \in OrderIDs, orders'[other] # NoOrder
        PROVE  /\ orders'[other].timestamp < now'
               /\ other # id => orders'[other].timestamp < orders'[id].timestamp
    <3>1. CASE other = id
      BY <1>3, <1>4, <3>1
    <3>2. CASE other # id
      <4>1. orders[other] # NoOrder /\ orders'[other] = orders[other]
        BY <1>3, <2>1, <3>2
      <4>2. orders[other].timestamp < now /\ orders[other].timestamp \in Nat
        BY <1>1, <4>1, OrderFacts DEF TakerIsYoungest
      <4> QED
        BY <1>3, <1>4, <4>1, <4>2
    <3> QED
      BY <3>1, <3>2
  <2> QED
    BY <1>4, <2>1 DEF TakerIsYoungest, Taker
<1> QED
  BY <1>6, <1>7, <1>8, <1>9, <1>10 DEF GoInv

LEMMA ReportInv ==
  ASSUME GoInv, ExecuteTrade
  PROVE  GoInv'
<1>1. TypeOK /\ BookType /\ ListedAreKnown /\ TakerIsYoungest
  BY DEF GoInv
<1>2. PICK mk, q : ReportStep(mk, q)
  BY ReportEffect
<1>3. /\ ~Idle /\ mk \in OrderIDs /\ q \in 0 .. MAX_QUANTITY
      /\ call' = [at |-> "callback", taker |-> call.taker, maker |-> mk,
                  quantity |-> q]
      /\ UNCHANGED <<orders, book, closed, trade_callback, now, result>>
  BY <1>2 DEF ReportStep
<1>4. /\ ~Idle' /\ InCallback' /\ call'.taker = call.taker
      /\ call'.maker = mk /\ call'.quantity = q
  BY <1>3 DEF Idle, InCallback
<1>5. \A id \in Listed : StaysFiled(id)
  BY <1>3, ListedFacts DEF StaysFiled
<1>6. BookType' /\ NotCrossed' /\ ListedAreKnown' /\ TimePriority'
      /\ Listed' = Listed
  BY <1>3, <1>5, UntouchedBook
<1>7. TypeOK'
  <2>1. call' \in [at : {"idle", "matching", "callback"},
                   taker : OrderIDs \cup {NoOrder},
                   maker : OrderIDs \cup {NoOrder}, quantity : 0 .. MAX_QUANTITY]
    BY <1>1, <1>3, CallFacts
  <2>2. /\ closed' \in BOOLEAN /\ trade_callback' \in BOOLEAN
        /\ result' \in ErrorCodes /\ now' \in Nat
        /\ orders' \in [OrderIDs -> Order \cup {NoOrder}]
    BY <1>1, <1>3 DEF TypeOK
  <2> QED
    BY <1>1, <1>6, <2>1, <2>2, TypeStep
<1>8. MakerIsInFront'
  <2>1. Maker' = orders[mk] /\ Taker' = Taker
    BY <1>3, <1>4 DEF Maker, Taker
  <2>2. IsBest(Maker.side, Maker.price)'
    BY <1>2, <1>3, <2>1 DEF ReportStep, IsBest, Levels
  <2>3. (Head(Line(Maker.side, Maker.price)) = call.maker)'
    BY <1>2, <1>3, <1>4, <2>1 DEF ReportStep, Line, Levels
  <2>4. /\ mk \in OrderIDs /\ orders[mk] # NoOrder
        /\ orders[mk].side = Opposite(Taker.side)
        /\ q \in {orders[mk].quantity, Taker.quantity}
        /\ q <= orders[mk].quantity /\ q <= Taker.quantity
    BY <1>2 DEF ReportStep
  <2> QED
    BY <1>4, <2>1, <2>2, <2>3, <2>4 DEF MakerIsInFront
<1>9. TakerIsPrivate' /\ IdleIsClean'
  BY <1>3, <1>4, <1>6, TakerFacts DEF TakerIsPrivate, IdleIsClean, Taker
<1>10. TakerIsYoungest'
  BY <1>1, <1>3, <1>4 DEF TakerIsYoungest, Taker
<1> QED
  BY <1>6, <1>7, <1>8, <1>9, <1>10 DEF GoInv

LEMMA ChargedFields ==
  ASSUME NEW o \in Order, NEW q,
         NEW c, c = [o EXCEPT !.quantity = @ - q]
  PROVE  /\ c.side = o.side /\ c.price = o.price
         /\ c.timestamp = o.timestamp /\ c.quantity = o.quantity - q
BY DEF Order

LEMMA SettleInv ==
  ASSUME GoInv, Settle
  PROVE  GoInv'
<1>1. TypeOK /\ BookType /\ TakerIsYoungest
  BY DEF GoInv
<1>2. PICK tk, mk, q : SettleStep(tk, mk, q)
  BY SettleEffect
<1>3. /\ InCallback /\ ~Idle /\ tk = call.taker
      /\ tk \in OrderIDs /\ tk \notin Listed /\ mk \in Listed /\ mk # tk
      /\ q \in Nat /\ orders' \in [OrderIDs -> Order \cup {NoOrder}]
      /\ orders'[tk] = [orders[tk] EXCEPT !.quantity = @ - q]
      /\ orders'[tk] \in Order
      /\ \A id \in OrderIDs \ {tk, mk} : orders'[id] = orders[id]
      /\ call' = NextTurn
      /\ UNCHANGED <<closed, trade_callback, now, result>>
  BY <1>2 DEF SettleStep, InCallback, Idle
<1>4. /\ ~Idle' /\ ~InCallback' /\ call'.taker = tk
      /\ call' = [at |-> "matching", taker |-> tk, maker |-> NoOrder,
                  quantity |-> 0]
  <2>1. PICK c : c = call /\ c = [at |-> c.at, taker |-> c.taker,
                                  maker |-> c.maker, quantity |-> c.quantity]
    BY <1>1, CallFacts
  <2>2. call' = [at |-> "matching", taker |-> tk, maker |-> NoOrder,
                 quantity |-> 0]
    BY <1>3, <2>1 DEF NextTurn
  <2> QED
    BY <2>2 DEF Idle, InCallback
<1>5. PICK S, P : /\ S = orders[mk].side /\ P = orders[mk].price
                  /\ S \in Sides /\ P \in Prices /\ mk \in OrderIDs
                  /\ orders[mk] \in Order
  BY <1>1, <1>3, ListedFacts, OrderFacts
<1>6. orders[tk] \in Order
  BY <1>3, TakerFacts
<1>7. \A id \in Listed \ {mk} : StaysFiled(id)
  BY <1>3, ListedFacts DEF StaysFiled
<1>8. /\ BookType' /\ NotCrossed' /\ ListedAreKnown' /\ TimePriority'
      /\ Listed' \subseteq Listed
      /\ orders'[mk] # NoOrder => orders'[mk].timestamp = orders[mk].timestamp
  <2>1. CASE orders[mk].quantity = q
    <3>1. /\ orders'[mk] = NoOrder /\ BookStep({mk}, {}, S, P, -q)
          /\ Listed' = Listed \ {mk}
      BY <1>2, <1>5, <2>1 DEF SettleStep
    <3>2. BookType'
      BY <3>1 DEF BookStep
    <3> QED
      BY <1>5, <1>7, <3>1, <3>2, LinesStep, StaysUncrossed
  <2>2. CASE orders[mk].quantity # q
    <3>1. /\ orders'[mk] = [orders[mk] EXCEPT !.quantity = @ - q]
          /\ orders'[mk] \in Order /\ orders'[mk].quantity > 0
          /\ BookStep({}, {}, S, P, -q)
          /\ Listed' = Listed
      BY <1>2, <1>5, <2>2 DEF SettleStep
    <3>2. BookType'
      BY <3>1 DEF BookStep
    <3>3. StaysFiled(mk) /\ orders'[mk].timestamp = orders[mk].timestamp
      BY <1>5, <3>1, ChargedFields, NoOrderAssumption DEF StaysFiled
    <3>4. \A id \in Listed \ {} : StaysFiled(id)
      BY <1>7, <3>3
    <3> QED
      BY <1>5, <3>1, <3>2, <3>3, <3>4, LinesStep, StaysUncrossed
  <2> QED
    BY <2>1, <2>2
<1>9. TypeOK'
  <2>1. call' \in [at : {"idle", "matching", "callback"},
                   taker : OrderIDs \cup {NoOrder},
                   maker : OrderIDs \cup {NoOrder}, quantity : 0 .. MAX_QUANTITY]
    BY <1>3, <1>4, LimitsAssumption
  <2>2. /\ closed' \in BOOLEAN /\ trade_callback' \in BOOLEAN
        /\ result' \in ErrorCodes /\ now' \in Nat
    BY <1>1, <1>3 DEF TypeOK
  <2> QED
    BY <1>1, <1>3, <1>8, <2>1, <2>2, TypeStep
<1>10. MakerIsInFront' /\ IdleIsClean'
  BY <1>4 DEF MakerIsInFront, IdleIsClean
<1>11. TakerIsPrivate'
  BY <1>3, <1>4, <1>8, NoOrderAssumption DEF TakerIsPrivate, Taker
<1>12. TakerIsYoungest'
  <2>1. orders'[tk].timestamp = orders[tk].timestamp
    BY <1>3, <1>6, ChargedFields
  <2>2. ASSUME NEW id \in OrderIDs, orders'[id] # NoOrder
        PROVE  /\ orders[id] # NoOrder
               /\ orders'[id].timestamp = orders[id].timestamp
    BY <1>3, <1>5, <1>6, <1>8, <2>1, <2>2, NoOrderAssumption
  <2> QED
    BY <1>1, <1>3, <1>4, <2>1, <2>2 DEF TakerIsYoungest, Taker
<1> QED
  BY <1>8, <1>9, <1>10, <1>11, <1>12 DEF GoInv

LEMMA PanicInv ==
  ASSUME GoInv, Panic
  PROVE  GoInv'
<1>1. TypeOK /\ TakerIsYoungest
  BY DEF GoInv
<1>2. /\ call' = IdleCall /\ result' = "UNKNOWN_ERROR"
      /\ UNCHANGED <<orders, book, closed, trade_callback, now>>
  BY DEF Panic
<1>3. \A id \in Listed : StaysFiled(id)
  BY <1>2, ListedFacts DEF StaysFiled
<1>4. BookType' /\ NotCrossed' /\ ListedAreKnown' /\ TimePriority'
  BY <1>2, <1>3, UntouchedBook
<1>5. /\ Idle' /\ MakerIsInFront' /\ TakerIsPrivate' /\ IdleIsClean'
  BY <1>2, IdleNow
<1>6. TypeOK'
  <2>1. /\ closed' \in BOOLEAN /\ trade_callback' \in BOOLEAN
        /\ result' \in ErrorCodes /\ now' \in Nat
        /\ orders' \in [OrderIDs -> Order \cup {NoOrder}]
    BY <1>1, <1>2 DEF TypeOK, ErrorCodes
  <2> QED
    BY <1>1, <1>2, <1>4, <2>1, CallFacts, TypeStep
<1>7. TakerIsYoungest'
  BY <1>1, <1>2, <1>5 DEF TakerIsYoungest
<1> QED
  BY <1>4, <1>5, <1>6, <1>7 DEF GoInv

\* What cannot trade does not cross either.
LEMMA RestInv ==
  ASSUME GoInv, Rest
  PROVE  GoInv'
<1>1. TypeOK /\ BookType /\ TakerIsYoungest /\ NotCrossed
  BY DEF GoInv
<1>2. PICK tk, S, P : RestStep(tk, S, P)
  BY RestEffect
<1>3. /\ CannotTrade /\ ~Idle
      /\ tk = call.taker /\ S = orders[tk].side /\ P = orders[tk].price
      /\ tk \in OrderIDs /\ tk \notin Listed /\ orders[tk] # NoOrder
      /\ S \in Sides /\ P \in Prices /\ orders[tk].quantity > 0
      /\ call' = IdleCall /\ result' = "SUCCESS"
      /\ UNCHANGED <<orders, closed, trade_callback, now>>
  BY <1>2 DEF RestStep
<1>4. PICK d : d = orders[tk].quantity /\ BookStep({}, {tk}, S, P, d)
  BY <1>2 DEF RestStep
<1>5. Taker.side = S /\ Taker.price = P /\ Taker = orders[tk]
  BY <1>3 DEF Taker
<1>6. BookType'
  BY <1>4 DEF BookStep
<1>7. ListedAreKnown' /\ TimePriority'
  <2>1. \A id \in Listed \ {} : StaysFiled(id)
    BY <1>3, ListedFacts DEF StaysFiled
  <2>2. ComesLast(tk, {}, S, P)
    <3>1. \A id \in Listed : orders[id].timestamp < orders[tk].timestamp
      BY <1>1, <1>3, <1>5, ListedFacts DEF TakerIsYoungest
    <3> QED
      BY <1>3, <3>1 DEF ComesLast
  <2>3. \A id \in {tk} : ComesLast(id, {}, S, P)
    BY <2>2
  <2> QED
    BY <1>3, <1>4, <2>1, <2>3, LinesStep
<1>8. NotCrossed'
  <2>1. \A sd \in Sides : \A x \in DOMAIN book'[sd] :
          x \in Prices /\ (x \in Levels(sd) \/ (sd = S /\ x = P))
    <3>1. PICK in, out : in = {tk} /\ out = {} /\ BookStep(out, in, S, P, d)
      BY <1>4
    <3>2. S \in Sides /\ P \in Prices
      BY <1>3
    <3>3. \A sd \in Sides : \A x \in DOMAIN book'[sd] :
            x \in Prices /\ (x \in Levels(sd) \/ (in # {} /\ sd = S /\ x = P))
      BY <1>1, <3>1, <3>2, LevelsStep
    <3> QED
      BY <3>1, <3>3
  <2>2. \A x \in Levels(Opposite(S)) : ~Crosses(S, P, x)
    BY <1>3, <1>5, NothingCrosses
  <2>3. ASSUME NEW b \in DOMAIN book'["BUY"], NEW a \in DOMAIN book'["SELL"]
        PROVE  b < a
    <3>1. b \in Int /\ a \in Int /\ P \in Int
      <4>1. b \in Prices /\ a \in Prices
        BY <2>1, <2>3, SideFacts
      <4> QED
        BY <1>3, <4>1, LimitsAssumption DEF Prices
    <3>2. CASE S = "BUY"
      <4>1. a \in Levels("SELL") /\ (b \in Levels("BUY") \/ b = P)
        BY <2>1, <2>3, <3>2, SideFacts
      <4>2. P < a
        <5>1. ~Crosses("BUY", P, a)
          BY <2>2, <3>2, <4>1 DEF Opposite
        <5> QED
          BY <3>1, <5>1 DEF Crosses
      <4> QED
        BY <1>1, <4>1, <4>2 DEF NotCrossed
    <3>3. CASE S = "SELL"
      <4>1. b \in Levels("BUY") /\ (a \in Levels("SELL") \/ a = P)
        BY <2>1, <2>3, <3>3, SideFacts
      <4>2. b < P
        <5>1. ~Crosses("SELL", P, b)
          BY <2>2, <3>3, <4>1 DEF Opposite
        <5> QED
          BY <3>1, <5>1 DEF Crosses
      <4> QED
        BY <1>1, <4>1, <4>2 DEF NotCrossed
    <3> QED
      BY <1>3, <3>2, <3>3 DEF Sides
  <2> QED
    BY <2>3 DEF NotCrossed, Levels
<1>9. Idle' /\ MakerIsInFront' /\ TakerIsPrivate' /\ IdleIsClean'
  BY <1>3, IdleNow
<1>10. TypeOK'
  <2>1. /\ closed' \in BOOLEAN /\ trade_callback' \in BOOLEAN
        /\ result' \in ErrorCodes /\ now' \in Nat
        /\ orders' \in [OrderIDs -> Order \cup {NoOrder}]
    BY <1>1, <1>3 DEF TypeOK, ErrorCodes
  <2> QED
    BY <1>1, <1>3, <1>6, <2>1, CallFacts, TypeStep
<1>11. TakerIsYoungest'
  BY <1>1, <1>3, <1>9 DEF TakerIsYoungest
<1> QED
  BY <1>6, <1>7, <1>8, <1>9, <1>10, <1>11 DEF GoInv

LEMMA FilledInv ==
  ASSUME GoInv, Filled
  PROVE  GoInv'
<1>1. TypeOK /\ TakerIsYoungest
  BY DEF GoInv
<1>2. PICK tk : FilledStep(tk)
  BY FilledEffect
<1>3. /\ tk \in OrderIDs /\ tk \notin Listed
      /\ orders' \in [OrderIDs -> Order \cup {NoOrder}]
      /\ orders'[tk] = NoOrder
      /\ \A id \in OrderIDs \ {tk} : orders'[id] = orders[id]
      /\ call' = IdleCall /\ result' = "SUCCESS"
      /\ UNCHANGED <<book, closed, trade_callback, now>>
  BY <1>2 DEF FilledStep
<1>4. \A id \in Listed : StaysFiled(id)
  BY <1>3, ListedFacts DEF StaysFiled
<1>5. BookType' /\ NotCrossed' /\ ListedAreKnown' /\ TimePriority'
  BY <1>3, <1>4, UntouchedBook
<1>6. Idle' /\ MakerIsInFront' /\ TakerIsPrivate' /\ IdleIsClean'
  BY <1>3, IdleNow
<1>7. TypeOK'
  <2>1. /\ closed' \in BOOLEAN /\ trade_callback' \in BOOLEAN
        /\ result' \in ErrorCodes /\ now' \in Nat
    BY <1>1, <1>3 DEF TypeOK, ErrorCodes
  <2> QED
    BY <1>1, <1>3, <1>5, <2>1, CallFacts, TypeStep
<1>8. TakerIsYoungest'
  <2>1. \A id \in OrderIDs : orders'[id] # NoOrder => orders'[id] = orders[id]
    BY <1>3
  <2> QED
    BY <1>1, <1>3, <1>6, <2>1 DEF TakerIsYoungest
<1> QED
  BY <1>5, <1>6, <1>7, <1>8 DEF GoInv

LEMMA CancelInv ==
  ASSUME GoInv, NEW id \in OrderIDs, CancelOrder(id)
  PROVE  GoInv'
<1>1. TypeOK /\ BookType /\ TakerIsYoungest /\ IdleIsClean
  BY DEF GoInv
<1>2. Idle /\ call' = IdleCall
  BY <1>1 DEF CancelOrder, IdleIsClean
<1>3. Idle' /\ MakerIsInFront' /\ TakerIsPrivate' /\ IdleIsClean'
  BY <1>2, IdleNow
<1>4. SUFFICES /\ BookType' /\ NotCrossed' /\ ListedAreKnown' /\ TimePriority'
               /\ orders' \in [OrderIDs -> Order \cup {NoOrder}]
               /\ result' \in ErrorCodes
               /\ \A other \in OrderIDs : orders'[other] # NoOrder =>
                    orders'[other] = orders[other]
  <2>1. /\ closed' \in BOOLEAN /\ trade_callback' \in BOOLEAN
        /\ now' \in Nat /\ now' = now
    BY <1>1 DEF TypeOK, CancelOrder
  <2>2. TypeOK'
    BY <1>1, <1>2, <1>4, <2>1, CallFacts, TypeStep
  <2>3. TakerIsYoungest'
    BY <1>1, <1>3, <1>4, <2>1 DEF TakerIsYoungest
  <2> QED
    BY <1>3, <1>4, <2>2, <2>3 DEF GoInv
<1>5. CASE orders[id] = NoOrder
  <2>1. UNCHANGED <<orders, book>> /\ result' \in ErrorCodes
    BY <1>5 DEF CancelOrder, ErrorCodes
  <2>2. \A other \in Listed : StaysFiled(other)
    BY <2>1, ListedFacts DEF StaysFiled
  <2> QED
    BY <1>1, <2>1, <2>2, UntouchedBook DEF TypeOK
<1>6. CASE orders[id] # NoOrder
  <2>1. CancelStep(id)
    BY <1>6, CancelEffect
  <2>2. /\ orders' \in [OrderIDs -> Order \cup {NoOrder}]
        /\ orders'[id] = NoOrder
        /\ \A other \in OrderIDs \ {id} : orders'[other] = orders[other]
        /\ result' \in ErrorCodes
    BY <2>1 DEF CancelStep, ErrorCodes
  <2>3. \A other \in Listed \ {id} : StaysFiled(other)
    BY <2>2, ListedFacts DEF StaysFiled
  <2>4. BookType' /\ NotCrossed' /\ ListedAreKnown' /\ TimePriority'
    <3>1. CASE id \in Listed
      <4>1. PICK S, P, d : /\ S = orders[id].side /\ P = orders[id].price
                           /\ BookStep({id}, {}, S, P, d)
        BY <2>1, <3>1 DEF CancelStep
      <4>2. S \in Sides /\ P \in Prices
        BY <3>1, <4>1, ListedFacts
      <4>3. BookType'
        BY <4>1 DEF BookStep
      <4> QED
        BY <2>3, <4>1, <4>2, <4>3, LinesStep, StaysUncrossed
    <3>2. CASE id \notin Listed
      BY <2>1, <2>3, <3>2, UntouchedBook DEF CancelStep
    <3> QED
      BY <3>1, <3>2
  <2> QED
    BY <2>2, <2>4
<1> QED
  BY <1>5, <1>6

\* Nothing but the answer, the callback or the flag changes.
LEMMA QuietInv ==
  ASSUME GoInv, UNCHANGED <<orders, book, call, now>>,
         closed' \in BOOLEAN, trade_callback' \in BOOLEAN,
         result' \in ErrorCodes
  PROVE  GoInv'
<1>1. TypeOK /\ BookType /\ MakerIsInFront /\ TakerIsPrivate
      /\ TakerIsYoungest /\ IdleIsClean
  BY DEF GoInv
<1>2. \A id \in Listed : StaysFiled(id)
  BY ListedFacts DEF StaysFiled
<1>3. BookType' /\ NotCrossed' /\ ListedAreKnown' /\ TimePriority'
      /\ Listed' = Listed
  BY <1>2, UntouchedBook
<1>4. TypeOK'
  BY <1>1, <1>3, TypeStep DEF TypeOK
<1>5. MakerIsInFront'
  BY <1>1 DEF MakerIsInFront, InCallback, Maker, Taker, IsBest, Line, Levels
<1>6. TakerIsPrivate' /\ TakerIsYoungest' /\ IdleIsClean'
  BY <1>1, <1>3 DEF TakerIsPrivate, TakerIsYoungest, IdleIsClean, Idle, Taker
<1> QED
  BY <1>3, <1>4, <1>5, <1>6 DEF GoInv

\* A book without levels.
LEMMA EmptyBook ==
  ASSUME book = [side \in Sides |-> [p \in {} |-> {}]]
  PROVE  /\ \A sd \in Sides : Levels(sd) = {}
         /\ \A sd \in Sides : \A x : Line(sd, x) = << >> /\ Total(sd, x) = 0
         /\ Listed = {} /\ BookType /\ ListedAreKnown /\ TimePriority
         /\ NotCrossed
<1>1. \A sd \in Sides : Levels(sd) = {}
  BY DEF Levels
<1>2. \A sd \in Sides : \A x : Line(sd, x) = << >> /\ Total(sd, x) = 0
  BY <1>1 DEF Line, Total
<1>3. Listed = {}
  BY <1>1 DEF Listed
<1>4. BookType
  BY <1>1 DEF BookType
<1>5. Len(<< >>) = 0 /\ 1 .. 0 = {}
  OBVIOUS
<1>6. ListedAreKnown /\ TimePriority
  BY <1>2, <1>5 DEF ListedAreKnown, TimePriority
<1>7. NotCrossed
  BY <1>1, SideFacts DEF NotCrossed
<1> QED
  BY <1>1, <1>2, <1>3, <1>4, <1>6, <1>7

LEMMA CloseInv ==
  ASSUME GoInv, Close
  PROVE  GoInv'
<1>1. TypeOK /\ IdleIsClean
  BY DEF GoInv
<1>2. /\ call' = IdleCall /\ closed' = TRUE
      /\ orders' = [id \in OrderIDs |-> NoOrder]
      /\ book' = [side \in Sides |-> [p \in {} |-> {}]]
      /\ UNCHANGED <<trade_callback, now, result>>
  BY <1>1 DEF Close, IdleIsClean
<1>3. Idle' /\ MakerIsInFront' /\ TakerIsPrivate' /\ IdleIsClean'
  BY <1>2, IdleNow
<1>4. BookType' /\ ListedAreKnown' /\ TimePriority' /\ NotCrossed'
  <2>1. (book = [side \in Sides |-> [p \in {} |-> {}]] =>
           BookType /\ ListedAreKnown /\ TimePriority /\ NotCrossed)'
    BY EmptyBook, PTL
  <2> QED
    BY <1>2, <2>1
<1>5. TypeOK'
  <2>1. /\ closed' \in BOOLEAN /\ trade_callback' \in BOOLEAN
        /\ result' \in ErrorCodes /\ now' \in Nat
        /\ orders' \in [OrderIDs -> Order \cup {NoOrder}]
    BY <1>1, <1>2 DEF TypeOK
  <2> QED
    BY <1>1, <1>2, <1>4, <2>1, CallFacts, TypeStep
<1>6. TakerIsYoungest'
  BY <1>2 DEF TakerIsYoungest
<1> QED
  BY <1>3, <1>4, <1>5, <1>6 DEF GoInv

LEMMA InitInv ==
  ASSUME Init
  PROVE  GoInv
<1>1. BookType /\ ListedAreKnown /\ TimePriority /\ NotCrossed
      /\ \A sd \in Sides : Levels(sd) = {}
  BY EmptyBook DEF Init
<1>2. Idle /\ ~InCallback
  BY DEF Init, IdleCall, Idle, InCallback
<1>3. MakerIsInFront /\ TakerIsPrivate /\ TakerIsYoungest /\ IdleIsClean
  BY <1>2
     DEF Init, MakerIsInFront, TakerIsPrivate, TakerIsYoungest, IdleIsClean
<1>4. TypeOK
  <2>1. DOMAIN book = Sides
    BY <1>1 DEF BookType
  <2>2. call \in [at : {"idle", "matching", "callback"},
                  taker : OrderIDs \cup {NoOrder},
                  maker : OrderIDs \cup {NoOrder}, quantity : 0 .. MAX_QUANTITY]
    BY LimitsAssumption DEF Init, IdleCall
  <2> QED
    BY <1>1, <2>1, <2>2 DEF Init, TypeOK, ErrorCodes
<1> QED
  BY <1>1, <1>3, <1>4 DEF GoInv

LEMMA NextInv ==
  ASSUME GoInv, [Next]_vars
  PROVE  GoInv'
<1>1. TypeOK
  BY DEF GoInv
<1>2. ASSUME NEW r \in Requests, AddRejected(r)
      PROVE  GoInv'
  <2>1. result' \in ErrorCodes
    BY <1>2 DEF AddRejected, Refusal, ErrorCodes
  <2> QED
    BY <1>1, <1>2, <2>1, QuietInv DEF AddRejected, TypeOK
<1>3. ASSUME NEW r \in Requests, AddAccepted(r)
      PROVE  GoInv'
  BY <1>3, AcceptInv
<1>4. CASE Engine
  BY <1>4, ReportInv, SettleInv, RestInv, FilledInv DEF Engine
<1>5. CASE Panic
  BY <1>5, PanicInv
<1>6. ASSUME NEW id \in OrderIDs, CancelOrder(id)
      PROVE  GoInv'
  BY <1>6, CancelInv
<1>7. CASE SetTradeCallback
  BY <1>1, <1>7, QuietInv DEF SetTradeCallback, TypeOK
<1>8. CASE Close
  BY <1>8, CloseInv
<1>9. CASE UNCHANGED vars
  BY <1>1, <1>9, QuietInv DEF vars, TypeOK
<1> QED
  BY <1>2, <1>3, <1>4, <1>5, <1>6, <1>7, <1>8, <1>9 DEF Next

\* The invariant of the Go engine: the two maps agree, every list is in time
\* order and never empty, the book is never crossed between trades, a taker
\* is in no list until it rests, and the trade a callback sees is with the
\* front of the best level (engine.go:134-188, 310-465).
THEOREM GoEngineInvariant == Spec => []GoInv
<1>1. Init => GoInv
  BY InitInv
<1>2. GoInv /\ [Next]_vars => GoInv'
  BY NextInv
<1> QED
  BY <1>1, <1>2, PTL DEF Spec

\* The Go engine's state keeps its type, whatever panics.
THEOREM GoTypeCorrect == Spec => []TypeOK
<1>1. GoInv => TypeOK
  BY DEF GoInv
<1> QED
  BY <1>1, GoEngineInvariant, PTL

-----------------------------------------------------------------------------
(***************************************************************************)
(* The running totals are sums over the orders of their levels.            *)
(***************************************************************************)
Filed(sd, x) ==
  {id \in Listed : orders[id].side = sd /\ orders[id].price = x}

FiledNext(sd, x) ==
  {id \in Listed' : orders'[id].side = sd /\ orders'[id].price = x}

Remaining ==
  [id \in OrderIDs |-> IF orders[id] = NoOrder THEN 0 ELSE orders[id].quantity]

RemainingNext ==
  [id \in OrderIDs |-> IF orders'[id] = NoOrder THEN 0 ELSE orders'[id].quantity]

TotalsAddUp ==
  \A sd \in Sides : \A x \in Prices :
    Total(sd, x) = SumFunctionOnSet(Remaining, Filed(sd, x)) % QuantityModulus

LEMMA TotalsPrimed ==
  ASSUME \A sd \in Sides : \A x \in Prices :
           TotalNext(sd, x)
             = SumFunctionOnSet(RemainingNext, FiledNext(sd, x)) % QuantityModulus
  PROVE  TotalsAddUp'
<1>1. Remaining' = RemainingNext
  BY DEF Remaining, RemainingNext
<1>2. \A sd, x : Filed(sd, x)' = FiledNext(sd, x)
  BY DEF Filed, FiledNext
<1> QED
  BY <1>1, <1>2, LinePrimed DEF TotalsAddUp

LEMMA FiledFacts ==
  ASSUME GoInv, NEW sd \in Sides, NEW x \in Prices
  PROVE  /\ \A id : id \in Filed(sd, x) <=> InLine(id, Line(sd, x))
         /\ Filed(sd, x) \subseteq OrderIDs
         /\ IsFiniteSet(Filed(sd, x))
         /\ \A id \in Filed(sd, x) : /\ Remaining[id] = orders[id].quantity
                                     /\ Remaining[id] \in Nat
<1>1. TypeOK /\ BookType
  BY DEF GoInv
<1>2. \A id : id \in Filed(sd, x) <=> InLine(id, Line(sd, x))
  BY ListedFacts, LineHolds DEF Filed
<1>3. \A id \in Filed(sd, x) :
        id \in OrderIDs /\ orders[id] # NoOrder /\ orders[id].quantity \in Nat
  BY <1>1, ListedFacts, OrderFacts DEF Filed
<1>4. IsFiniteSet(Filed(sd, x))
  <2>1. PICK line : line = Line(sd, x) /\ Len(line) \in Nat
    BY <1>1, LineFacts
  <2>2. IsFiniteSet(1 .. Len(line))
    BY <2>1, FS_Interval
  <2>3. [i \in 1 .. Len(line) |-> line[i]]
          \in Surjection(1 .. Len(line), Filed(sd, x))
    BY <1>2, <2>1 DEF InLine, Surjection
  <2> QED
    BY <2>2, <2>3, FS_Surjection
<1> QED
  BY <1>2, <1>3, <1>4 DEF Remaining

\* For the next state.
LEMMA ListedStay ==
  ASSUME GoInv
  PROVE  /\ \A id \in Listed :
              /\ id \in OrderIDs /\ orders[id] # NoOrder
              /\ InLine(id, Line(orders[id].side, orders[id].price))
         /\ \A id \in OrderIDs :
              orders[id] # NoOrder => orders[id].quantity \in Nat
<1>1. TypeOK
  BY DEF GoInv
<1> QED
  BY <1>1, ListedFacts, OrderFacts

LEMMA ListedStayNext ==
  ASSUME GoInv'
  PROVE  /\ \A id \in Listed' :
              /\ id \in OrderIDs /\ orders'[id] # NoOrder
              /\ InLine(id, LineNext(orders'[id].side, orders'[id].price))
         /\ \A id \in OrderIDs :
              orders'[id] # NoOrder => orders'[id].quantity \in Nat
<1>1. (GoInv =>
         /\ \A id \in Listed :
              /\ id \in OrderIDs /\ orders[id] # NoOrder
              /\ InLine(id, Line(orders[id].side, orders[id].price))
         /\ \A id \in OrderIDs :
              orders[id] # NoOrder => orders[id].quantity \in Nat)'
  BY ListedStay, PTL
<1>2. \A id : InLine(id, Line(orders[id].side, orders[id].price))'
                = InLine(id, LineNext(orders'[id].side, orders'[id].price))
  BY DEF InLine, Line, LineNext, Levels
<1> QED
  BY <1>1, <1>2

LEMMA RestKept ==
  ASSUME NEW n \in Nat, NEW d \in Int
  PROVE  ((n % QuantityModulus) + d) % QuantityModulus
           = (n + d) % QuantityModulus
<1>1. PICK b \in Nat \ {0} : b = QuantityModulus
  BY LimitsAssumption
<1>2. n \in Int /\ d \in Int
  OBVIOUS
<1>3. ((n % b) + d) % b = (n + d) % b
  BY <1>2, RestOfSum, Zenon
<1> QED
  BY <1>1, <1>3

LEMMA KeptTotals ==
  ASSUME GoInv, TotalsAddUp, UNCHANGED book,
         \A id \in Listed : orders'[id] = orders[id]
  PROVE  TotalsAddUp'
<1>1. Listed' = Listed
  BY UntouchedBook
<1>2. ASSUME NEW sd \in Sides, NEW x \in Prices
      PROVE  TotalNext(sd, x)
               = SumFunctionOnSet(RemainingNext, FiledNext(sd, x))
                   % QuantityModulus
  <2>1. FiledNext(sd, x) = Filed(sd, x)
    BY <1>1 DEF Filed, FiledNext
  <2>2. \A id \in Filed(sd, x) : Remaining[id] = RemainingNext[id]
    BY FiledFacts DEF Filed, Remaining, RemainingNext
  <2>3. SumFunctionOnSet(Remaining, Filed(sd, x))
          = SumFunctionOnSet(RemainingNext, Filed(sd, x))
    BY <2>2, FiledFacts, SumSame
  <2>4. TotalNext(sd, x) = Total(sd, x)
    BY DEF Total, TotalNext, Levels
  <2> QED
    BY <2>1, <2>3, <2>4 DEF TotalsAddUp
<1> QED
  BY <1>2, TotalsPrimed

\* What an order adds to the total of its level.
Counts(id)     == IF id \in Listed THEN orders[id].quantity ELSE 0
CountsNext(id) == IF id \in Listed' THEN orders'[id].quantity ELSE 0

\* Of the listed orders only that of e changes, and it stays where it is.
OnlyChanges(e, S, P) ==
  /\ e \in OrderIDs
  /\ \A id \in OrderIDs \ {e} :
       /\ id \in Listed' <=> id \in Listed
       /\ id \in Listed => orders'[id] = orders[id]
  /\ e \in Listed => orders[e].side = S /\ orders[e].price = P
  /\ e \in Listed' => orders'[e].side = S /\ orders'[e].price = P

\* The sum at S and P changes by what the order of e adds less.
LEMMA SumChange ==
  ASSUME GoInv, GoInv', NEW e, NEW S \in Sides, NEW P \in Prices,
         OnlyChanges(e, S, P)
  PROVE  /\ Counts(e) \in Nat /\ CountsNext(e) \in Nat
         /\ SumFunctionOnSet(Remaining, Filed(S, P)) \in Nat
         /\ SumFunctionOnSet(RemainingNext, FiledNext(S, P))
              = (SumFunctionOnSet(Remaining, Filed(S, P)) - Counts(e))
                  + CountsNext(e)
<1>1. PICK rest : rest = Filed(S, P) \ {e}
  OBVIOUS
<1>2. /\ Filed(S, P) \subseteq OrderIDs /\ IsFiniteSet(Filed(S, P))
      /\ \A id \in Filed(S, P) : /\ Remaining[id] = orders[id].quantity
                                 /\ Remaining[id] \in Nat
  BY FiledFacts
<1>3. IsFiniteSet(rest) /\ e \notin rest /\ \A id \in rest : Remaining[id] \in Nat
  BY <1>1, <1>2, FS_Subset
<1>4. PICK n \in Nat : n = SumFunctionOnSet(Remaining, rest)
  BY <1>3, SumType
<1>5. /\ e \in OrderIDs
      /\ \A id \in OrderIDs \ {e} :
           /\ id \in Listed' <=> id \in Listed
           /\ id \in Listed => orders'[id] = orders[id]
      /\ e \in Listed => orders[e].side = S /\ orders[e].price = P
      /\ e \in Listed' => orders'[e].side = S /\ orders'[e].price = P
  BY DEF OnlyChanges
<1>6. /\ \A id \in Listed' : id \in OrderIDs /\ orders'[id] # NoOrder
      /\ \A id \in OrderIDs :
           orders'[id] # NoOrder => orders'[id].quantity \in Nat
  BY ListedStayNext
<1>7. /\ \A id \in Listed : id \in OrderIDs
      /\ e \in Listed => e \in Filed(S, P)
  BY <1>5, ListedFacts DEF Filed
<1>8. /\ Counts(e) \in Nat
      /\ SumFunctionOnSet(Remaining, Filed(S, P)) = n + Counts(e)
  <2>1. CASE e \in Listed
    <3>1. e \in Filed(S, P) /\ Counts(e) = Remaining[e] /\ Remaining[e] \in Nat
      BY <1>2, <1>7, <2>1 DEF Counts
    <3>2. SumFunctionOnSet(Remaining, Filed(S, P)) = Remaining[e] + n
      BY <1>1, <1>2, <1>4, <3>1, SumRemove
    <3> QED
      BY <3>1, <3>2
  <2>2. CASE e \notin Listed
    <3>1. Filed(S, P) = rest /\ Counts(e) = 0
      BY <1>1, <2>2 DEF Filed, Counts
    <3> QED
      BY <1>4, <3>1
  <2> QED
    BY <2>1, <2>2
<1>9. FiledNext(S, P) = IF e \in Listed' THEN rest \cup {e} ELSE rest
  BY <1>1, <1>5, <1>6, <1>7 DEF Filed, FiledNext
<1>10. \A id \in rest : RemainingNext[id] = Remaining[id]
  BY <1>1, <1>2, <1>5 DEF Filed, Remaining, RemainingNext
<1>11. SumFunctionOnSet(RemainingNext, rest) = n
  BY <1>3, <1>4, <1>10, SumSame
<1>12. /\ CountsNext(e) \in Nat
       /\ SumFunctionOnSet(RemainingNext, FiledNext(S, P)) = n + CountsNext(e)
  <2>1. CASE e \in Listed'
    <3>1. CountsNext(e) = RemainingNext[e] /\ RemainingNext[e] \in Nat
      BY <1>5, <1>6, <2>1 DEF CountsNext, RemainingNext
    <3>2. \A id \in rest \cup {e} : RemainingNext[id] \in Nat
      BY <1>3, <1>10, <3>1
    <3>3. SumFunctionOnSet(RemainingNext, rest \cup {e})
            = RemainingNext[e] + SumFunctionOnSet(RemainingNext, rest)
      BY <1>3, <3>2, SumAdd
    <3> QED
      BY <1>9, <1>11, <2>1, <3>1, <3>3
  <2>2. CASE e \notin Listed'
    BY <1>9, <1>11, <2>2 DEF CountsNext
  <2> QED
    BY <2>1, <2>2
<1> QED
  BY <1>8, <1>12

LEMMA TotalsStep ==
  ASSUME GoInv, GoInv', TotalsAddUp, NEW e, NEW S \in Sides, NEW P \in Prices,
         NEW out, NEW in, NEW d, BookStep(out, in, S, P, d),
         OnlyChanges(e, S, P), d = CountsNext(e) - Counts(e)
  PROVE  TotalsAddUp'
<1>1. QuantityModulus \in Nat \ {0}
  BY LimitsAssumption
<1>2. PICK a, b : a = Counts(e) /\ b = CountsNext(e)
  OBVIOUS
<1>3. PICK n, n1 : /\ n = SumFunctionOnSet(Remaining, Filed(S, P))
                   /\ n1 = SumFunctionOnSet(RemainingNext, FiledNext(S, P))
  OBVIOUS
<1>4. /\ a \in Nat /\ b \in Nat /\ n \in Nat
      /\ n1 = (n - a) + b
  BY <1>2, <1>3, SumChange
<1>5. d \in Int /\ n1 = n + d
  BY <1>2, <1>4
<1>6. \A id \in Listed' :
        /\ id \in OrderIDs
        /\ InLine(id, LineNext(orders'[id].side, orders'[id].price))
  BY ListedStayNext
<1>7. TotalNext(S, P) = n1 % QuantityModulus
  <2>1. CASE LineNext(S, P) = << >>
    <3>1. FiledNext(S, P) = {}
      <4>1. ASSUME NEW id \in FiledNext(S, P)
            PROVE  FALSE
        <5>1. InLine(id, LineNext(S, P))
          BY <1>6 DEF FiledNext
        <5> QED
          BY <2>1, <5>1 DEF InLine
      <4> QED
        BY <4>1
    <3>2. n1 = 0
      BY <1>3, <3>1, SumEmpty
    <3>3. TotalNext(S, P) = 0
      BY <2>1 DEF BookStep
    <3> QED
      BY <1>1, <3>2, <3>3
  <2>2. CASE LineNext(S, P) # << >>
    <3>1. TotalNext(S, P) = (Total(S, P) + d) % QuantityModulus
      BY <2>2 DEF BookStep
    <3>2. Total(S, P) = n % QuantityModulus
      BY <1>3 DEF TotalsAddUp
    <3>3. ((n % QuantityModulus) + d) % QuantityModulus = (n + d) % QuantityModulus
      BY <1>4, <1>5, RestKept
    <3> QED
      BY <1>5, <3>1, <3>2, <3>3
  <2> QED
    BY <2>1, <2>2
<1>8. ASSUME NEW sd \in Sides, NEW x \in Prices, ~(sd = S /\ x = P)
      PROVE  TotalNext(sd, x)
               = SumFunctionOnSet(RemainingNext, FiledNext(sd, x))
                   % QuantityModulus
  <2>1. /\ FiledNext(sd, x) = Filed(sd, x)
        /\ \A id \in Filed(sd, x) : orders'[id] = orders[id]
    BY <1>6, <1>8, ListedFacts DEF OnlyChanges, Filed, FiledNext
  <2>2. \A id \in Filed(sd, x) : Remaining[id] = RemainingNext[id]
    BY <2>1, FiledFacts DEF Remaining, RemainingNext
  <2>3. SumFunctionOnSet(Remaining, Filed(sd, x))
          = SumFunctionOnSet(RemainingNext, Filed(sd, x))
    BY <2>2, FiledFacts, SumSame
  <2>4. TotalNext(sd, x) = Total(sd, x)
    BY <1>8 DEF BookStep
  <2> QED
    BY <2>1, <2>3, <2>4 DEF TotalsAddUp
<1>9. \A sd \in Sides : \A x \in Prices :
        TotalNext(sd, x)
          = SumFunctionOnSet(RemainingNext, FiledNext(sd, x)) % QuantityModulus
  BY <1>3, <1>7, <1>8
<1> QED
  BY <1>9, TotalsPrimed

LEMMA SettleTotals ==
  ASSUME GoInv, GoInv', TotalsAddUp, Settle
  PROVE  TotalsAddUp'
<1>1. PICK tk, mk, q : SettleStep(tk, mk, q)
  BY SettleEffect
<1>2. /\ tk \notin Listed /\ mk \in Listed /\ mk # tk /\ q \in Nat
      /\ \A id \in OrderIDs \ {tk, mk} : orders'[id] = orders[id]
  BY <1>1 DEF SettleStep
<1>3. PICK S, P : /\ S = orders[mk].side /\ P = orders[mk].price
                  /\ S \in Sides /\ P \in Prices /\ mk \in OrderIDs
                  /\ orders[mk] \in Order /\ orders[mk].quantity \in Nat
  BY <1>2, ListedFacts, OrderFacts DEF GoInv
<1>4. Counts(mk) = orders[mk].quantity
  BY <1>2 DEF Counts
<1>5. CASE orders[mk].quantity = q
  <2>1. BookStep({mk}, {}, S, P, -q) /\ Listed' = Listed \ {mk}
    BY <1>1, <1>3, <1>5 DEF SettleStep
  <2>2. OnlyChanges(mk, S, P)
    BY <1>2, <1>3, <2>1 DEF OnlyChanges
  <2>3. CountsNext(mk) = 0
    BY <2>1 DEF CountsNext
  <2>4. -q = CountsNext(mk) - Counts(mk)
    BY <1>2, <1>4, <1>5, <2>3
  <2> QED
    BY <1>3, <2>1, <2>2, <2>4, TotalsStep
<1>6. CASE orders[mk].quantity # q
  <2>1. /\ BookStep({}, {}, S, P, -q) /\ Listed' = Listed
        /\ orders'[mk] = [orders[mk] EXCEPT !.quantity = @ - q]
    BY <1>1, <1>3, <1>6 DEF SettleStep
  <2>2. /\ orders'[mk].side = S /\ orders'[mk].price = P
        /\ orders'[mk].quantity = orders[mk].quantity - q
    BY <1>3, <2>1, ChargedFields
  <2>3. OnlyChanges(mk, S, P)
    BY <1>2, <1>3, <2>1, <2>2 DEF OnlyChanges
  <2>4. CountsNext(mk) = orders[mk].quantity - q
    BY <1>2, <2>1, <2>2 DEF CountsNext
  <2>5. -q = CountsNext(mk) - Counts(mk)
    BY <1>2, <1>3, <1>4, <2>4
  <2> QED
    BY <1>3, <2>1, <2>3, <2>5, TotalsStep
<1> QED
  BY <1>5, <1>6

LEMMA RestTotals ==
  ASSUME GoInv, GoInv', TotalsAddUp, Rest
  PROVE  TotalsAddUp'
<1>1. PICK tk, S, P : RestStep(tk, S, P)
  BY RestEffect
<1>2. /\ S = orders[tk].side /\ P = orders[tk].price
      /\ tk \in OrderIDs /\ tk \notin Listed /\ orders[tk] # NoOrder
      /\ S \in Sides /\ P \in Prices
      /\ Listed' = Listed \cup {tk} /\ UNCHANGED orders
  BY <1>1 DEF RestStep
<1>3. PICK d : d = orders[tk].quantity /\ d \in Nat
  BY <1>2, OrderFacts DEF GoInv
<1>4. BookStep({}, {tk}, S, P, d)
  BY <1>1, <1>3 DEF RestStep
<1>5. OnlyChanges(tk, S, P)
  BY <1>2 DEF OnlyChanges
<1>6. Counts(tk) = 0 /\ CountsNext(tk) = d
  BY <1>2, <1>3 DEF Counts, CountsNext
<1>7. d = CountsNext(tk) - Counts(tk)
  BY <1>3, <1>6
<1> QED
  BY <1>2, <1>4, <1>5, <1>7, TotalsStep

LEMMA CancelTotals ==
  ASSUME GoInv, GoInv', TotalsAddUp, NEW id \in OrderIDs, CancelOrder(id)
  PROVE  TotalsAddUp'
<1>1. CASE orders[id] = NoOrder
  <2>1. UNCHANGED <<orders, book>>
    BY <1>1 DEF CancelOrder
  <2> QED
    BY <2>1, KeptTotals
<1>2. CASE orders[id] # NoOrder
  <2>1. CancelStep(id)
    BY <1>2, CancelEffect
  <2>2. /\ \A other \in OrderIDs \ {id} : orders'[other] = orders[other]
        /\ Listed' = Listed \ {id}
    BY <2>1 DEF CancelStep
  <2>3. CASE id \in Listed
    <3>1. PICK S, P, q : /\ S = orders[id].side /\ P = orders[id].price
                         /\ q = orders[id].quantity
                         /\ S \in Sides /\ P \in Prices /\ q \in Nat
      BY <2>3, ListedFacts, OrderFacts DEF GoInv
    <3>2. BookStep({id}, {}, S, P, -q)
      BY <2>1, <2>3, <3>1, Zenon DEF CancelStep
    <3>3. OnlyChanges(id, S, P)
      BY <2>2, <2>3, <3>1 DEF OnlyChanges
    <3>4. Counts(id) = q /\ CountsNext(id) = 0
      BY <2>2, <2>3, <3>1 DEF Counts, CountsNext
    <3>5. -q = CountsNext(id) - Counts(id)
      BY <3>1, <3>4
    <3> QED
      BY <3>1, <3>2, <3>3, <3>5, TotalsStep
  <2>4. CASE id \notin Listed
    <3>1. UNCHANGED book
      BY <2>1, <2>4 DEF CancelStep
    <3>2. \A other \in Listed : orders'[other] = orders[other]
      BY <2>2, <2>4, ListedFacts
    <3> QED
      BY <3>1, <3>2, KeptTotals
  <2> QED
    BY <2>3, <2>4
<1> QED
  BY <1>1, <1>2

LEMMA EmptyTotals ==
  ASSUME book = [side \in Sides |-> [p \in {} |-> {}]]
  PROVE  TotalsAddUp
<1>1. ASSUME NEW sd \in Sides, NEW x \in Prices
      PROVE  Total(sd, x)
               = SumFunctionOnSet(Remaining, Filed(sd, x)) % QuantityModulus
  <2>1. Total(sd, x) = 0 /\ Listed = {}
    BY EmptyBook
  <2>2. Filed(sd, x) = {}
    BY <2>1 DEF Filed
  <2>3. SumFunctionOnSet(Remaining, {}) = 0 /\ 0 % QuantityModulus = 0
    BY SumEmpty, LimitsAssumption
  <2> QED
    BY <2>1, <2>2, <2>3
<1> QED
  BY <1>1 DEF TotalsAddUp

LEMMA TotalsKept ==
  ASSUME GoInv, GoInv', TotalsAddUp, [Next]_vars
  PROVE  TotalsAddUp'
<1>1. ASSUME NEW r \in Requests, AddRejected(r)
      PROVE  TotalsAddUp'
  BY <1>1, KeptTotals DEF AddRejected
<1>2. ASSUME NEW r \in Requests, AddAccepted(r)
      PROVE  TotalsAddUp'
  <2>1. PICK id, o : AcceptStep(r, id, o)
    BY <1>2, AcceptEffect
  <2>2. UNCHANGED book /\ \A other \in Listed : orders'[other] = orders[other]
    BY <2>1, ListedFacts DEF AcceptStep
  <2> QED
    BY <2>2, KeptTotals
<1>3. CASE ExecuteTrade
  BY <1>3, KeptTotals DEF ExecuteTrade
<1>4. CASE Filled
  <2>1. FilledStep(call.taker)
    BY <1>4, FilledEffect
  <2>2. UNCHANGED book /\ \A other \in Listed : orders'[other] = orders[other]
    BY <2>1, ListedFacts DEF FilledStep
  <2> QED
    BY <2>2, KeptTotals
<1>5. CASE Panic
  BY <1>5, KeptTotals DEF Panic
<1>6. CASE SetTradeCallback
  BY <1>6, KeptTotals DEF SetTradeCallback
<1>7. CASE Close
  <2>1. (book = [side \in Sides |-> [p \in {} |-> {}]] => TotalsAddUp)'
    BY EmptyTotals, PTL
  <2> QED
    BY <1>7, <2>1 DEF Close
<1>8. CASE UNCHANGED vars
  BY <1>8, KeptTotals DEF vars
<1> QED
  BY <1>1, <1>2, <1>3, <1>4, <1>5, <1>6, <1>7, <1>8,
     SettleTotals, RestTotals, CancelTotals DEF Next, Engine

LEMMA TotalsInvariant == Spec => []TotalsAddUp
<1>1. Init => TotalsAddUp
  BY EmptyTotals DEF Init
<1>2. GoInv /\ GoInv' /\ TotalsAddUp /\ [Next]_vars => TotalsAddUp'
  BY TotalsKept
<1> QED
  BY <1>1, <1>2, GoEngineInvariant, PTL DEF Spec

LEMMA LevelsFollow ==
  ASSUME GoInv, TotalsAddUp
  PROVE  LevelsAddUp
<1>1. TypeOK /\ BookType /\ TimePriority
  BY DEF GoInv
<1>2. ASSUME NEW sd \in Sides, NEW p \in Levels(sd),
             NEW list, list = book[sd][p].orders
      PROVE  /\ list # << >> /\ IsInjective(list)
             /\ ToSet(list) = {id \in Listed : /\ orders[id] # NoOrder
                                               /\ orders[id].side = sd
                                               /\ orders[id].price = p}
  <2>1. /\ p \in Prices /\ list = Line(sd, p) /\ list # << >>
        /\ list \in Seq(OrderIDs) /\ DOMAIN list = 1 .. Len(list)
    BY <1>1, <1>2, LineFacts DEF BookType, Line
  <2>2. IsInjective(list)
    <3>1. ASSUME NEW i \in DOMAIN list, NEW j \in DOMAIN list, list[i] = list[j]
          PROVE  i = j
      <4>1. i \in 1 .. Len(list) /\ j \in 1 .. Len(list) /\ Len(list) \in Nat
        BY <2>1
      <4>2. ~(i < j) /\ ~(j < i)
        <5>1. InLine(list[i], Line(sd, p))
          BY <2>1, <4>1 DEF InLine
        <5>2. list[i] \in OrderIDs /\ orders[list[i]] # NoOrder
          BY <2>1, <5>1, LineHolds
        <5>3. orders[list[i]].timestamp \in Nat
          BY <1>1, <5>2, OrderFacts
        <5> QED
          BY <1>1, <2>1, <3>1, <4>1, <5>3 DEF TimePriority
      <4> QED
        BY <4>1, <4>2
    <3> QED
      BY <3>1 DEF IsInjective
  <2>3. ToSet(list) = Filed(sd, p)
    <3>1. \A id : id \in ToSet(list) <=> InLine(id, Line(sd, p))
      BY <2>1 DEF ToSet, InLine
    <3> QED
      BY <2>1, <3>1, FiledFacts
  <2>4. Filed(sd, p) = {id \in Listed : /\ orders[id] # NoOrder
                                        /\ orders[id].side = sd
                                        /\ orders[id].price = p}
    BY ListedFacts DEF Filed
  <2> QED
    BY <2>1, <2>2, <2>3, <2>4
<1>3. ASSUME NEW sd \in Sides, NEW price \in 0 .. MAX_PRICE * Units
      PROVE  GetQuantityAtPrice(price, sd) =
               SumFunction([id \in {other \in Listed :
                                     /\ orders[other].side = sd
                                     /\ orders[other].price
                                          = PriceToFixed(price)}
                              |-> orders[id].quantity]) % QuantityModulus
  <2>1. PICK x : x = PriceToFixed(price)
    OBVIOUS
  <2>2. x \in Prices
    <3>1. /\ Units \in Nat \ {0} /\ MAX_PRICE \in Nat
      BY GoAssumption, LimitsAssumption
    <3>2. MAX_PRICE * Units \in Int
      BY <3>1
    <3>3. price \in Int /\ ~BadPrice(price)
      BY <3>2 DEF BadPrice
    <3> QED
      BY <2>1, <3>3, RoundedIsPrice
  <2>3. GetQuantityAtPrice(price, sd) = Total(sd, x)
    BY <2>1 DEF GetQuantityAtPrice, Total
  <2>4. PICK F : F = Filed(sd, x)
    OBVIOUS
  <2>5. /\ IsFiniteSet(F)
        /\ \A id \in F : Remaining[id] = orders[id].quantity
    BY <2>2, <2>4, FiledFacts
  <2>6. SumFunction([id \in F |-> orders[id].quantity])
          = SumFunctionOnSet([id \in F |-> orders[id].quantity], F)
    BY DEF SumFunction
  <2>7. SumFunctionOnSet([id \in F |-> orders[id].quantity], F)
          = SumFunctionOnSet(Remaining, F)
    BY <2>5, SumSame
  <2>8. Total(sd, x) = SumFunctionOnSet(Remaining, F) % QuantityModulus
    BY <2>2, <2>4 DEF TotalsAddUp
  <2>9. F = {other \in Listed : /\ orders[other].side = sd
                                /\ orders[other].price = PriceToFixed(price)}
    BY <2>1, <2>4 DEF Filed
  <2> QED
    BY <2>3, <2>6, <2>7, <2>8, <2>9
<1> QED
  BY <1>2, <1>3 DEF LevelsAddUp

\* The maps of the Go engine and its running totals always describe the same
\* orders: each level files exactly the orders of its side and price, once,
\* and what GetQuantityAtPrice shows is their sum modulo 2^32, also after
\* callbacks that panic (engine.go:328-338, 380-422).
THEOREM GoLevelsAddUp == Spec => []LevelsAddUp
<1>1. GoInv /\ TotalsAddUp => LevelsAddUp
  BY LevelsFollow
<1> QED
  BY <1>1, GoEngineInvariant, TotalsInvariant, PTL


-----------------------------------------------------------------------------
(***************************************************************************)
(* The refinement of PriceTimeBook.tla.                                    *)
(***************************************************************************)
\* The abstract book has the vocabulary of the engine.
LEMMA SameVocabulary ==
  /\ PriceTime!OrderIDs = OrderIDs /\ PriceTime!Prices = Prices
  /\ PriceTime!Sides = Sides /\ PriceTime!Quantities = Quantities
  /\ \A side : PriceTime!Opposite(side) = Opposite(side)
  /\ \A side, p, q : PriceTime!Crosses(side, p, q) = Crosses(side, p, q)
  /\ \A side, p, q : PriceTime!AtLeastAsGood(side, p, q) = AtLeastAsGood(side, p, q)
<1>1. \A r \in Requests : FixedRequest(r).id = r.id
  BY GoAssumption DEF FixedRequest
<1>2. PriceTime!OrderIDs = OrderIDs
  BY <1>1 DEF PriceTime!OrderIDs, OrderIDs
<1> QED
  BY <1>2
     DEF PriceTime!Prices, Prices, PriceTime!Sides, Sides,
         PriceTime!Quantities, Quantities, PriceTime!Opposite, Opposite,
         PriceTime!Crosses, Crosses, PriceTime!AtLeastAsGood, AtLeastAsGood

LEMMA RequestFacts ==
  ASSUME NEW r \in Requests
  PROVE  /\ FixedRequest(r).id = r.id /\ r.id \in OrderIDs
         /\ FixedRequest(r).quantity = r.quantity
         /\ FixedRequest(r).side = r.side
         /\ FixedRequest(r).price
              = IF BadPrice(r.price) THEN MAX_PRICE + 1 ELSE PriceToFixed(r.price)
BY GoAssumption DEF FixedRequest, OrderIDs

LEMMA OrderWithFacts ==
  ASSUME TypeOK, NEW id \in OrderIDs, orders[id] # NoOrder
  PROVE  /\ OrderWith(id).id = id /\ OrderWith(id).price = orders[id].price
         /\ OrderWith(id).quantity = orders[id].quantity
         /\ OrderWith(id).side = orders[id].side
         /\ OrderWith(id).timestamp = orders[id].timestamp
         /\ OrderWith(id) \in PriceTime!Orders
         /\ OrderWith(id) # NoOrder
<1>1. OrderWith(id) \in PriceTime!Orders
  BY OrderFacts, SameVocabulary DEF OrderWith, PriceTime!Orders
<1> QED
  BY <1>1, NoFillAssumption DEF OrderWith

LEMMA OrderWithApart ==
  ASSUME NEW id, NEW other
  PROVE  /\ OrderWith(id).id = id
         /\ OrderWith(id) = OrderWith(other) => id = other
<1>1. OrderWith(id).id = id /\ OrderWith(other).id = other
  BY DEF OrderWith
<1> QED
  BY <1>1

LEMMA IncomingFacts ==
  ASSUME GoInv
  PROVE  /\ Incoming = NoOrder <=> Idle
         /\ ~Idle => /\ Incoming = OrderWith(call.taker)
                     /\ Incoming.id = call.taker
                     /\ Incoming.price = Taker.price
                     /\ Incoming.side = Taker.side
                     /\ Incoming.quantity = Taker.quantity
<1>1. CASE Idle
  BY <1>1 DEF Incoming
<1>2. CASE ~Idle
  <2>1. /\ call.taker \in OrderIDs /\ orders[call.taker] # NoOrder
        /\ Taker = orders[call.taker] /\ TypeOK
    BY <1>2, TakerFacts DEF GoInv
  <2>2. Incoming = OrderWith(call.taker)
    BY <1>2 DEF Incoming
  <2> QED
    BY <1>2, <2>1, <2>2, OrderWithFacts
<1> QED
  BY <1>1, <1>2

LEMMA ReportedFacts ==
  ASSUME GoInv
  PROVE  /\ ReportedFill # NoOrder <=> InCallback
         /\ InCallback => /\ ReportedFill.maker_order_id = call.maker
                          /\ ReportedFill.quantity = call.quantity
<1>1. ASSUME InCallback
      PROVE  ReportedFill # NoOrder
  <2>1. /\ call.maker \in OrderIDs /\ call.taker \in OrderIDs
        /\ Maker.side \in Sides /\ Maker.price \in Prices
    BY <1>1, CallbackFacts, TakerFacts
  <2>2. call.quantity \in 0 .. MAX_QUANTITY
    BY DEF GoInv, TypeOK
  <2>3. ReportedFill \in PriceTime!Fills
    BY <1>1, <2>1, <2>2, SameVocabulary DEF ReportedFill, PriceTime!Fills
  <2> QED
    BY <2>3, NoFillAssumption
<1> QED
  BY <1>1 DEF ReportedFill

\* It counts as the engine does.
LEMMA SameCount ==
  ASSUME NEW S
  PROVE  PriceTime!Cardinality(S) = Cardinality(S)
BY DEF PriceTime!Cardinality, Cardinality, PriceTime!IsFiniteSet, IsFiniteSet

\* There is room for an order of every id.
LEMMA AlwaysRoom ==
  ASSUME GoInv
  PROVE  Cardinality(Resting \cup Lost) # Cardinality(OrderIDs) + 1
<1> DEFINE D == Listed \cup Stray
           T == {OrderWith(id) : id \in D}
           f == [id \in D |-> OrderWith(id)]
<1>1. D \subseteq OrderIDs
  BY ListedFacts DEF Stray, Known
<1>2. IsFiniteSet(D) /\ Cardinality(D) <= Cardinality(OrderIDs)
  BY <1>1, GoAssumption, FS_Subset
<1>3. f \in Surjection(D, T)
  BY DEF Surjection
<1>4. IsFiniteSet(T) /\ Cardinality(T) <= Cardinality(D)
  BY <1>2, <1>3, FS_Surjection
<1>5. Resting \cup Lost = T
  BY DEF Resting, Lost
<1>6. /\ Cardinality(T) \in Nat /\ Cardinality(D) \in Nat
      /\ Cardinality(OrderIDs) \in Nat
  BY <1>2, <1>4, GoAssumption, FS_CardinalityType
<1> QED
  BY <1>2, <1>4, <1>5, <1>6

\* Between calls the orders a client may cancel are those of e.orders.
LEMMA KnownIsResting ==
  ASSUME GoInv, Idle
  PROVE  /\ Resting \cup Lost = {OrderWith(id) : id \in Known}
         /\ \A id \in OrderIDs : (\E o \in Resting \cup Lost : o.id = id)
                                   <=> orders[id] # NoOrder
<1>1. call.taker = NoOrder /\ NoOrder \notin OrderIDs
  BY NoOrderAssumption DEF GoInv, IdleIsClean, IdleCall
<1>2. Listed \cup Stray = Known
  BY <1>1, ListedFacts DEF Stray, Known
<1>3. Resting \cup Lost = {OrderWith(id) : id \in Known}
  BY <1>2 DEF Resting, Lost
<1>4. ASSUME NEW id \in OrderIDs
      PROVE  (\E o \in Resting \cup Lost : o.id = id) <=> orders[id] # NoOrder
  <2>1. \A other \in Known : OrderWith(other).id = other
    BY OrderWithApart
  <2> QED
    BY <1>3, <2>1 DEF Known
<1> QED
  BY <1>3, <1>4

\* A request is refused for the same reason.
LEMMA SameRefusal ==
  ASSUME GoInv, Idle, NEW r \in Requests
  PROVE  PriceTime!Refusal(FixedRequest(r)) = Refusal(r)
<1>1. PICK fixed : fixed = FixedRequest(r)
  OBVIOUS
<1>2. /\ fixed.id = r.id /\ r.id \in OrderIDs /\ fixed.quantity = r.quantity
      /\ fixed.side = r.side
      /\ fixed.price = IF BadPrice(r.price) THEN MAX_PRICE + 1
                       ELSE PriceToFixed(r.price)
  BY <1>1, RequestFacts
<1>3. BadPrice(r.price) <=> fixed.price \notin Prices
  <2>1. r.price \in Int
    BY RequestsAssumption
  <2>2. MAX_PRICE + 1 \notin Prices
    BY LimitsAssumption DEF Prices
  <2> QED
    BY <1>2, <2>1, <2>2, RoundedIsPrice
<1>4. PICK error : error = PriceTime!ArgumentError(fixed)
  OBVIOUS
<1>5. error = CASE r.quantity \notin Quantities -> "INVALID_QUANTITY"
                [] r.quantity \in Quantities /\ BadPrice(r.price)
                     -> "INVALID_PRICE"
                [] r.quantity \in Quantities /\ ~BadPrice(r.price)
                   /\ r.side \notin Sides -> "INVALID_SIDE"
                [] OTHER -> "SUCCESS"
  BY <1>2, <1>3, <1>4, SameVocabulary DEF PriceTime!ArgumentError
<1>6. (\E o \in Resting \cup Lost : o.id = r.id) <=> orders[r.id] # NoOrder
  BY <1>2, KnownIsResting
<1>7. PriceTime!Cardinality(Resting \cup Lost) # Cardinality(OrderIDs) + 1
  BY AlwaysRoom, SameCount
<1>8. PriceTime!Refusal(fixed)
        = IF closed THEN "UNKNOWN_ERROR"
          ELSE IF error # "SUCCESS" THEN error
          ELSE IF \E o \in Resting \cup Lost : o.id = fixed.id
            THEN "INVALID_ORDER_ID"
          ELSE IF PriceTime!Cardinality(Resting \cup Lost)
                    = Cardinality(OrderIDs) + 1
            THEN "POOL_EXHAUSTED"
          ELSE "SUCCESS"
  BY <1>4, Zenon DEF PriceTime!Refusal, PriceTime!Known
<1>9. PriceTime!Refusal(fixed)
        = IF closed THEN "UNKNOWN_ERROR"
          ELSE IF error # "SUCCESS" THEN error
          ELSE IF orders[r.id] # NoOrder THEN "INVALID_ORDER_ID"
          ELSE "SUCCESS"
  BY <1>2, <1>6, <1>7, <1>8, Zenon
<1> QED
  BY <1>1, <1>5, <1>9 DEF Refusal


\* OrderNext is OrderWith in the next state.
OrderNext(id) ==
  [id |-> id, price |-> orders'[id].price, quantity |-> orders'[id].quantity,
   side |-> orders'[id].side, timestamp |-> orders'[id].timestamp]

LEMMA NextView ==
  /\ Resting' = {OrderNext(id) : id \in Listed'}
  /\ Stray' = {id \in OrderIDs : orders'[id] # NoOrder}
                \ (Listed' \cup {call'.taker})
  /\ Lost' = {OrderNext(id) : id \in Stray'}
  /\ Incoming' = IF Idle' THEN NoOrder ELSE OrderNext(call'.taker)
  /\ ReportedFill' = IF InCallback'
                     THEN [maker_order_id |-> call'.maker,
                           taker_order_id |-> call'.taker,
                           price |-> orders'[call'.maker].price,
                           quantity |-> call'.quantity,
                           side |-> orders'[call'.maker].side]
                     ELSE NoOrder
<1>1. Resting' = {OrderNext(id) : id \in Listed'}
  BY DEF Resting, OrderWith, OrderNext
<1>2. Stray' = {id \in OrderIDs : orders'[id] # NoOrder}
                 \ (Listed' \cup {call'.taker})
  BY DEF Stray, Known
<1>3. Lost' = {OrderNext(id) : id \in Stray'}
  BY DEF Lost, OrderWith, OrderNext
<1>4. Incoming' = IF Idle' THEN NoOrder ELSE OrderNext(call'.taker)
  BY DEF Incoming, OrderWith, OrderNext
<1>5. ReportedFill' = IF InCallback'
                      THEN [maker_order_id |-> call'.maker,
                            taker_order_id |-> call'.taker,
                            price |-> orders'[call'.maker].price,
                            quantity |-> call'.quantity,
                            side |-> orders'[call'.maker].side]
                      ELSE NoOrder
  BY DEF ReportedFill, Maker
<1> QED
  BY <1>1, <1>2, <1>3, <1>4, <1>5

\* The orders that are not touched look the same.
LEMMA SameOrders ==
  ASSUME NEW T, \A id \in T : orders'[id] = orders[id]
  PROVE  {OrderNext(id) : id \in T} = {OrderWith(id) : id \in T}
<1>1. \A id \in T : OrderNext(id) = OrderWith(id)
  BY DEF OrderNext, OrderWith
<1> QED
  BY <1>1

LEMMA SameView ==
  ASSUME UNCHANGED <<orders, call>>, Listed' = Listed
  PROVE  /\ Resting' = Resting /\ Lost' = Lost
         /\ Incoming' = Incoming /\ ReportedFill' = ReportedFill
<1>1. \A id : OrderNext(id) = OrderWith(id)
  BY DEF OrderNext, OrderWith
<1>2. (Idle' <=> Idle) /\ (InCallback' <=> InCallback)
  BY DEF Idle, InCallback
<1>3. Resting' = Resting
  BY <1>1, NextView DEF Resting
<1>4. Stray' = Stray
  BY NextView DEF Stray, Known
<1>5. Lost' = Lost
  BY <1>1, <1>4, NextView DEF Lost
<1>6. Incoming' = Incoming
  BY <1>1, <1>2, NextView DEF Incoming
<1>7. ReportedFill' = ReportedFill
  BY <1>2, NextView DEF ReportedFill, Maker
<1> QED
  BY <1>3, <1>5, <1>6, <1>7

LEMMA RejectMaps ==
  ASSUME GoInv, NEW r \in Requests, AddRejected(r)
  PROVE  PriceTime!Reject(FixedRequest(r))
<1>1. /\ Idle /\ Refusal(r) # "SUCCESS" /\ result' = Refusal(r)
      /\ UNCHANGED <<orders, book, closed, call, now>>
  BY DEF AddRejected
<1>2. /\ Resting' = Resting /\ Lost' = Lost
      /\ Incoming' = Incoming /\ ReportedFill' = ReportedFill
  BY <1>1, UntouchedBook, SameView
<1>3. PriceTime!Refusal(FixedRequest(r)) = Refusal(r)
  BY <1>1, SameRefusal
<1>4. Incoming = NoOrder
  BY <1>1, IncomingFacts
<1> QED
  BY <1>1, <1>2, <1>3, <1>4 DEF PriceTime!Reject

LEMMA AcceptMaps ==
  ASSUME GoInv, NEW r \in Requests, AddAccepted(r)
  PROVE  PriceTime!Accept(FixedRequest(r))
<1>1. PICK tk, o : AcceptStep(r, tk, o)
  BY AcceptEffect
<1>2. PICK fixed : fixed = FixedRequest(r)
  OBVIOUS
<1>3. /\ Idle /\ Refusal(r) = "SUCCESS" /\ now < MaxTime
      /\ tk = r.id /\ tk \in OrderIDs /\ orders[tk] = NoOrder /\ tk \notin Listed
      /\ \A other \in OrderIDs \ {tk} : orders'[other] = orders[other]
      /\ Listed' = Listed /\ now' = now + 1
      /\ UNCHANGED <<closed, result>>
  BY <1>1 DEF AcceptStep
<1>4. /\ call.taker = NoOrder /\ NoOrder \notin OrderIDs
      /\ ~InCallback /\ ~Idle' /\ ~InCallback' /\ call'.taker = tk
  BY <1>1, <1>3, NoOrderAssumption
     DEF AcceptStep, GoInv, IdleIsClean, IdleCall, Idle, InCallback
<1>5. Resting' = Resting
  <2>1. \A id \in Listed : orders'[id] = orders[id]
    BY <1>3, ListedFacts
  <2> QED
    BY <1>3, <2>1, NextView, SameOrders DEF Resting
<1>6. Lost' = Lost
  <2>1. Stray' = Stray
    BY <1>3, <1>4, NextView DEF Stray, Known
  <2>2. \A id \in Stray : orders'[id] = orders[id]
    BY <1>3 DEF Stray, Known
  <2> QED
    BY <2>1, <2>2, NextView, SameOrders DEF Lost
<1>7. Incoming = NoOrder /\ ReportedFill = NoOrder /\ ReportedFill' = NoOrder
  BY <1>3, <1>4, IncomingFacts, NextView DEF ReportedFill
<1>8. /\ fixed.id = r.id /\ fixed.quantity = r.quantity /\ fixed.side = r.side
      /\ fixed.price = PriceToFixed(r.price)
  BY <1>2, <1>3, RequestFacts, AcceptedFacts
<1>9. Incoming' = [id |-> fixed.id, price |-> fixed.price,
                   quantity |-> fixed.quantity, side |-> fixed.side,
                   timestamp |-> now]
  <2>1. orders'[tk] = [price |-> PriceToFixed(r.price), quantity |-> r.quantity,
                       side |-> r.side, timestamp |-> now]
    BY <1>1 DEF AcceptStep
  <2>2. Incoming' = OrderNext(tk)
    BY <1>4, NextView
  <2> QED
    BY <1>3, <1>8, <2>1, <2>2 DEF OrderNext
<1>10. PriceTime!Refusal(fixed) = "SUCCESS"
  BY <1>2, <1>3, SameRefusal
<1>11. ReportedFill' = ReportedFill
  BY <1>7
<1> QED
  BY <1>2, <1>3, <1>5, <1>6, <1>7, <1>9, <1>10, <1>11 DEF PriceTime!Accept

\* What the incoming order may trade with.
LEMMA MatchableFacts ==
  ASSUME GoInv, ~Idle
  PROVE  PriceTime!Matchable
           = {o \in Resting : /\ o.side = Opposite(Taker.side)
                              /\ Crosses(Taker.side, Taker.price, o.price)}
<1>1. Incoming.side = Taker.side /\ Incoming.price = Taker.price
  BY IncomingFacts
<1>2. PriceTime!Matchable
        = {o \in Resting : /\ o.side = PriceTime!Opposite(Incoming.side)
                           /\ PriceTime!Crosses(Incoming.side, Incoming.price,
                                                o.price)}
  BY DEF PriceTime!Matchable
<1> QED
  BY <1>1, <1>2, SameVocabulary

\* The front of the best level has priority over all that could trade.
LEMMA MakerIsFirst ==
  ASSUME GoInv, NEW mk, NEW q, ReportStep(mk, q)
  PROVE  PriceTime!IsMaker(OrderWith(mk))
<1>1. PICK sd, p : sd = orders[mk].side /\ p = orders[mk].price
  OBVIOUS
<1>2. /\ ~Idle /\ mk \in Listed /\ mk \in OrderIDs /\ orders[mk] # NoOrder
      /\ sd = Opposite(Taker.side) /\ IsBest(sd, p)
      /\ Head(Line(sd, p)) = mk
      /\ Crosses(Taker.side, Taker.price, p)
  BY <1>1 DEF ReportStep
<1>3. /\ TypeOK /\ BookType /\ TimePriority
      /\ sd \in Sides /\ p \in Levels(sd) /\ p \in Prices
  BY <1>1, <1>2, ListedFacts DEF GoInv
<1>4. PriceTime!Matchable
        = {o \in Resting : /\ o.side = Opposite(Taker.side)
                           /\ Crosses(Taker.side, Taker.price, o.price)}
  BY <1>2, MatchableFacts
<1>5. /\ OrderWith(mk).side = sd /\ OrderWith(mk).price = p
      /\ OrderWith(mk).timestamp = orders[mk].timestamp
  BY <1>1, <1>2, <1>3, OrderWithFacts
<1>6. OrderWith(mk) \in PriceTime!Matchable
  BY <1>2, <1>4, <1>5 DEF Resting
<1>7. ASSUME NEW other \in PriceTime!Matchable \ {OrderWith(mk)}
      PROVE  PriceTime!HasPriority(OrderWith(mk), other)
  <2>1. PICK id \in Listed : other = OrderWith(id)
    BY <1>4, <1>7 DEF Resting
  <2>2. PICK x : x = orders[id].price
    OBVIOUS
  <2>3. /\ id \in OrderIDs /\ orders[id] # NoOrder /\ id # mk
        /\ InLine(id, Line(orders[id].side, x)) /\ x \in Levels(orders[id].side)
    BY <1>7, <2>1, <2>2, ListedFacts
  <2>4. /\ other.side = orders[id].side /\ other.price = x
        /\ other.timestamp = orders[id].timestamp
    BY <1>3, <2>1, <2>2, <2>3, OrderWithFacts
  <2>5. orders[id].side = sd
    BY <1>2, <1>4, <1>7, <2>4
  <2>6. AtLeastAsGood(sd, p, x)
    BY <1>2, <2>3, <2>5 DEF IsBest
  <2>7. ASSUME x = p
        PROVE  orders[mk].timestamp < orders[id].timestamp
    <3>1. PICK list : list = Line(sd, p)
      OBVIOUS
    <3>2. list \in Seq(OrderIDs)
      BY <1>3, <3>1, LineFacts
    <3>3. PICK j \in 1 .. Len(list) : list[j] = id
      BY <2>3, <2>5, <2>7, <3>1 DEF InLine
    <3>4. list[1] = mk /\ 1 \in 1 .. Len(list) /\ 1 < j
      BY <1>2, <2>3, <3>1, <3>2, <3>3
    <3> QED
      BY <1>3, <3>1, <3>3, <3>4 DEF TimePriority
  <2> QED
    BY <1>5, <2>4, <2>6, <2>7, SameVocabulary DEF PriceTime!HasPriority
<1> QED
  BY <1>6, <1>7 DEF PriceTime!IsMaker

LEMMA ReportMaps ==
  ASSUME GoInv, ExecuteTrade
  PROVE  \E o \in Resting : PriceTime!Report(o)
<1>1. PICK mk, q : ReportStep(mk, q)
  BY ReportEffect
<1>2. PICK o : o = OrderWith(mk)
  OBVIOUS
<1>3. /\ ~Idle /\ ~InCallback /\ Taker.quantity > 0
      /\ mk \in Listed /\ mk \in OrderIDs /\ orders[mk] # NoOrder
      /\ q \in {Taker.quantity, orders[mk].quantity}
      /\ q <= Taker.quantity /\ q <= orders[mk].quantity
      /\ UNCHANGED <<orders, book, closed, now, result>>
  BY <1>1 DEF ReportStep
<1>4. /\ ~Idle' /\ InCallback'
      /\ call'.taker = call.taker /\ call'.maker = mk /\ call'.quantity = q
  BY <1>1 DEF ReportStep, Idle, InCallback
<1>5. Listed' = Listed
  BY <1>3, UntouchedBook
<1>6. \A id : OrderNext(id) = OrderWith(id)
  BY <1>3 DEF OrderNext, OrderWith
<1>7. Resting' = Resting
  BY <1>5, <1>6, NextView DEF Resting
<1>8. Stray' = Stray
  BY <1>3, <1>4, <1>5, NextView DEF Stray, Known
<1>9. Lost' = Lost
  BY <1>6, <1>8, NextView DEF Lost
<1>10. Incoming' = Incoming
  BY <1>3, <1>4, <1>6, NextView DEF Incoming
<1>11. o \in Resting
  BY <1>2, <1>3 DEF Resting
<1>12. /\ Incoming # NoOrder /\ ReportedFill = NoOrder
       /\ Incoming.id = call.taker /\ Incoming.quantity = Taker.quantity
  BY <1>3, IncomingFacts, ReportedFacts
<1>13. /\ o.id = mk /\ o.price = orders[mk].price
       /\ o.side = orders[mk].side /\ o.quantity = orders[mk].quantity
  BY <1>2, <1>3, OrderWithFacts DEF GoInv
<1>14. ReportedFill' = [maker_order_id |-> o.id, taker_order_id |-> Incoming.id,
                        price |-> o.price, quantity |-> q, side |-> o.side]
  BY <1>3, <1>4, <1>12, <1>13, NextView
<1>15. \E x \in {o.quantity, Incoming.quantity} :
         /\ x <= o.quantity /\ x <= Incoming.quantity
         /\ ReportedFill' = [maker_order_id |-> o.id,
                             taker_order_id |-> Incoming.id, price |-> o.price,
                             quantity |-> x, side |-> o.side]
  BY <1>3, <1>12, <1>13, <1>14
<1>16. PriceTime!IsMaker(o)
  BY <1>1, <1>2, MakerIsFirst
<1>17. Incoming.quantity > 0
  BY <1>3, <1>12
<1>18. PriceTime!Report(o)
  BY <1>3, <1>7, <1>9, <1>10, <1>12, <1>15, <1>16, <1>17 DEF PriceTime!Report
<1> QED
  BY <1>11, <1>18


LEMMA SettleMaps ==
  ASSUME GoInv, Settle
  PROVE  PriceTime!Settle
<1>1. PICK tk, mk, q : SettleStep(tk, mk, q)
  BY SettleEffect
<1>2. PICK o : o = OrderWith(mk)
  OBVIOUS
<1>3. /\ InCallback /\ ~Idle
      /\ tk = call.taker /\ mk = call.maker /\ q = call.quantity
      /\ tk \in OrderIDs /\ tk \notin Listed /\ mk \in Listed /\ mk # tk
      /\ \A id \in OrderIDs \ {tk, mk} : orders'[id] = orders[id]
      /\ UNCHANGED <<closed, now, result>>
  BY <1>1, CallbackFacts DEF SettleStep
<1>4. /\ TypeOK /\ mk \in OrderIDs /\ orders[mk] # NoOrder
      /\ orders[tk] # NoOrder /\ orders[mk] \in Order /\ orders[tk] \in Order
  BY <1>3, ListedFacts, TakerFacts, OrderFacts DEF GoInv
<1>5. ~Idle' /\ ~InCallback' /\ call'.taker = tk
  <2>1. call = [at |-> call.at, taker |-> call.taker, maker |-> call.maker,
                quantity |-> call.quantity]
    BY <1>4, CallFacts
  <2>2. call' = [at |-> "matching", taker |-> tk, maker |-> NoOrder,
                 quantity |-> 0]
    BY <1>1, <1>3, <2>1 DEF SettleStep, NextTurn
  <2> QED
    BY <2>2 DEF Idle, InCallback
<1>6. /\ ReportedFill # NoOrder /\ ReportedFill.maker_order_id = mk
      /\ ReportedFill.quantity = q
  BY <1>3, ReportedFacts
<1>7. o \in Resting /\ o.id = mk /\ o.quantity = orders[mk].quantity
  BY <1>2, <1>3, <1>4, OrderWithFacts DEF Resting
<1>8. {OrderNext(id) : id \in Listed \ {mk}} = Resting \ {o}
  <2>1. \A id \in Listed \ {mk} : orders'[id] = orders[id]
    BY <1>3, ListedFacts
  <2>2. {OrderWith(id) : id \in Listed \ {mk}} = Resting \ {o}
    BY <1>2, OrderWithApart DEF Resting
  <2> QED
    BY <2>1, <2>2, SameOrders
<1>9. Resting' = (Resting \ {o}) \cup
                 (IF o.quantity = q THEN {} ELSE {[o EXCEPT !.quantity = @ - q]})
  <2>1. CASE orders[mk].quantity = q
    <3>1. Listed' = Listed \ {mk}
      BY <1>1, <2>1 DEF SettleStep
    <3> QED
      BY <1>7, <1>8, <2>1, <3>1, NextView
  <2>2. CASE orders[mk].quantity # q
    <3>1. /\ Listed' = Listed
          /\ orders'[mk] = [orders[mk] EXCEPT !.quantity = @ - q]
      BY <1>1, <2>2 DEF SettleStep
    <3>2. OrderNext(mk) = [o EXCEPT !.quantity = @ - q]
      <4>1. PICK m : m = orders[mk] /\ m \in Order
        BY <1>4
      <4>2. orders'[mk] = [m EXCEPT !.quantity = @ - q]
        BY <3>1, <4>1
      <4>3. o = [id |-> mk, price |-> m.price, quantity |-> m.quantity,
                 side |-> m.side, timestamp |-> m.timestamp]
        BY <1>2, <4>1 DEF OrderWith
      <4>4. OrderNext(mk)
              = [id |-> mk, price |-> m.price, quantity |-> m.quantity - q,
                 side |-> m.side, timestamp |-> m.timestamp]
        BY <4>1, <4>2 DEF OrderNext, Order
      <4> QED
        BY <4>3, <4>4
    <3>3. Resting' = {OrderNext(id) : id \in Listed \ {mk}} \cup {OrderNext(mk)}
      BY <1>3, <3>1, NextView
    <3> QED
      BY <1>7, <1>8, <2>2, <3>2, <3>3
  <2> QED
    BY <2>1, <2>2
<1>10. Incoming' = [Incoming EXCEPT !.quantity = @ - q]
  <2>1. PICK m : m = orders[tk] /\ m \in Order
    BY <1>4
  <2>2. orders'[tk] = [m EXCEPT !.quantity = @ - q]
    BY <1>1, <2>1 DEF SettleStep
  <2>3. Incoming = [id |-> tk, price |-> m.price, quantity |-> m.quantity,
                    side |-> m.side, timestamp |-> m.timestamp]
    BY <1>3, <2>1 DEF Incoming, OrderWith
  <2>4. Incoming' = [id |-> tk, price |-> m.price, quantity |-> m.quantity - q,
                     side |-> m.side, timestamp |-> m.timestamp]
    BY <1>5, <2>1, <2>2, NextView DEF OrderNext, Order
  <2> QED
    BY <2>3, <2>4
<1>11. Lost' = Lost
  <2>1. Stray' = Stray
    <3>1. CASE orders[mk].quantity = q
      <4>1. orders'[mk] = NoOrder /\ Listed' = Listed \ {mk}
        BY <1>1, <3>1 DEF SettleStep
      <4> QED
        BY <1>3, <1>5, <4>1, NextView DEF Stray, Known
    <3>2. CASE orders[mk].quantity # q
      <4>1. Listed' = Listed
        BY <1>1, <3>2 DEF SettleStep
      <4> QED
        BY <1>3, <1>5, <4>1, NextView DEF Stray, Known
    <3> QED
      BY <3>1, <3>2
  <2>2. \A id \in Stray : orders'[id] = orders[id]
    BY <1>3 DEF Stray, Known
  <2> QED
    BY <2>1, <2>2, NextView, SameOrders DEF Lost
<1>12. ReportedFill' = NoOrder
  BY <1>5, NextView
<1>13. /\ \E x \in Resting :
            /\ x.id = ReportedFill.maker_order_id
            /\ Resting' = (Resting \ {x}) \cup
                 (IF x.quantity = ReportedFill.quantity THEN {}
                  ELSE {[x EXCEPT !.quantity = @ - ReportedFill.quantity]})
       /\ Incoming' = [Incoming EXCEPT !.quantity = @ - ReportedFill.quantity]
  BY <1>6, <1>7, <1>9, <1>10
<1> QED
  BY <1>3, <1>6, <1>11, <1>12, <1>13 DEF PriceTime!Settle

LEMMA RestMaps ==
  ASSUME GoInv, Rest
  PROVE  PriceTime!Finish
<1>1. PICK tk, S, P : RestStep(tk, S, P)
  BY RestEffect
<1>2. /\ CannotTrade /\ ~Idle /\ ~InCallback
      /\ tk = call.taker /\ tk \in OrderIDs /\ tk \notin Listed
      /\ orders[tk] # NoOrder /\ Taker.quantity > 0
      /\ Listed' = Listed \cup {tk}
      /\ call' = IdleCall /\ result' = "SUCCESS"
      /\ UNCHANGED <<orders, closed, now>>
  BY <1>1 DEF RestStep, Taker
<1>3. /\ Idle' /\ ~InCallback' /\ call'.taker = NoOrder /\ NoOrder \notin OrderIDs
  BY <1>2, IdleNow, NoOrderAssumption DEF IdleCall
<1>4. \A id : OrderNext(id) = OrderWith(id)
  BY <1>2 DEF OrderNext, OrderWith
<1>5. /\ Incoming = OrderWith(tk) /\ Incoming # NoOrder /\ ReportedFill = NoOrder
      /\ Incoming.quantity > 0
  BY <1>2, IncomingFacts, ReportedFacts
<1>6. Resting' = Resting \cup {Incoming}
  BY <1>2, <1>4, <1>5, NextView DEF Resting
<1>7. Lost' = Lost
  <2>1. Stray' = Stray
    BY <1>2, <1>3, NextView DEF Stray, Known
  <2> QED
    BY <1>4, <2>1, NextView DEF Lost
<1>8. Incoming' = NoOrder /\ ReportedFill' = NoOrder
  BY <1>3, NextView
<1>9. PriceTime!Matchable = {}
  <2>1. ASSUME NEW o \in Resting, o.side = Opposite(Taker.side)
        PROVE  ~Crosses(Taker.side, Taker.price, o.price)
    <3>1. PICK id \in Listed : o = OrderWith(id)
      BY DEF Resting
    <3>2. o.price \in Levels(Opposite(Taker.side))
      BY <2>1, <3>1, ListedFacts, OrderWithFacts DEF GoInv
    <3> QED
      BY <1>2, <3>2, NothingCrosses
  <2> QED
    BY <1>2, <2>1, MatchableFacts
<1> QED
  BY <1>2, <1>5, <1>6, <1>7, <1>8, <1>9 DEF PriceTime!Finish

LEMMA FilledMaps ==
  ASSUME GoInv, Filled
  PROVE  PriceTime!Finish
<1>1. PICK tk : tk = call.taker /\ FilledStep(tk)
  BY FilledEffect
<1>2. /\ ~Idle /\ ~InCallback /\ Taker.quantity = 0
      /\ tk \in OrderIDs /\ tk \notin Listed
      /\ orders'[tk] = NoOrder
      /\ \A id \in OrderIDs \ {tk} : orders'[id] = orders[id]
      /\ Listed' = Listed
      /\ call' = IdleCall /\ result' = "SUCCESS"
      /\ UNCHANGED <<closed, now>>
  BY <1>1 DEF FilledStep
<1>3. /\ Idle' /\ ~InCallback' /\ call'.taker = NoOrder /\ NoOrder \notin OrderIDs
  BY <1>2, IdleNow, NoOrderAssumption DEF IdleCall
<1>4. Incoming # NoOrder /\ ReportedFill = NoOrder /\ Incoming.quantity = 0
  BY <1>2, IncomingFacts, ReportedFacts
<1>5. Resting' = Resting
  <2>1. \A id \in Listed : orders'[id] = orders[id]
    BY <1>2, ListedFacts
  <2> QED
    BY <1>2, <2>1, NextView, SameOrders DEF Resting
<1>6. Lost' = Lost
  <2>1. Stray' = Stray
    BY <1>1, <1>2, <1>3, NextView DEF Stray, Known
  <2>2. \A id \in Stray : orders'[id] = orders[id]
    BY <1>1, <1>2 DEF Stray, Known
  <2> QED
    BY <2>1, <2>2, NextView, SameOrders DEF Lost
<1>7. Incoming' = NoOrder /\ ReportedFill' = NoOrder
  BY <1>3, NextView
<1>8. ReportedFill' = ReportedFill
  BY <1>4, <1>7
<1> QED
  BY <1>2, <1>4, <1>5, <1>6, <1>7, <1>8 DEF PriceTime!Finish

\* A panic leaves the taker in e.orders and in no level.
LEMMA PanicMaps ==
  ASSUME GoInv, Panic
  PROVE  PriceTime!Abandon
<1>1. PICK tk : tk = call.taker
  OBVIOUS
<1>2. /\ InCallback /\ ~Idle
      /\ tk \in OrderIDs /\ tk \notin Listed /\ orders[tk] # NoOrder
      /\ call' = IdleCall /\ result' = "UNKNOWN_ERROR"
      /\ UNCHANGED <<orders, book, closed, now>>
  BY <1>1, CallbackFacts, TakerFacts DEF Panic
<1>3. /\ Idle' /\ ~InCallback' /\ call'.taker = NoOrder /\ NoOrder \notin OrderIDs
  BY <1>2, IdleNow, NoOrderAssumption DEF IdleCall
<1>4. Listed' = Listed
  BY <1>2, UntouchedBook
<1>5. \A id : OrderNext(id) = OrderWith(id)
  BY <1>2 DEF OrderNext, OrderWith
<1>6. Incoming = OrderWith(tk) /\ ReportedFill # NoOrder
  BY <1>1, <1>2, IncomingFacts, ReportedFacts
<1>7. Resting' = Resting
  BY <1>4, <1>5, NextView DEF Resting
<1>8. Lost' = Lost \cup {Incoming}
  <2>1. Stray' = Stray \cup {tk}
    BY <1>1, <1>2, <1>3, <1>4, NextView DEF Stray, Known
  <2> QED
    BY <1>5, <1>6, <2>1, NextView DEF Lost
<1>9. Incoming' = NoOrder /\ ReportedFill' = NoOrder
  BY <1>3, NextView
<1> QED
  BY <1>2, <1>6, <1>7, <1>8, <1>9 DEF PriceTime!Abandon

\* A cancel finds an order that rests or that a panic left behind.
LEMMA CancelMaps ==
  ASSUME GoInv, NEW id \in OrderIDs, CancelOrder(id)
  PROVE  PriceTime!Cancel(id)
<1>1. Idle /\ UNCHANGED <<closed, call, now>>
  BY DEF CancelOrder
<1>2. /\ call.taker = NoOrder /\ NoOrder \notin OrderIDs
      /\ (Idle' <=> Idle) /\ (InCallback' <=> InCallback) /\ ~InCallback
  BY <1>1, NoOrderAssumption
     DEF GoInv, IdleIsClean, IdleCall, Idle, InCallback
<1>3. /\ Incoming = NoOrder /\ Incoming' = NoOrder
      /\ ReportedFill = NoOrder /\ ReportedFill' = NoOrder
  BY <1>1, <1>2, NextView DEF Incoming, ReportedFill
<1>4. (\E o \in Resting \cup Lost : o.id = id) <=> orders[id] # NoOrder
  BY <1>1, KnownIsResting
<1>5. CASE orders[id] = NoOrder
  <2>1. /\ result' = "ORDER_NOT_FOUND" /\ UNCHANGED <<orders, book, call>>
    BY <1>5 DEF CancelOrder
  <2>2. Resting' = Resting /\ Lost' = Lost
    BY <2>1, UntouchedBook, SameView
  <2>3. Resting = {o \in Resting : o.id # id} /\ Lost = {o \in Lost : o.id # id}
    BY <1>4, <1>5
  <2> QED
    BY <1>1, <1>3, <1>4, <1>5, <2>1, <2>2, <2>3
       DEF PriceTime!Cancel, PriceTime!Known
<1>6. CASE orders[id] # NoOrder
  <2>1. CancelStep(id)
    BY <1>6, CancelEffect
  <2>2. /\ orders'[id] = NoOrder /\ result' = "SUCCESS"
        /\ \A other \in OrderIDs \ {id} : orders'[other] = orders[other]
        /\ Listed' = Listed \ {id}
    BY <2>1 DEF CancelStep
  <2>3. Resting' = {o \in Resting : o.id # id}
    <3>1. \A other \in Listed \ {id} : orders'[other] = orders[other]
      BY <2>2, ListedFacts
    <3>2. Resting' = {OrderWith(other) : other \in Listed \ {id}}
      BY <2>2, <3>1, NextView, SameOrders
    <3> QED
      BY <3>2, OrderWithApart DEF Resting
  <2>4. Lost' = {o \in Lost : o.id # id}
    <3>1. Stray' = Stray \ {id}
      BY <1>1, <2>2, NextView DEF Stray, Known
    <3>2. \A other \in Stray \ {id} : orders'[other] = orders[other]
      BY <2>2 DEF Stray, Known
    <3>3. Lost' = {OrderWith(other) : other \in Stray \ {id}}
      BY <3>1, <3>2, NextView, SameOrders
    <3> QED
      BY <3>3, OrderWithApart DEF Lost
  <2> QED
    BY <1>1, <1>3, <1>4, <1>6, <2>2, <2>3, <2>4
       DEF PriceTime!Cancel, PriceTime!Known
<1> QED
  BY <1>5, <1>6

LEMMA CloseMaps ==
  ASSUME GoInv, Close
  PROVE  PriceTime!Close
<1>1. /\ Idle /\ closed' = TRUE
      /\ orders' = [id \in OrderIDs |-> NoOrder]
      /\ book' = [side \in Sides |-> [p \in {} |-> {}]]
      /\ UNCHANGED <<call, now, result>>
  BY DEF Close
<1>2. Listed' = {}
  <2>1. (book = [side \in Sides |-> [p \in {} |-> {}]] => Listed = {})'
    BY EmptyBook, PTL
  <2> QED
    BY <1>1, <2>1
<1>3. Resting' = {} /\ Lost' = {}
  BY <1>1, <1>2, NextView
<1>4. /\ Incoming = NoOrder /\ Incoming' = NoOrder
      /\ ReportedFill = NoOrder /\ ReportedFill' = NoOrder
  BY <1>1, NextView DEF Incoming, ReportedFill, Idle, InCallback
<1> QED
  BY <1>1, <1>3, <1>4 DEF PriceTime!Close

LEMMA InitMaps ==
  ASSUME Init
  PROVE  PriceTime!Init
<1>1. Listed = {}
  BY EmptyBook DEF Init
<1>2. Known = {} /\ Idle /\ ~InCallback
  BY DEF Init, Known, IdleCall, Idle, InCallback
<1>3. /\ Resting = {} /\ Lost = {} /\ Incoming = NoOrder
      /\ ReportedFill = NoOrder
  BY <1>1, <1>2 DEF Resting, Lost, Stray, Incoming, ReportedFill
<1> QED
  BY <1>3 DEF Init, PriceTime!Init

LEMMA StepMaps ==
  ASSUME GoInv, [Next]_vars
  PROVE  [PriceTime!Next]_(PriceTime!vars)
<1>1. ASSUME NEW r \in Requests, AddRejected(r) \/ AddAccepted(r)
      PROVE  PriceTime!Next
  <2>1. FixedRequest(r) \in {FixedRequest(s) : s \in Requests}
    OBVIOUS
  <2>2. PriceTime!Accept(FixedRequest(r)) \/ PriceTime!Reject(FixedRequest(r))
    BY <1>1, RejectMaps, AcceptMaps
  <2> QED
    BY <2>1, <2>2 DEF PriceTime!Next
<1>2. CASE ExecuteTrade
  BY <1>2, ReportMaps DEF PriceTime!Next
<1>3. CASE Settle
  BY <1>3, SettleMaps DEF PriceTime!Next
<1>4. CASE Rest \/ Filled
  BY <1>4, RestMaps, FilledMaps DEF PriceTime!Next
<1>5. CASE Panic
  BY <1>5, PanicMaps DEF PriceTime!Next
<1>6. ASSUME NEW id \in OrderIDs, CancelOrder(id)
      PROVE  PriceTime!Next
  BY <1>6, CancelMaps, SameVocabulary DEF PriceTime!Next
<1>7. CASE Close
  BY <1>7, CloseMaps DEF PriceTime!Next
<1>8. CASE SetTradeCallback \/ UNCHANGED vars
  <2>1. UNCHANGED <<orders, book, closed, call, now, result>>
    BY <1>8 DEF SetTradeCallback, vars
  <2>2. /\ Resting' = Resting /\ Lost' = Lost
        /\ Incoming' = Incoming /\ ReportedFill' = ReportedFill
    BY <2>1, UntouchedBook, SameView
  <2> QED
    BY <2>1, <2>2 DEF PriceTime!vars
<1> QED
  BY <1>1, <1>2, <1>3, <1>4, <1>5, <1>6, <1>7, <1>8 DEF Next, Engine

\* The Go engine is a book with price-time priority too: every trade is with
\* the order that has priority at that order's price and settled once, a
\* remainder rests only if nothing crosses it, a panic loses what is left of
\* the taker and nothing else, a lost order's id stays until it is cancelled,
\* and an order is refused only for its arguments, its id or a closed engine
\* (engine.go:134-188, 310-465).
THEOREM GoImplementsPriceTime == Spec => ImplementsPriceTime
<1>1. Init => PriceTime!Init
  BY InitMaps
<1>2. GoInv /\ [Next]_vars => [PriceTime!Next]_(PriceTime!vars)
  BY StepMaps
<1> QED
  BY <1>1, <1>2, GoEngineInvariant, PTL
     DEF Spec, ImplementsPriceTime, PriceTime!Spec

=============================================================================
