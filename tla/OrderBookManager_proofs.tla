----------------------- MODULE OrderBookManager_proofs ----------------------
(***************************************************************************)
(* Proofs about the registry of order books, for every number of threads,  *)
(* symbols and books, however registrations fail, and whatever clients do  *)
(* to the risk managers.                                                   *)
(***************************************************************************)
EXTENDS OrderBookManager, FunctionTheorems, FiniteSetTheorems, TLAPS

\* A thread's call, and what it got from get_order_book and
\* get_risk_manager.
CallsTyped ==
  /\ inside \in [Threads -> [book : 1 .. built \cup {None}, shared : BOOLEAN,
                             order : Int]]
  /\ pointer \in [Threads -> 1 .. built \cup {None}]
  /\ risk_pointer \in [Threads -> 1 .. built \cup {None}]

\* A registered symbol has a book that is alive, and no other symbol has it;
\* every book that is alive is some symbol's.
BooksHaveOneSymbol ==
  /\ \A symbol \in DOMAIN order_books : order_books[symbol] \in 1 .. built
  /\ alive = {order_books[symbol] : symbol \in DOMAIN order_books}
  /\ \A r, s \in DOMAIN order_books : order_books[r] = order_books[s] => r = s

\* A call under the mutex is one for a symbol the thread owns, so no two such
\* calls are in one book; the order it brings still fits the bounds.
CallsAreOwned ==
  \A t \in Threads :
    /\ inside[t].shared =>
         \E symbol \in DOMAIN order_books :
           Owner[symbol] = t /\ order_books[symbol] = inside[t].book
    /\ ~inside[t].shared => inside[t].order = 0
    /\ inside[t].book = None => inside[t] = Outside
    /\ inside[t].order # 0 =>
         inside[t].book # None /\ WithinBounds(inside[t].book, inside[t].order)

Nested ==
  /\ DOMAIN risk_managers \subseteq DOMAIN order_books
  /\ DOMAIN order_books \subseteq symbol_info
  /\ symbol_info \subseteq Symbols
  /\ \A symbol \in DOMAIN risk_managers :
       risk_managers[symbol] = order_books[symbol]

VolumesTyped ==
  /\ resting \in [Books -> (-MaxVolume) .. MaxVolume]
  /\ traded \in [Books -> 0 .. MaxVolume]
  /\ volume \in [Books -> 0 .. MaxVolume]
  /\ limit \in [Books -> Limits \cup {max_daily_volume}]

\* The inductive invariant.
ManagerInv ==
  /\ built \in 0 .. MaxBooks
  /\ CallsTyped
  /\ Nested
  /\ BooksHaveOneSymbol
  /\ CallsAreOwned
  /\ VolumesTyped

LEMMA BookFacts ==
  /\ MaxBooks \in Nat /\ MaxVolume \in Nat
  /\ Books = 1 .. MaxBooks
  /\ None \notin Books
  /\ \A n \in 0 .. MaxBooks : 1 .. n \subseteq Books /\ None \notin 1 .. n
  /\ \A size \in Sizes : size \in Int /\ size # 0 /\ -size \in Int /\ -size # 0
BY ManagerAssumption DEF Books

LEMMA InitInv ==
  ASSUME Init
  PROVE  ManagerInv
<1>1. DOMAIN order_books = {} /\ DOMAIN risk_managers = {}
  BY DEF Init
<1>2. CallsTyped
  BY DEF Init, CallsTyped, Outside
<1>3. Nested
  BY <1>1 DEF Init, Nested
<1>4. BooksHaveOneSymbol
  BY <1>1 DEF Init, BooksHaveOneSymbol
<1>5. CallsAreOwned
  BY DEF Init, CallsAreOwned, Outside
<1>6. VolumesTyped
  BY <1>1, BookFacts DEF Init, VolumesTyped
<1>7. built \in 0 .. MaxBooks
  BY BookFacts DEF Init
<1> QED
  BY <1>2, <1>3, <1>4, <1>5, <1>6, <1>7 DEF ManagerInv

\* Registering and unregistering happen while no thread is in a call under
\* the mutex, so they disturb none.
LEMMA RegisterInv ==
  ASSUME ManagerInv, NEW t \in Threads, NEW symbol \in Symbols,
         Register(t, symbol)
  PROVE  ManagerInv'
<1>1. /\ CallsTyped /\ Nested /\ BooksHaveOneSymbol /\ CallsAreOwned
      /\ VolumesTyped /\ built \in 0 .. MaxBooks
      /\ symbol \notin DOMAIN order_books
      /\ \A u \in Threads : ~inside[u].shared
      /\ built < MaxBooks
      /\ symbol_info' = symbol_info \cup {symbol}
      /\ UNCHANGED <<resting, traded, volume, limit, pointer, risk_pointer,
                     inside>>
  BY DEF ManagerInv, Register, Registered, NobodyShares, riskState
<1>2. built' \in 0 .. MaxBooks /\ built <= built'
  BY <1>1, BookFacts DEF Register
<1>3. CallsTyped'
  <2>1. 1 .. built \subseteq 1 .. built'
    BY <1>1, <1>2
  <2> QED
    BY <1>1, <2>1 DEF CallsTyped
<1>4. CallsAreOwned'
  BY <1>1 DEF CallsAreOwned, WithinBounds, Match
<1>5. CASE UNCHANGED <<order_books, alive, built, risk_managers>>
  BY <1>1, <1>2, <1>3, <1>4, <1>5
     DEF ManagerInv, Nested, BooksHaveOneSymbol, VolumesTyped
<1>6. CASE /\ order_books' = With(order_books, symbol, built + 1)
           /\ alive' = alive \cup {built + 1}
           /\ built' = built + 1
           /\ \/ risk_managers' = With(risk_managers, symbol, built + 1)
              \/ UNCHANGED risk_managers
  <2>1. /\ DOMAIN order_books' = DOMAIN order_books \cup {symbol}
        /\ order_books'[symbol] = built + 1
        /\ \A s \in DOMAIN order_books : order_books'[s] = order_books[s]
    BY <1>1, <1>6 DEF With
  <2>2. /\ DOMAIN risk_managers' \subseteq DOMAIN risk_managers \cup {symbol}
        /\ \A s \in DOMAIN risk_managers' :
             risk_managers'[s] = IF s \in DOMAIN risk_managers
                                   THEN risk_managers[s] ELSE built + 1
    BY <1>1, <1>6 DEF With, Nested
  <2>3. Nested'
    BY <1>1, <2>1, <2>2 DEF Nested
  <2>4. BooksHaveOneSymbol'
    <3>1. \A s \in DOMAIN order_books :
            /\ order_books'[s] \in 1 .. built'
            /\ order_books'[s] # built + 1
      BY <1>1, <1>6, <2>1 DEF BooksHaveOneSymbol
    <3>2. order_books'[symbol] \in 1 .. built'
      BY <1>1, <1>6, <2>1
    <3>3. alive' = {order_books'[s] : s \in DOMAIN order_books'}
      BY <1>1, <1>6, <2>1 DEF BooksHaveOneSymbol
    <3>4. \A r, s \in DOMAIN order_books' :
            order_books'[r] = order_books'[s] => r = s
      BY <1>1, <2>1, <3>1 DEF BooksHaveOneSymbol
    <3> QED
      BY <2>1, <3>1, <3>2, <3>3, <3>4 DEF BooksHaveOneSymbol
  <2>5. VolumesTyped'
    BY <1>1 DEF VolumesTyped
  <2> QED
    BY <1>2, <1>3, <1>4, <2>3, <2>4, <2>5 DEF ManagerInv
<1> QED
  BY <1>5, <1>6 DEF Register

LEMMA UnregisterInv ==
  ASSUME ManagerInv, NEW t \in Threads, NEW symbol \in Symbols,
         Unregister(t, symbol)
  PROVE  ManagerInv'
<1>1. /\ CallsTyped /\ Nested /\ BooksHaveOneSymbol /\ CallsAreOwned
      /\ VolumesTyped /\ built \in 0 .. MaxBooks
      /\ symbol \in DOMAIN order_books
      /\ \A u \in Threads : ~inside[u].shared
      /\ alive' = alive \ {order_books[symbol]}
      /\ symbol_info' = symbol_info \ {symbol}
      /\ UNCHANGED <<built, pointer, risk_pointer, inside>>
  BY DEF ManagerInv, Unregister, Registered, NobodyShares, Destroy
<1>2. /\ DOMAIN order_books' = DOMAIN order_books \ {symbol}
      /\ \A s \in DOMAIN order_books' : order_books'[s] = order_books[s]
      /\ DOMAIN risk_managers' = DOMAIN risk_managers \ {symbol}
      /\ \A s \in DOMAIN risk_managers' : risk_managers'[s] = risk_managers[s]
  BY <1>1 DEF Unregister, Without
<1>3. CallsTyped' /\ VolumesTyped'
  <2>1. VolumesTyped'
    <3>1. 0 \in 0 .. MaxVolume /\ 0 \in (-MaxVolume) .. MaxVolume
      BY BookFacts
    <3>2. PICK bk : bk = order_books[symbol]
      OBVIOUS
    <3>3. /\ resting' = [resting EXCEPT ![bk] = 0]
          /\ traded' = [traded EXCEPT ![bk] = 0]
          /\ volume' = [volume EXCEPT ![bk] = 0]
          /\ limit' = [limit EXCEPT ![bk] = max_daily_volume]
      BY <3>2 DEF Unregister, Destroy
    <3> QED
      BY <1>1, <3>1, <3>3 DEF VolumesTyped
  <2> QED
    BY <1>1, <2>1 DEF CallsTyped
<1>4. CallsAreOwned'
  BY <1>1 DEF CallsAreOwned
<1>5. Nested'
  BY <1>1, <1>2 DEF Nested
<1>6. BooksHaveOneSymbol'
  <2>1. alive' = {order_books'[s] : s \in DOMAIN order_books'}
    BY <1>1, <1>2 DEF BooksHaveOneSymbol
  <2> QED
    BY <1>1, <1>2, <2>1 DEF BooksHaveOneSymbol
<1> QED
  BY <1>1, <1>3, <1>4, <1>5, <1>6 DEF ManagerInv

\* A thread goes into a book: one of a symbol it owns, or one it was given.
LEMMA EnterInv ==
  ASSUME ManagerInv, NEW t \in Threads, NEW bk \in 1 .. built,
         NEW shared \in BOOLEAN, NEW order \in Int,
         Enter(t, bk, shared, order),
         shared => \E symbol \in DOMAIN order_books :
                     Owner[symbol] = t /\ order_books[symbol] = bk,
         ~shared => order = 0,
         order # 0 => WithinBounds(bk, order)
  PROVE  ManagerInv'
<1> DEFINE entered == [book |-> bk, shared |-> shared, order |-> order]
<1>1. /\ CallsTyped /\ Nested /\ BooksHaveOneSymbol /\ CallsAreOwned
      /\ VolumesTyped /\ built \in 0 .. MaxBooks
      /\ inside' = [inside EXCEPT ![t] = entered]
      /\ UNCHANGED <<symbol_info, order_books, risk_managers, built, alive,
                     resting, traded, volume, limit, pointer, risk_pointer>>
  BY DEF ManagerInv, Enter, registry, books, riskState
<1>2. /\ inside'[t] = entered
      /\ \A u \in Threads \ {t} : inside'[u] = inside[u]
  BY <1>1 DEF CallsTyped
<1>3. CallsTyped'
  BY <1>1 DEF CallsTyped
<1>4. bk # None
  BY <1>1, BookFacts
<1>5. CallsAreOwned'
  BY <1>1, <1>2, <1>4 DEF CallsAreOwned, WithinBounds, Match
<1>6. Nested' /\ BooksHaveOneSymbol' /\ VolumesTyped'
  BY <1>1 DEF Nested, BooksHaveOneSymbol, VolumesTyped
<1> QED
  BY <1>1, <1>3, <1>5, <1>6 DEF ManagerInv

LEMMA AddOrderInv ==
  ASSUME ManagerInv, NEW t \in Threads, NEW symbol \in Symbols,
         NEW order \in Int, AddOrder(t, symbol, order)
  PROVE  ManagerInv'
<1>1. /\ symbol \in DOMAIN order_books
      /\ Owner[symbol] = t
      /\ WithinBounds(order_books[symbol], order)
      /\ Enter(t, order_books[symbol], TRUE, order)
  BY DEF AddOrder, Registered
<1>2. order_books[symbol] \in 1 .. built
  BY <1>1 DEF ManagerInv, BooksHaveOneSymbol
<1> QED
  BY <1>1, <1>2, EnterInv

LEMMA CancelOrQueryInv ==
  ASSUME ManagerInv, NEW t \in Threads, NEW symbol \in Symbols,
         CancelOrQuery(t, symbol)
  PROVE  ManagerInv'
<1>1. /\ symbol \in DOMAIN order_books
      /\ Owner[symbol] = t
      /\ Enter(t, order_books[symbol], TRUE, 0)
  BY DEF CancelOrQuery, Registered
<1>2. order_books[symbol] \in 1 .. built
  BY <1>1 DEF ManagerInv, BooksHaveOneSymbol
<1>3. 0 \in Int /\ ~(0 # 0) /\ TRUE \in BOOLEAN
  OBVIOUS
<1> QED
  BY <1>1, <1>2, <1>3, EnterInv, Zenon

LEMMA UsePointerInv ==
  ASSUME ManagerInv, NEW t \in Threads, UsePointer(t)
  PROVE  ManagerInv'
<1>1. pointer[t] \in 1 .. built /\ Enter(t, pointer[t], FALSE, 0)
  BY DEF ManagerInv, CallsTyped, UsePointer
<1>2. 0 \in Int /\ ~(0 # 0) /\ FALSE \in BOOLEAN
  OBVIOUS
<1> QED
  BY <1>1, <1>2, EnterInv, Zenon

\* A pointer is handed out.
LEMMA GetInv ==
  ASSUME ManagerInv, NEW t \in Threads, NEW symbol \in Symbols,
         GetOrderBook(t, symbol) \/ GetRiskManager(t, symbol)
  PROVE  ManagerInv'
<1>1. /\ CallsTyped /\ Nested /\ BooksHaveOneSymbol /\ CallsAreOwned
      /\ VolumesTyped /\ built \in 0 .. MaxBooks
      /\ UNCHANGED <<symbol_info, order_books, risk_managers, built, alive,
                     resting, traded, volume, limit, inside>>
  BY DEF ManagerInv, GetOrderBook, GetRiskManager, registry, books, riskState
<1>2. \A s \in DOMAIN risk_managers : risk_managers[s] \in 1 .. built
  BY <1>1 DEF Nested, BooksHaveOneSymbol
<1>3. /\ pointer' \in [Threads -> 1 .. built \cup {None}]
      /\ risk_pointer' \in [Threads -> 1 .. built \cup {None}]
  <2>1. CASE GetOrderBook(t, symbol)
    BY <1>1, <2>1 DEF GetOrderBook, CallsTyped, BooksHaveOneSymbol, Registered
  <2>2. CASE GetRiskManager(t, symbol)
    BY <1>1, <1>2, <2>2 DEF GetRiskManager, CallsTyped
  <2> QED
    BY <2>1, <2>2
<1> QED
  BY <1>1, <1>3 DEF ManagerInv, CallsTyped, Nested, BooksHaveOneSymbol,
                    CallsAreOwned, VolumesTyped, WithinBounds, Match

\* A client changes a risk manager.  A new day forgets what was traded, which
\* leaves room for the orders under way.
LEMMA RiskInv ==
  ASSUME ManagerInv, NEW t \in Threads, NEW symbol \in Symbols,
         \/ \E size \in Sizes : UpdatePosition(t, symbol, size)
         \/ ResetDailyVolume(t, symbol)
         \/ \E new \in Limits : SetLimits(t, symbol, new)
  PROVE  ManagerInv'
<1>1. /\ CallsTyped /\ Nested /\ BooksHaveOneSymbol /\ CallsAreOwned
      /\ VolumesTyped /\ built \in 0 .. MaxBooks
      /\ UNCHANGED <<symbol_info, order_books, risk_managers, built, alive,
                     resting, pointer, risk_pointer, inside>>
  BY DEF ManagerInv, UpdatePosition, ResetDailyVolume, SetLimits, registry,
         books
<1>2. PICK rm : rm = risk_pointer[t]
  OBVIOUS
<1>3. rm \in Books
  <2>1. rm \in 1 .. built
    BY <1>1, <1>2 DEF MayUse, UpdatePosition, ResetDailyVolume, SetLimits,
                      Nested, BooksHaveOneSymbol
  <2> QED
    BY <1>1, <2>1, BookFacts
<1>4. /\ VolumesTyped'
      /\ traded' = traded \/ traded' = [traded EXCEPT ![rm] = 0]
  <2>1. ASSUME NEW size \in Sizes, UpdatePosition(t, symbol, size)
        PROVE  /\ VolumesTyped'
               /\ traded' = traded
    <3>1. /\ volume' = [volume EXCEPT ![rm] = @ + size]
          /\ volume[rm] + size <= MaxVolume
          /\ UNCHANGED <<resting, traded, limit>>
      BY <1>2, <2>1 DEF UpdatePosition, books
    <3>2. volume[rm] + size \in 0 .. MaxVolume
      BY <1>1, <1>3, <3>1, ManagerAssumption DEF VolumesTyped
    <3> QED
      BY <1>1, <1>3, <3>1, <3>2 DEF VolumesTyped
  <2>2. ASSUME ResetDailyVolume(t, symbol)
        PROVE  /\ VolumesTyped'
               /\ traded' = [traded EXCEPT ![rm] = 0]
    <3>1. 0 \in 0 .. MaxVolume
      BY BookFacts
    <3>2. /\ volume' = [volume EXCEPT ![rm] = 0]
          /\ traded' = [traded EXCEPT ![rm] = 0]
          /\ UNCHANGED <<resting, limit>>
      BY <1>2, <2>2 DEF ResetDailyVolume
    <3> QED
      BY <1>1, <3>1, <3>2 DEF VolumesTyped
  <2>3. ASSUME NEW new \in Limits, SetLimits(t, symbol, new)
        PROVE  /\ VolumesTyped'
               /\ traded' = traded
    BY <1>1, <1>2, <2>3 DEF SetLimits, VolumesTyped, books
  <2> QED
    BY <2>1, <2>2, <2>3
<1>5. \A b \in Books : traded'[b] \in Nat /\ traded'[b] <= traded[b]
  <2>1. \A b \in Books : traded[b] \in Nat /\ traded'[b] \in {0, traded[b]}
    <3>1. traded \in [Books -> 0 .. MaxVolume]
      BY <1>1 DEF VolumesTyped
    <3>2. \A b \in Books : traded[b] \in Nat
      BY <3>1, BookFacts
    <3>3. \A b \in Books : traded'[b] \in {0, traded[b]}
      BY <1>4, <3>1
    <3> QED
      BY <3>2, <3>3
  <2> QED
    BY <2>1
<1>6. CallsAreOwned'
  <2> SUFFICES ASSUME NEW u \in Threads, inside[u].order # 0
               PROVE  WithinBounds(inside[u].book, inside[u].order)'
    BY <1>1 DEF CallsAreOwned
  <2>1. PICK other, brought :
          other = inside[u].book /\ brought = inside[u].order
    OBVIOUS
  <2>2. other \in Books /\ brought \in Int /\ WithinBounds(other, brought)
    BY <1>1, <2>1, BookFacts DEF CallsAreOwned, CallsTyped
  <2>3. Match(other, brought) \in Int /\ Match(other, brought)' = Match(other, brought)
    <3>1. resting[other] \in Int
      BY <1>1, <2>2, BookFacts DEF VolumesTyped
    <3> QED
      BY <1>1, <2>2, <3>1 DEF Match
  <2>4. traded[other] \in Nat
    BY <1>1, <2>2, BookFacts DEF VolumesTyped
  <2> QED
    BY <1>1, <1>5, <2>1, <2>2, <2>3, <2>4, BookFacts DEF WithinBounds
<1> QED
  BY <1>1, <1>4, <1>6 DEF ManagerInv, CallsTyped, Nested, BooksHaveOneSymbol

\* What is traded is not negative, and nothing trades without an order.
LEMMA MatchFacts ==
  ASSUME VolumesTyped, NEW bk \in Books, NEW order \in Int
  PROVE  /\ Match(bk, order) \in Nat
         /\ order = 0 => Match(bk, order) = 0
<1>1. resting[bk] \in Int
  BY BookFacts DEF VolumesTyped
<1> QED
  BY <1>1 DEF Match

\* A call comes back.  Only a call that brought an order, or took some of
\* what rested, changes the book, and it is alone there under the mutex.
LEMMA ReturnInv ==
  ASSUME ManagerInv, NEW t \in Threads, Return(t)
  PROVE  ManagerInv'
<1>1. /\ CallsTyped /\ Nested /\ BooksHaveOneSymbol /\ CallsAreOwned
      /\ VolumesTyped /\ built \in 0 .. MaxBooks
      /\ inside[t] # Outside
      /\ inside' = [inside EXCEPT ![t] = Outside]
      /\ UNCHANGED <<symbol_info, order_books, risk_managers, built, alive,
                     volume, limit, pointer, risk_pointer>>
  BY DEF ManagerInv, Return, registry, riskState
<1>a. PICK bk, order : bk = inside[t].book /\ order = inside[t].order
  OBVIOUS
<1>b. PICK after \in RestingAfter(t) : resting' = [resting EXCEPT ![bk] = after]
  BY <1>a DEF Return
<1>c. traded' = [traded EXCEPT ![bk] = @ + Match(bk, order)]
  BY <1>a DEF Return
<1>2. /\ bk \in 1 .. built /\ bk \in Books
      /\ order \in Int
      /\ ~inside[t].shared => order = 0
      /\ order # 0 => WithinBounds(bk, order)
  <2>1. /\ bk \in 1 .. built \cup {None} /\ order \in Int
    BY <1>1, <1>a DEF CallsTyped
  <2>2. bk # None
    BY <1>1, <1>a DEF CallsAreOwned
  <2> QED
    BY <1>1, <1>a, <2>1, <2>2, BookFacts DEF CallsAreOwned
<1>3. /\ inside'[t] = Outside
      /\ \A u \in Threads \ {t} : inside'[u] = inside[u]
  BY <1>1 DEF CallsTyped
<1>4. CallsTyped'
  BY <1>1 DEF CallsTyped, Outside
<1>5. /\ Match(bk, order) \in Nat
      /\ order = 0 => Match(bk, order) = 0
  BY <1>1, <1>2, MatchFacts
<1>6. /\ resting[bk] \in (-MaxVolume) .. MaxVolume
      /\ traded[bk] \in 0 .. MaxVolume
  BY <1>1, <1>2 DEF VolumesTyped
<1>7. after \in (-MaxVolume) .. MaxVolume
  <2>1. CASE order # 0 \/ ~inside[t].shared
    <3>1. after = resting[bk] + order
      BY <1>a, <1>b, <2>1 DEF RestingAfter
    <3> QED
      BY <1>2, <1>6, <2>1, <3>1 DEF WithinBounds
  <2>2. CASE ~(order # 0 \/ ~inside[t].shared)
    <3>1. after \in (IF resting[bk] > 0 THEN 0 .. resting[bk]
                     ELSE resting[bk] .. 0)
      BY <1>a, <1>b, <2>2 DEF RestingAfter
    <3> QED
      BY <1>6, <3>1, BookFacts
  <2> QED
    BY <2>1, <2>2
<1>8. traded[bk] + Match(bk, order) \in 0 .. MaxVolume
  BY <1>2, <1>5, <1>6, BookFacts DEF WithinBounds
<1>9. VolumesTyped'
  BY <1>1, <1>2, <1>b, <1>c, <1>7, <1>8 DEF VolumesTyped
<1>10. ASSUME NEW u \in Threads \ {t}, inside[u].order # 0
       PROVE  WithinBounds(inside[u].book, inside[u].order)'
  <2>1. PICK other, brought : other = inside[u].book /\ brought = inside[u].order
    OBVIOUS
  <2>2. /\ inside[u].shared
        /\ other # None /\ other \in Books
        /\ brought \in Int
        /\ WithinBounds(other, brought)
    BY <1>1, <1>10, <2>1, BookFacts DEF CallsAreOwned, CallsTyped
  <2>3. CASE other # bk
    <3>1. resting'[other] = resting[other] /\ traded'[other] = traded[other]
      BY <1>1, <1>b, <1>c, <2>2, <2>3 DEF VolumesTyped
    <3> QED
      BY <1>3, <2>1, <2>2, <3>1 DEF WithinBounds, Match
  <2>4. CASE other = bk
    <3>1. ~inside[t].shared
      <4> SUFFICES ASSUME inside[t].shared
                   PROVE  FALSE
        OBVIOUS
      <4>1. PICK r \in DOMAIN order_books : Owner[r] = t /\ order_books[r] = bk
        BY <1>1, <1>a DEF CallsAreOwned
      <4>2. PICK s \in DOMAIN order_books :
              Owner[s] = u /\ order_books[s] = other
        BY <1>1, <2>1, <2>2 DEF CallsAreOwned
      <4>3. r = s
        BY <1>1, <2>4, <4>1, <4>2 DEF BooksHaveOneSymbol
      <4> QED
        BY <4>1, <4>2, <4>3
    <3>2. after = resting[bk] /\ order = 0
      BY <1>2, <1>6, <1>a, <1>b, <3>1 DEF RestingAfter
    <3>3. resting'[bk] = resting[bk] /\ traded'[bk] = traded[bk]
      BY <1>1, <1>2, <1>5, <1>6, <1>b, <1>c, <3>2 DEF VolumesTyped
    <3> QED
      BY <1>3, <2>1, <2>2, <2>4, <3>3 DEF WithinBounds, Match
  <2> QED
    BY <2>3, <2>4
<1>11. CallsAreOwned'
  <2> SUFFICES ASSUME NEW u \in Threads
               PROVE  /\ inside'[u].shared =>
                           \E symbol \in DOMAIN order_books :
                             /\ Owner[symbol] = u
                             /\ order_books[symbol] = inside'[u].book
                      /\ ~inside'[u].shared => inside'[u].order = 0
                      /\ inside'[u].book = None => inside'[u] = Outside
                      /\ inside'[u].order # 0 =>
                           /\ inside'[u].book # None
                           /\ WithinBounds(inside[u].book, inside[u].order)'
    BY <1>1 DEF CallsAreOwned
  <2>1. CASE u = t
    BY <1>3, <2>1 DEF Outside
  <2>2. CASE u # t
    BY <1>1, <1>3, <1>10, <2>2 DEF CallsAreOwned
  <2> QED
    BY <2>1, <2>2
<1>12. Nested' /\ BooksHaveOneSymbol'
  BY <1>1 DEF Nested, BooksHaveOneSymbol
<1> QED
  BY <1>1, <1>4, <1>9, <1>11, <1>12 DEF ManagerInv

LEMMA NextInv ==
  ASSUME ManagerInv, [Next]_vars
  PROVE  ManagerInv'
<1>1. ASSUME NEW t \in Threads, NEW symbol \in Symbols, NEW size \in Sizes,
             AddOrder(t, symbol, size) \/ AddOrder(t, symbol, -size)
      PROVE  ManagerInv'
  BY <1>1, AddOrderInv, BookFacts
<1>2. CASE UNCHANGED vars
  BY <1>2 DEF vars, registry, books, riskState, ManagerInv, CallsTyped, Nested, BooksHaveOneSymbol,
              CallsAreOwned, VolumesTyped, WithinBounds, Match
<1> QED
  BY <1>1, <1>2, RegisterInv, UnregisterInv, CancelOrQueryInv,
     GetInv, UsePointerInv, ReturnInv, RiskInv DEF Next

\* The inductive invariant holds in every reachable state.
THEOREM ManagerInvariance == Spec => []ManagerInv
<1>1. Init => ManagerInv
  BY InitInv
<1>2. ManagerInv /\ [Next]_vars => ManagerInv'
  BY NextInv
<1> QED
  BY <1>1, <1>2, PTL DEF Spec

-----------------------------------------------------------------------------
\* The state keeps its type, whatever clients do with the pointers that
\* get_order_book and get_risk_manager hand out (OrderBookManager.h:28-143).
THEOREM TypeCorrectness == Spec => []TypeOK
<1>1. ASSUME ManagerInv
      PROVE  TypeOK
  <2>1. /\ CallsTyped /\ Nested /\ BooksHaveOneSymbol /\ VolumesTyped
        /\ built \in 0 .. MaxBooks
    BY <1>1 DEF ManagerInv
  <2>2. /\ \A symbol \in DOMAIN order_books : order_books[symbol] \in Books
        /\ \A symbol \in DOMAIN risk_managers : risk_managers[symbol] \in Books
    BY <2>1, BookFacts DEF BooksHaveOneSymbol, Nested
  <2>3. alive \subseteq 1 .. built
    BY <2>1 DEF BooksHaveOneSymbol
  <2> QED
    BY <2>1, <2>2, <2>3 DEF TypeOK, CallsTyped, Nested, VolumesTyped
<1> QED
  BY <1>1, ManagerInvariance, PTL

\* A call made through the manager finds its book alive and registered when
\* it returns, whoever registers and unregisters meanwhile
\* (OrderBookManager.h:43-55, 91-137).
THEOREM CallsKeepTheirBooks == Spec => []CallsKeepTheirBook
<1>1. ASSUME ManagerInv
      PROVE  CallsKeepTheirBook
  <2>1. Nested /\ BooksHaveOneSymbol /\ CallsAreOwned
    BY <1>1 DEF ManagerInv
  <2> SUFFICES ASSUME NEW t \in Threads, inside[t].shared
               PROVE  /\ inside[t].book \in alive
                      /\ \E symbol \in Symbols :
                           /\ Registered(symbol)
                           /\ order_books[symbol] = inside[t].book
    BY DEF CallsKeepTheirBook
  <2>2. PICK symbol \in DOMAIN order_books : order_books[symbol] = inside[t].book
    BY <2>1 DEF CallsAreOwned
  <2> QED
    BY <2>1, <2>2 DEF Nested, BooksHaveOneSymbol, Registered
<1> QED
  BY <1>1, ManagerInvariance, PTL

\* The three maps stay nested, every book has one symbol, and a symbol's risk
\* manager is that of its book, however registrations fail half way
\* (OrderBookManager.h:28-55).
THEOREM RegistriesStayNested == Spec => []RegistriesNest
<1>1. ASSUME ManagerInv
      PROVE  RegistriesNest
  <2> DEFINE S == DOMAIN order_books
             bookOf == [symbol \in S |-> order_books[symbol]]
  <2>1. Nested /\ BooksHaveOneSymbol /\ built \in 0 .. MaxBooks
    BY <1>1 DEF ManagerInv
  <2>2. /\ bookOf \in [S -> alive]
        /\ \A b \in alive : \E symbol \in S : bookOf[symbol] = b
        /\ \A r, s \in S : bookOf[r] = bookOf[s] => r = s
    BY <2>1 DEF BooksHaveOneSymbol
  <2>3. bookOf \in Bijection(S, alive)
    BY <2>2, Fun_IsBij
  <2>4. IsFiniteSet(alive)
    <3>1. alive \in SUBSET Nat /\ \A b \in alive : b <= MaxBooks
      BY <2>1, BookFacts DEF BooksHaveOneSymbol
    <3> QED
      BY <3>1, BookFacts, FS_BoundedSetOfNaturals
  <2>5. ExistsBijection(alive, S)
    <3>1. ExistsBijection(S, alive)
      BY <2>3 DEF ExistsBijection
    <3> QED
      BY <3>1, Fun_ExistsBijSymmetric
  <2>6. Cardinality(S) = Cardinality(alive)
    BY <2>4, <2>5, FS_Bijection
  <2> QED
    BY <2>1, <2>6 DEF RegistriesNest, Nested, BooksHaveOneSymbol
<1> QED
  BY <1>1, ManagerInvariance, PTL

=============================================================================
