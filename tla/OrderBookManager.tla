-------------------------- MODULE OrderBookManager --------------------------
(***************************************************************************)
(* The registry of order books (core/include/lob/OrderBookManager.h) and   *)
(* the threads that share it.  register_symbol and unregister_symbol hold  *)
(* its mutex alone, all other methods hold it together with others and are *)
(* inside a book meanwhile.  get_order_book hands out a plain pointer that *)
(* its caller may read through after the mutex is released, and            *)
(* get_risk_manager one that it may also change a risk manager through:    *)
(* this is how clients tell one of trades, reset it and set its limits     *)
(* (tests/integration/Test_MultiSymbol.cpp).                               *)
(*                                                                         *)
(* A book is not safe for two threads, and the shared mutex does not keep  *)
(* two out of it: each symbol has a thread that alone calls for it, as     *)
(* docs/architecture/concurrency.md asks (Owner).                          *)
(*                                                                         *)
(* A book is a number, the next one for each book that is built, and the   *)
(* risk manager built with it has the same number.  Of the book's orders   *)
(* the model keeps the quantity that rests, at one price: positive if it   *)
(* is bids, negative if asks.  Of a risk manager it keeps what matters to  *)
(* the volume limit (RiskManager.tla has the rest).                        *)
(***************************************************************************)
EXTENDS Integers, FiniteSets

CONSTANTS
  Threads, Symbols,
  Owner,             \* the thread that calls for each symbol
  None,              \* where there is no book
  Sizes,             \* quantities of orders
  max_daily_volume,  \* RiskManager.h:40, the limit a risk manager starts with
  Limits,            \* daily volumes that set_limits is called with
  MaxBooks,          \* bound on the number of books built
  MaxVolume          \* bound on the quantity a book has traded and holds,
                     \* and on what its risk manager is told

ASSUME ManagerAssumption ==
  /\ None \notin 1 .. MaxBooks
  /\ Sizes \subseteq Nat \ {0}
  /\ Limits \subseteq Nat
  /\ {max_daily_volume, MaxBooks, MaxVolume} \subseteq Nat
  /\ Owner \in [Symbols -> Threads]

VARIABLES
  symbol_info,    \* the keys of symbol_info_
  order_books,    \* order_books_: the book of each of its symbols
  risk_managers,  \* risk_managers_: the risk manager of each of its symbols
  built,          \* how many books were ever built
  alive,          \* the books that are not destroyed
  resting,        \* what rests in each book
  traded,         \* history: what each book traded since its risk manager's
                  \* last reset
  volume,         \* daily_volume_ of each risk manager
  limit,          \* limits_.max_daily_volume of each risk manager
  pointer,        \* what get_order_book returned to each thread
  risk_pointer,   \* what get_risk_manager returned to each thread
  inside          \* the call each thread has into a book, or Outside

books     == <<built, alive, resting, traded>>
registry  == <<symbol_info, order_books, risk_managers>>
riskState == <<volume, limit>>
vars      == <<registry, books, riskState, pointer, risk_pointer, inside>>

Books   == 1 .. MaxBooks
Outside == [book |-> None, shared |-> FALSE, order |-> 0]

\* An entry is gone, or there is one more.
Without(map, symbol) == [s \in DOMAIN map \ {symbol} |-> map[s]]

With(map, symbol, value) ==
  [s \in DOMAIN map \cup {symbol} |-> IF s = symbol THEN value ELSE map[s]]

Init ==
  /\ symbol_info = {}
  /\ order_books = [symbol \in {} |-> None]
  /\ risk_managers = [symbol \in {} |-> None]
  /\ built = 0
  /\ alive = {}
  /\ resting = [b \in Books |-> 0]
  /\ traded = [b \in Books |-> 0]
  /\ volume = [b \in Books |-> 0]
  /\ limit = [b \in Books |-> max_daily_volume]
  /\ pointer = [t \in Threads |-> None]
  /\ risk_pointer = [t \in Threads |-> None]
  /\ inside = [t \in Threads |-> Outside]

Registered(symbol) == symbol \in DOMAIN order_books

\* The mutex can be had alone when no thread holds it shared.
NobodyShares == \A t \in Threads : ~inside[t].shared

-----------------------------------------------------------------------------
(***************************************************************************)
(* register_symbol fills the three maps one after the other.  If memory    *)
(* runs out, the maps filled so far stay filled.                           *)
(***************************************************************************)
Register(t, symbol) ==
  /\ inside[t] = Outside
  /\ NobodyShares
  /\ ~Registered(symbol)
  /\ built < MaxBooks
  /\ symbol_info' = symbol_info \cup {symbol}
  /\ \/ /\ order_books' = With(order_books, symbol, built + 1)
        /\ alive' = alive \cup {built + 1}
        /\ built' = built + 1
        /\ \/ risk_managers' = With(risk_managers, symbol, built + 1)
           \/ UNCHANGED risk_managers
     \/ UNCHANGED <<order_books, alive, built, risk_managers>>
  /\ UNCHANGED <<resting, traded, riskState, pointer, risk_pointer, inside>>

\* The book and its risk manager are gone, with all they held.
Destroy(book) ==
  /\ alive' = alive \ {book}
  /\ resting' = [resting EXCEPT ![book] = 0]
  /\ traded' = [traded EXCEPT ![book] = 0]
  /\ volume' = [volume EXCEPT ![book] = 0]
  /\ limit' = [limit EXCEPT ![book] = max_daily_volume]
  /\ UNCHANGED <<built, pointer, risk_pointer, inside>>

\* Mutant: the mutex is only shared.
UnregisterAmongOthers(t, symbol) ==
  /\ inside[t] = Outside
  /\ Registered(symbol)
  /\ Destroy(order_books[symbol])
  /\ order_books' = Without(order_books, symbol)
  /\ risk_managers' = Without(risk_managers, symbol)
  /\ symbol_info' = symbol_info \ {symbol}

\* Mutant: the risk manager is forgotten.
UnregisterBookOnly(t, symbol) ==
  /\ inside[t] = Outside
  /\ NobodyShares
  /\ Registered(symbol)
  /\ Destroy(order_books[symbol])
  /\ order_books' = Without(order_books, symbol)
  /\ symbol_info' = symbol_info \ {symbol}
  /\ UNCHANGED risk_managers

\* unregister_symbol destroys the book and the risk manager.
Unregister(t, symbol) ==
  /\ inside[t] = Outside
  /\ NobodyShares
  /\ Registered(symbol)
  /\ Destroy(order_books[symbol])
  /\ order_books' = Without(order_books, symbol)
  /\ risk_managers' = Without(risk_managers, symbol)
  /\ symbol_info' = symbol_info \ {symbol}

\* The call goes into a book with an order to add (positive to buy, negative
\* to sell), or with none: a cancel, a query.
Enter(t, book, shared, order) ==
  /\ inside[t] = Outside
  /\ inside' = [inside EXCEPT ![t] =
                  [book |-> book, shared |-> shared, order |-> order]]
  /\ UNCHANGED <<registry, books, riskState, pointer, risk_pointer>>

\* What an order trades with what rests on the other side.
Match(book, order) ==
  LET other == resting[book]
      least(x, y) == IF x < y THEN x ELSE y
  IN  IF order > 0 /\ other < 0 THEN least(order, -other)
      ELSE IF order < 0 /\ other > 0 THEN least(-order, other)
      ELSE 0

WithinBounds(book, order) ==
  /\ resting[book] + order \in (-MaxVolume) .. MaxVolume
  /\ traded[book] + Match(book, order) <= MaxVolume

\* add_order of a symbol that has a book and a risk manager that approves.
AddOrder(t, symbol, order) ==
  /\ Owner[symbol] = t
  /\ Registered(symbol)
  /\ symbol \in DOMAIN risk_managers
  /\ volume[risk_managers[symbol]] + (IF order > 0 THEN order ELSE -order)
       <= limit[risk_managers[symbol]]
  /\ WithinBounds(order_books[symbol], order)
  /\ Enter(t, order_books[symbol], TRUE, order)

\* cancel_order and the queries need only the book.
CancelOrQuery(t, symbol) ==
  /\ Owner[symbol] = t
  /\ Registered(symbol)
  /\ Enter(t, order_books[symbol], TRUE, 0)

\* get_order_book, also of a symbol that is not there.
GetOrderBook(t, symbol) ==
  /\ Owner[symbol] = t
  /\ inside[t] = Outside
  /\ pointer' = [pointer EXCEPT ![t] =
                   IF Registered(symbol) THEN order_books[symbol] ELSE None]
  /\ UNCHANGED <<registry, books, riskState, risk_pointer, inside>>

\* The thread reads the book through its pointer, without the mutex.
UsePointer(t) ==
  /\ pointer[t] # None
  /\ Enter(t, pointer[t], FALSE, 0)

\* Mutant: the order is added twice.
RestingAfterTwice(t) == {resting[inside[t].book] + 2 * inside[t].order}

\* What can rest in the book after the call: the order has matched and rests,
\* or a cancel has taken some of what rested, or nothing was done.
RestingAfter(t) ==
  LET before == resting[inside[t].book]
      order  == inside[t].order
  IN  IF order # 0 \/ ~inside[t].shared THEN {before + order}
      ELSE IF before > 0 THEN 0 .. before ELSE before .. 0

\* The call comes back.  add_order does not tell the risk manager of trades.
Return(t) ==
  /\ inside[t] # Outside
  /\ \E after \in RestingAfter(t) :
       resting' = [resting EXCEPT ![inside[t].book] = after]
  /\ traded' = [traded EXCEPT ![inside[t].book] =
                  @ + Match(inside[t].book, inside[t].order)]
  /\ inside' = [inside EXCEPT ![t] = Outside]
  /\ UNCHANGED <<registry, built, alive, riskState, pointer, risk_pointer>>

-----------------------------------------------------------------------------
(***************************************************************************)
(* The risk manager that get_risk_manager hands out to any thread.  It has *)
(* a mutex of its own, so its methods may be called at any time, also in a *)
(* callback from a book.                                                   *)
(***************************************************************************)
GetRiskManager(t, symbol) ==
  /\ inside[t] = Outside
  /\ risk_pointer' =
       [risk_pointer EXCEPT ![t] =
          IF symbol \in DOMAIN risk_managers THEN risk_managers[symbol]
                                             ELSE None]
  /\ UNCHANGED <<registry, books, riskState, pointer, inside>>

\* Nothing keeps the risk manager from being destroyed; that it is there when
\* the pointer is used is a precondition of the calls below.
MayUse(t, symbol) ==
  symbol \in DOMAIN risk_managers /\ risk_managers[symbol] = risk_pointer[t]

\* update_position: a client reports a trade, or what it takes for one.
UpdatePosition(t, symbol, quantity) ==
  /\ MayUse(t, symbol)
  /\ volume[risk_pointer[t]] + quantity <= MaxVolume
  /\ volume' = [volume EXCEPT ![risk_pointer[t]] = @ + quantity]
  /\ UNCHANGED <<registry, books, limit, pointer, risk_pointer, inside>>

\* reset_daily_volume: a new day.
ResetDailyVolume(t, symbol) ==
  /\ MayUse(t, symbol)
  /\ volume' = [volume EXCEPT ![risk_pointer[t]] = 0]
  /\ traded' = [traded EXCEPT ![risk_pointer[t]] = 0]
  /\ UNCHANGED <<registry, built, alive, resting, limit, pointer,
                 risk_pointer, inside>>

\* set_limits takes no lock: only the thread that calls for the symbol may
\* call it, while no other has the risk manager.
SetLimits(t, symbol, new) ==
  /\ MayUse(t, symbol)
  /\ Owner[symbol] = t
  /\ \A u \in Threads \ {t} : risk_pointer[u] # risk_pointer[t]
  /\ limit' = [limit EXCEPT ![risk_pointer[t]] = new]
  /\ UNCHANGED <<registry, books, volume, pointer, risk_pointer, inside>>

Next ==
  \E t \in Threads :
    \/ \E symbol \in Symbols :
         \/ Register(t, symbol) \/ Unregister(t, symbol)
         \/ CancelOrQuery(t, symbol) \/ GetOrderBook(t, symbol)
         \/ GetRiskManager(t, symbol) \/ ResetDailyVolume(t, symbol)
         \/ \E size \in Sizes :
              \/ AddOrder(t, symbol, size) \/ AddOrder(t, symbol, -size)
              \/ UpdatePosition(t, symbol, size)
         \/ \E new \in Limits : SetLimits(t, symbol, new)
    \/ UsePointer(t)
    \/ Return(t)

Spec == Init /\ [][Next]_vars

-----------------------------------------------------------------------------
\* The type of the state: what rests and what has traded stay within their
\* bounds in every book.
TypeOK ==
  /\ symbol_info \subseteq Symbols
  /\ DOMAIN order_books \subseteq Symbols
  /\ \A symbol \in DOMAIN order_books : order_books[symbol] \in Books
  /\ \A symbol \in DOMAIN risk_managers : risk_managers[symbol] \in Books
  /\ built \in 0 .. MaxBooks
  /\ alive \subseteq 1 .. built
  /\ resting \in [Books -> (-MaxVolume) .. MaxVolume]
  /\ traded \in [Books -> 0 .. MaxVolume]
  /\ volume \in [Books -> 0 .. MaxVolume]
  /\ limit \in [Books -> Limits \cup {max_daily_volume}]
  /\ {pointer, risk_pointer} \subseteq [Threads -> 1 .. built \cup {None}]
  /\ \A t \in Threads : inside[t].book \in 1 .. built \cup {None}

\* A book is not destroyed while a call that came through the manager is
\* inside it, although any thread may unregister any symbol at any time, and
\* the symbol still leads to that book when the call returns (43-55, 91-137).
CallsKeepTheirBook ==
  \A t \in Threads : inside[t].shared =>
    /\ inside[t].book \in alive
    /\ \E symbol \in Symbols :
         Registered(symbol) /\ order_books[symbol] = inside[t].book

\* However registrations fail, are repeated and undone, every symbol with a
\* risk manager has a book and an info, so that unregister_symbol can find
\* and remove all of it, and every book that exists belongs to one symbol.
\* A symbol's risk manager is never one of an earlier registration: it was
\* built with the book it is asked for (28-55, 91-106).
RegistriesNest ==
  /\ DOMAIN risk_managers \subseteq DOMAIN order_books
  /\ \A symbol \in DOMAIN risk_managers :
       risk_managers[symbol] = order_books[symbol]
  /\ DOMAIN order_books \subseteq symbol_info
  /\ alive = {order_books[symbol] : symbol \in DOMAIN order_books}
  /\ Cardinality(alive) = Cardinality(DOMAIN order_books)

\* The claim of RiskManager.h:40, "Max daily trading volume": what a symbol's
\* book trades in a day under the manager's checks stays within it.
VolumeIsLimited ==
  \A symbol \in DOMAIN order_books :
    traded[order_books[symbol]] <= max_daily_volume

=============================================================================
