# A verification project for the limit order book

This directory models the low-latency limit order book of this repository in
TLA+: its two matching engines (C++ and Go), the containers under the first,
the C API and the bindings above it, the risk manager, the metrics and the
registry of books beside it, and what they promise to clients.  TLC checks the models on small
instances.  TLAPS proves most of what they check for every value of the
constants: that both engines implement one abstract price-time book, that the
C++ engine keeps the contracts of its pool and its lists, that the lists keep
theirs, that calls nested to any depth through the C API leave each other's
trades alone, that its prices survive doubles, and the invariants of the risk
manager, the registry, the pool, the arena, the metrics and trailing stops.

## The system

| part | source | state | operations |
|---|---|---|---|
| Matching engine | `core/src/OrderBook.cpp`, `core/include/lob/OrderBook.h` | `bids_`, `asks_` (price to `PriceLevel`), `order_map_`, `memory_pool_`, `trade_callback_` | `add_limit_order`, `cancel_order`, `set_trade_callback`, best bid and ask, quantity at a price, depth, pool counters |
| Object pool | `core/include/lob/MemoryPool.h` | a block of slots, `free_list_` | `allocate`, `deallocate`, counters |
| Intrusive list | `core/include/lob/IntrusiveList.h` | `head_`, `tail_`, `size_`, `next` and `prev` in each order | `push_back`, `remove`, `front`, `clear` |
| Risk manager | `core/include/lob/RiskManager.h` | positions, daily volume, orders this second, last trade price, circuit breaker; a mutex | `check_order`, `update_position`, `check_self_trade`, `set_limits`, resets |
| Order book manager | `core/include/lob/OrderBookManager.h` | a book, a risk manager and an info per symbol; a shared mutex | `register_symbol`, `unregister_symbol`, `add_order`, `cancel_order`, `get_order_book`, `get_risk_manager`, queries |
| Metrics | `core/include/lob/Metrics.h` | relaxed atomic counters and histogram buckets | `record_*`, `percentile`, `reset` |
| Extended orders | `core/include/lob/OrderTypes.h` | stop, trailing and display fields | `should_activate` |
| Arena allocator | `core/include/lob/ArenaAllocator.h` | an offset into a block | `allocate`, `reset`, scopes (`ArenaScoped`) |
| C API | `core/src/CAPI.cpp` | opaque handles, the callback wrapper | one function per engine operation, each with a catch clause |
| Go engine | `bindings/go/engine.go` | its own book in Go maps, a read-write mutex | as the engine, and `Close` |
| Python | `bindings/python/lob/__init__.py` | a handle, a reentrant lock | as the C API, through `ctypes` declarations |
| Rust | `bindings/rust` | a `UniquePtr` to a struct around the handle | as the C API, through a C++ wrapper |
| Command line | `apps/main.cpp` | a book | one engine call per line typed |

How they interact: a client calls the engine, directly, through the C API or a
binding, or through the manager, which asks the risk manager first.  The engine
allocates an order from its pool, matches it against the opposite levels, calls
the trade callback for every trade, and links what is left in a level and in
`order_map_`, or gives the slot back.  The engine is not thread safe and says
so (`docs/architecture/concurrency.md`); the only code that runs in the middle
of a call is the trade callback.

What is hard, and what each part must keep:

* *Engine.*  The loops keep a level iterator and a maker pointer across the
  callback, which may cancel or add orders, or throw.  The levels, the index and the
  pool must describe the same orders; the book must never be crossed; the
  oldest order of the best level must be the one that trades; what is reported
  must be what is settled.
* *Pool.*  `deallocate` checks nothing, so no slot may be given back twice, or
  while something still leads to it.
* *Lists.*  `remove` trusts that the order is in this list.
* *Risk manager.*  A check and the trade it permits are two calls; the first
  order of a symbol is not checked against the position limit; unsigned
  arithmetic decides limits; the breaker compares with a value that was just
  overwritten.
* *Manager.*  Writers of a book run under a shared lock; pointers to books and
  to risk managers outlive it.
* *C API.*  Prices are rounded to doubles and back; an exception ends at the
  innermost call, which may be one made from a callback of another.
* *Metrics.*  A record, a reset and a percentile are many atomic operations, and
  those of different threads fall between each other.
* *Arena.*  Blocks of different sizes and alignments must not overlap; only the
  offset is aligned, in a buffer that is aligned to 64.
* *Conditional orders.*  A trailing stop's answer depends on every price it was
  asked about before.
* *Bindings.*  Foreign-function declarations and ownership that no compiler
  checks.
* *Go engine.*  Callbacks run under a mutex that is not reentrant; zero stands
  for "no price".

`PROJECT.json` lists every hazard with its line and the properties that watch it.

## Modules

| module | models | kind |
|---|---|---|
| `LobCommon` | `Common.h`: sides, limits, error codes, when prices cross, arithmetic of `Quantity`, argument checks | vocabulary |
| `MemoryPool` | `MemoryPool.h`; the guard of `Deallocate` is the contract the code relies on | component |
| `IntrusiveList` | `IntrusiveList.h` with its links; the guards of `PushBack` and `Remove` are the contract | component |
| `FifoLists` | what lists promise: first-in first-out queues, any member can leave, no order in two | abstract specification |
| `OrderBook` | `OrderBook.cpp`, `OrderBook.h`, `Order.h`; uses `MemoryPool` | component |
| `OrderBookReentrant` | the engine with `add_limit_order` called from its callbacks: a stack of interrupted calls; extends `OrderBook` | component |
| `CApi` | `CAPI.cpp`, `CAPI.h`, the price conversions of `Common.h`; extends `OrderBookReentrant` | composition |
| `PythonBinding` | the calls of `bindings/python/lob/__init__.py` as the C API receives them; extends `CApi` | composition |
| `RustBinding` | who owns a book made from Rust | component |
| `PriceTimeBook` | what an engine promises: a set of resting orders and price-time priority, without levels, lists, index or pool | abstract specification |
| `GoEngine` | `bindings/go/engine.go` | component |
| `RiskManager` | `RiskManager.h` and clients that check, trade and report | component |
| `OrderBookManager` | `OrderBookManager.h`, its shared mutex and the threads that use it | component |
| `Metrics` | `Metrics.h`, one step per atomic operation | component |
| `ExtendedOrder` | `OrderTypes.h`: the iceberg split and activation | component |
| `ArenaAllocator` | `ArenaAllocator.h`, blocks as intervals of the buffer | component |
| `MCOrderBook`, `MCCApi`, `MCPythonBinding`, `MCGoEngine`, `MCRiskManager`, `MCOrderBookManager` | requests, prices, owners and symmetry for TLC | instances |
| `MCContainers`, `MCStandalone` | one instance of each part that has no part under it, explored one at a time: the variable `part` is chosen in the initial state | instances |
| `NumberLemmas` | least elements, division with rest and rounding, sums over finite sets | lemmas |
| `OrderBook_proofs` | the engine's inductive invariant (`StepInv`) and what follows from it | proofs |
| `OrderBook_refinement` | `EngineInv`, index, leaks, fills, queries, the contracts of pool and lists, the refinement of `PriceTimeBook` | proofs |
| `CApi_proofs` | the book behind the C API: nested calls, fills, prices as doubles | proofs |
| `GoEngine_proofs` | the Go engine's invariant and its refinement of `PriceTimeBook` | proofs |
| `OrderBookManager_proofs`, `RiskManager_proofs` | the registry; the risk manager | proofs |
| `Standalone_proofs` | pool, lists, arena, metrics, trailing stops | proofs |

How they fit together: both engines implement `PriceTimeBook`
(`ImplementsPriceTime` in each module, with its own refinement mapping).
`OrderBook` keeps the contract of `MemoryPool` (`KeepsPoolContract`) and that of
`FifoLists` (`KeepsListContract`), and `IntrusiveList` implements `FifoLists`
(`ImplementsFifo`), so the engine's model may take a level's list as a sequence.

### The C++ engine

`OrderBook` follows the code step by step where something can come between
steps, and nowhere else.  `AddRejected` is the run of `add_limit_order` to one
of its early returns.  `AddAccepted` allocates.  `ExecuteTrade` is a turn of a
matching loop up to the callback; `SettlePartial` and `SettleFilled` are what
the loop does after it.  `Rest` and `Filled` end the call.  `CancelOrder` and
`CancelNotFound` are `cancel_order`, between calls or from a callback.  `Throw`
is an exception of the callback, of the insertion of a level, or of the
insertion into `order_map_`; nothing before the C API's catch clauses cleans
up.  An address is a slot number; a slot's content is the `Order` in it.  Two
fields of the model's orders are history (`original`, `reported`), used only by
`FillsAddUp`.  The clock counts accepted orders: the code's clock has at least
that order as long as it does not step back, and nothing in the code reads a
time stamp.

A callback that cancels the maker of the very trade it is told of makes the
loop use a freed order and possibly an erased level.  That is undefined
behaviour; `MayCancel` states the precondition that excludes it, and
`MakerStaysInFront` shows that nothing else can disturb the loop.

### Calls within calls

`OrderBookReentrant` lets a callback call `add_limit_order`.  `call` is then the
nested call and `outer` the stack of those it interrupted; `ExecuteTrade`,
`SettlePartial`, `SettleFilled` and the cancellations are `OrderBook`'s own, and
only the steps that begin or end a call are stated again, because they push and
pop.  `LeavesTradesAlone` is the precondition on callbacks that the code does
not check: no nested order may be able to trade with the maker of a reported and
unsettled trade, and none may have the id of an order being matched.  Under it
`SuspendedTradesStand` holds: whatever was rested, traded and cancelled
meanwhile, every interrupted loop finds its level, its maker in front and the
quantities it read.  The maker's level need no longer be the best one, since a
nested order may improve on it.  Time priority survives too, although a nested
order rests before the older order it interrupts: an order that keeps to
`LeavesTradesAlone` never rests at the price of an interrupted taker.

`CApi` adds the handle, null or a book, and lives through create, use and
destroy any number of times.  Sides other than 0 are sells.  Exceptions end the
innermost call (`NestedThrow`).  A double is a multiple of `2^-GRID_BITS` with
`SIGNIFICAND` significant bits, and `Double(n, d)` rounds a quotient to the
nearest, ties to even; `PriceToFixed` and `PriceToDouble` round where the code
does.  With 5 bits and a scale of 25 both of the prices used lose something in each
direction, as 0.0001 does with 53 bits and 10000: truncation in place of
`lround` breaks both price properties.  `lround` is taken to be wide enough for
`MAX_PRICE`; where `long` has 32 bits it is not.  `LimitsHonoured` allows three
quarters of a tick and not a half, because a half is not true: 0.00035 is filed
under 0.0004, and the doubles of the two are more than half a tick apart by the
last bit.

`PythonBinding` replaces the arguments of an add by what the C function receives
(`Received`); `Leftovers` is what the register holds that the caller does not
set, in its run a legal price, the most favourable case.
`RustBinding` keeps only which books exist and what each wrapper points to.

### Parts that stand alone

In `Metrics` a `record_*` call or a reset is a sequence of atomic operations in
`todo`, and `Step` does the next one of a thread.  `percentile` runs on a thread
of its own, a load at a time (`LoadForTotal`, `LoadForTarget`).  `torn` is
history: the calls a reset overlapped.  Relaxed atomics are modelled as
interleaved: each is a single atomic location, and no property relates the order
in which one thread sees two locations change, except `percentile`, which loads
each bucket again later and, by coherence, never sees an older value.

`ExtendedOrder` asks `should_activate` about one price after the other; the
extremes of the prices shown to the active order are history.  An order that is
not conditional or not active is answered before its activation price is
touched (`Considered`).  The code never clears `is_active`, so an order that
fired can fire again; its owner may clear the public field (`Switch`), as
`tests/unit/Test_OrderTypes.cpp` does.

In `ArenaAllocator` a block is kept as an offset, and its address is that of the
buffer plus the offset (`Address`).  `_aligned_malloc` puts the buffer at a
multiple of 64 (`BUFFER_ALIGNMENT`) and `allocate` aligns the offset only: an
alignment that divides 64 holds of the address too, and one of 128 or more need
not.  `BlocksAreApart` promises no more than that; the run has an alignment of
twice the buffer's, at an address where it fails.  Two things are contracts
that the code does not check: `reset` is not called while a scope is open (the
guard of `Reset`), and alignments are powers of two and sizes so small that the
sums do not wrap (`ArenaAssumption`).

### The Go engine

Every method of `GoEngine` holds the mutex from start to end, so it is one
step, except that `AddLimitOrder` calls back in its loop.  Nothing else runs
then: a callback that calls the engine waits for itself, so the model's callbacks
return or panic.  After a panic the deferred unlock runs, the reported trade is
not settled and the taker is in `orders` but on no level; `PriceTimeBook` has
such orders in `lost`.  Float prices are counted in `Units` to the tick, so that
rounding is part of the model: the abstract book gets the rounded requests.
Unlike `Common.h`, the Go engine accepts a price of 0; `MIN_PRICE` is
therefore a constant.

### The risk manager and the registry

`RiskManager` has one action per outcome of `check_order` (refused before the
rate counter is looked at, refused by it, counted), `update_position` as part of
a client's `Trade`, the resets and the clock.  A client is a thread that checks
an order, trades it in parts and reports each part, or cancels; the approved
orders of different clients overlap as they like.  The limits are constants in
any relation to each other, because the constructor and `set_limits` take any.
Two things follow that the documentation does not say, and the properties give
their size:

* `check_order` reserves nothing, so clients pass the volume and the position
  limit together, by no more than one largest order of each of the others
  (`Overlap`).
* `RiskManager.h:98-99` looks for a position and skips the test when the symbol
  has none.  A first order therefore passes "Max net position per symbol"
  (`RiskManager.h:38`) however large it is, up to `max_order_size`:
  `tests/unit/Test_RiskManager.cpp:46-48` and
  `tests/integration/Test_MultiSymbol.cpp:77-79` set a position limit of 1000
  with the default order size of 100000, and a first order of 50000 is approved.
  `NetWithinLimit` bounds a long position by the larger of the two limits and a
  short one by the order limit; `risk` has a position limit of 1 and orders of
  2, and both bounds are reached there.

The tests of `check_order` that set no state are operators.  `check_self_trade`
reads positions and is not modelled; `set_limits` changes the limits without
the mutex and is taken to be called before trading.

`OrderBookManager` splits a call into a book in two steps, entering under the
shared mutex and returning, and lets registrations run out of memory between
the three maps.  Two threads inside one book would be a data race that the
shared mutex does not prevent; the model assumes the thread affinity that
`docs/architecture/concurrency.md` asks for (`Owner`).  `UsePointer` is a use
of what `get_order_book` returned, after the mutex is released.
`get_risk_manager` hands out a risk manager that may be changed
(`GetRiskManager`): any thread may report trades to it, true or not
(`UpdatePosition`), or start a new day (`ResetDailyVolume`), and the symbol's own
may set its limits (`SetLimits`), also while others are inside books.  The
preconditions are stated
as guards: a risk manager is not used after it was destroyed (`MayUse`), as
nothing would stop that, and since `set_limits` takes no lock, only the symbol's
own thread calls it, while no other holds the pointer.

## Runs

| run | bounds | shows |
|---|---|---|
| `core` | 4 ids, 3 slots, 4 accepted orders, callbacks cancel | the book is never crossed, index and lists agree, time priority, the loop's pointers survive callbacks, nothing leaks, queries show what rests, fills add up; implements `PriceTimeBook`; keeps the contracts of pool and lists.  Nothing throws here: what exceptions may not break is `EngineInv` in `throws` |
| `throws` | everything throws, 2 ids, 3 slots, 3 accepted orders | the inductive invariant holds all the same, and every call returns |
| `capi` | 4 ids, 4 slots, 4 accepted orders, one interrupted call, a level may fail to allocate; 5-bit doubles, prices of 1, 1.5 and 1.9 ticks | nested calls leave reported trades alone, the engine's invariants survive them, fills add up, shown prices can be asked about, nobody trades three quarters of a tick past their limit |
| `standalone` | pool of 5 slots; 2 lists, 4 orders; arena of 10 bytes at address 12, aligned to 4, alignments 1, 4 and 8; 2 threads, 2 records, 2 resets, 2 buckets; prices 1 to 6, orders switched off and on | no slot free twice; links mirror each other and spell FIFO queues; arena blocks are apart and aligned; counters agree but for torn resets, a percentile is reached; a trailing stop fires on a reversal |
| `risk` | 2 clients, 2 symbols, prices 4 and 5, 2 seconds, 6 units per side; orders to 2, position limit 1, volume limit 3 | the rate limit holds; volume and net positions pass theirs by the overlap and the unchecked first order at most; averages follow the cost |
| `manager` | 2 threads, 2 symbols, 2 books, one unit of volume, one other limit | no book dies under a call; the three registries stay nested and of one registration each, whatever is done through pointers |
| `go` | 3 ids, prices 0, half a tick, a tick; 3 accepted orders | levels and totals add up, `PriceTimeBook` is implemented, calls return |
| `breaker` | a price move beyond the threshold | *violated* `BigMovesTrip`: the breaker compares a price with itself |
| `manager_volume` | one unit of volume a day | *violated* `VolumeIsLimited`: nobody but a client that does so itself tells the risk manager of trades |
| `go_best_ask` | asks at 0 and at a tick | *violated* `BestAskIsLowest`: 0 is taken for "no price yet" |
| `python` | 2 ids, 3 ticks, quantities to 2 | *violated* `ValidOrdersAreAdded`: the price is taken for the quantity |
| `rust` | 2 wrappers, 2 books | *violated* `BooksAreOwned`: dropping a wrapper destroys no book |

Why the bounds are enough.  The engine runs have two prices, quantities up to
two, quantities modulo 4 (Go: 3), so that a level's total can wrap, every
request within those limits and one bad request per argument check.  Two prices
give a level behind the best one on each side and crossed, equal and separate
prices; three resting orders give a taker with two makers, in one level or in
two; a fourth order meets a full pool; quantity two gives a partial fill on
either side.  `MaxTime` bounds the accepted orders of a behaviour.  Four orders
on a list have inner neighbours on both sides of a removed one.  Two seconds
let the rate counter start over; `MaxGross` lets a position be bought, sold
back and sold short, and by two clients at once past its limit: net positions of
4 and -4 and a volume of 5, what the bounds allow, are reached.  Two
books let both symbols be registered, or one after the other, or one of them
again with pointers to its first book left over.  In `breaker` the threshold is
given in the units of
`max_price_deviation`, as `RiskManager.h:43-45` give both.

In `capi` buys are for two and sells for one, so a buy can take two makers and a
sell fills a resting buy in part; a buy at 1.5 ticks and a sell at 1.9 are
both filed under two, one at the tie and one where truncation would cost
nine tenths of a tick; four orders are the fewest in which a nested
order trades (two makers, the interrupted taker and itself).  Two interrupted
calls would need five: the run has one.  Two records and two resets give a record torn by a reset,
two resets at once, and a reset that repairs what an earlier one tore.  The arena's
alignments include one that skips bytes and one that the buffer does not have.

Ids, symbols and threads are interchangeable, so `core`, `capi`, `risk` and
`standalone` use symmetry; all four check only safety (of the refinements too),
for which it is sound, as no definition tells ids, symbols or threads apart.
`capi` leaves `result` out of its view: no guard reads it and none of the run's
properties is about it.  `throws` and `go` check liveness and
use none.  Deadlock is checked in every run.

Fairness: `FairSpec` of both engines assumes that a call that has begun keeps
running (`WF_vars(Engine)`): the thread or goroutine inside the call is not
stopped, and callbacks return (or throw).  Nothing is assumed of clients.

## Proofs

TLAPS checks every proof.  A theorem below holds for every value of the
constants that the modules' `ASSUME`s allow; hypotheses beyond them are named.
Most of those assumptions are what the code's types say: limits are naturals,
`MAX_QUANTITY` fits in a `Quantity`, there are finitely many threads, clients and
(Go) order ids, no order is `NoOrder`.  Some are contracts of the callers that the
code neither states nor checks: what a client of the arena asks for
(`ArenaAssumption`), that prices of conditional orders are not negative
(`OrdersAssumption`), that no side of a position ever wraps (`MaxGross <
QuantityModulus` in `RiskAssumption`); preconditions that are guards of the
models (`MayCancel`, `LeavesTradesAlone`, `MayUse`, `Owner`) are named with them
above.

*Pool* (`Standalone_proofs`): types, `PoolPartition` and `CountsAreExact`, for
every capacity.

*C++ engine* (`OrderBook_proofs`, `OrderBook_refinement`).  `StepInv` is
inductive whatever throws and whatever callbacks cancel.  Its part `BookInv` is
about the book: levels, index, pool and the order of acceptance.  Its part
`CallInv` is about the running call: its taker is in no list and no index
(`TakerIsPrivate`) and would come last where it rests (`TakerComesLast`), and
the maker of a reported trade stays in front (`MakerInFront`).  None of the
properties is inductive alone.  `NotCrossed` needs the best level to exist
when the opposite side is not empty (well-foundedness of the naturals).
`TimePriority` needs the incoming order to come last.  That a slot is not given
back while a list leads to it needs `ListedAreLive`, `IndexedAreListed`, and
`TakerIsPrivate`.  What a callback's cancellation does is proved once, as
`Unlinked`: no order moves past another, no other order leaves its level, and no
level is left empty.  With one call at a time the taker is also the youngest of all
orders and its trade is at the best price; `EngineInv` says so, and those two
are inductive once `StepInv` is known.

| theorem | holds | besides `StepInv` it needs |
|---|---|---|
| types, `NotCrossed`, `TimePriority`, `EngineInv`, `MakerStaysInFront` | always | |
| `KeepsPoolContract`, `KeepsListContract` | always | |
| `MapIndexesBook` | unless `order_map_` throws | `ListedAreIndexed` |
| `QueriesShowRestingOrders` | unless `order_map_` throws | `TotalsAddUp` |
| `FillsAddUp` | unless a callback throws | |
| `NothingLeaks` | if nothing throws | `ListedAreIndexed` |
| `ImplementsPriceTime` | if only callbacks throw | `TimesDiffer`, `IdleIsClean`, `ListedAreIndexed` |

The hypotheses are facts about the code.  When an entry of
`order_map_` cannot be made, an order is on a level and nobody can cancel it;
when a level cannot be made, an accepted order is gone without a report: the
abstract book has no step for either.  `TotalsAddUp` says that the running total
of a level is the sum over its orders modulo the width of a quantity.  A sum is a
recursive function over subsets, and induction is out of reach as a theorem
with an operator parameter; `NumberLemmas` argues by least counterexample
instead (`SmallestWrong`).

*C API* (`CApi_proofs`), for every number of interrupted calls.  `NestedInv`
is `BookInv`, `ListedAreIndexed` and, in place of `CallInv`, `CallsInv`: of each
call in progress that its taker waits and its trade can be settled
(`CallStands`), and of any two that the later one is out of reach of the trade
of the earlier (`OutOfReach`).  A step of the innermost call is a step of the
engine as `OrderBook_proofs` knows it (`NestedIsStep`), so the lemmas about
the book carry over.  What is new is that it leaves the others `Undisturbed`:
their orders keep their terms and quantities, their takers stay out of the index, and
the lists lose no maker of theirs and gain nothing in front of one.  A call
that is pushed, popped or goes on keeps `CallsInv` then (`CallBegins`,
`CallReturns`, `CallGoesOn`).  `NestedFillsAddUp` follows because no order is in
two unsettled trades (`TradesApart`), so that the sum over them has one term at
most.  The hypothesis is the precondition `LeavesTradesAlone` that is part of the
model; no bound on depth, and levels may fail to allocate.

`LimitsHonoured` and `ShownPricesCanBeAsked` need doubles precise enough for
the prices: `DoublesSuffice` asks for 16 significands per tick of `MAX_PRICE`,
4 doubles in one per unit of scale, and that requests are in the model's range.
53 bits, 10^10 ticks and a scale of 10^4 satisfy it with a wide margin
(2^53 > 16 * 10^10).  `DoubleIsNear` bounds the error of one rounding by half the
spacing of doubles there, and that by the size of the number; `ShownIsNear`,
`FixedIsNear` and `ShownIsFixed` add up the errors of a way through the API.
The invariant behind `LimitsHonoured` is that every live order is filed under
the price its client passed (`PricesInv`); behind `ShownPricesCanBeAsked` are
`TotalsAddUp`, now for nested steps, and `HandleInv`.

*Go engine* (`GoEngine_proofs`).  `GoInv` says of maps what `EngineInv` says of
pointers, and every action does one of three things to the lists: it appends an
order, cuts one out, or leaves them (`BookStep`).  Whatever does that keeps the
order of each list, the index and the totals, so `LevelsAddUp` is proved of
`BookStep` and not of the actions.  `ImplementsPriceTime` holds whatever
panics.  It is given one slot more than there are ids, so the abstract book
never refuses for want of a slot, as the Go engine never does.

*Lists* (`Standalone_proofs`).  `ListInv` says that there is, for each list,
a sequence of different orders that its links spell forwards and backwards, and
that no two lists share an order.  `LinksMirror`, `SizeIsCount` and the
refinement of `FifoLists` follow for any number of lists and orders; what the
iteration in the model returns is found by the least position at which it could
go wrong.

*Arena* (same module).  `BlocksAreApart`, for every buffer, under
`ArenaAssumption`.  What is inductive is that offsets are aligned (`ArenaInv`,
with a lemma on `AlignUp`); that an alignment dividing 64 then holds of the
address follows (`AddressIsAligned`).

*Trailing stops* (same module).  `TrailFiresOnReversal`, for every set of orders
and every sequence of prices and switches: the activation price is a function of
where it started and of the best price the active order was shown.

*Metrics* (same module), for any number of threads, calls and buckets.
`CountersAgree`: an added order is counted in three groups of fields (received;
accepted or rejected; a bucket).  `TornIsBounded` compares what the groups will
come to once the calls that run have finished.  With no reset under way they
differ by at most `torn`.  With one, there is one reset such that everything the
groups hold outside what it has still to zero is at most `torn`; when the last
reset ends, nothing is left to zero and the difference is bounded again.
`PercentileIsReached`: what the loop has added up is at most what is still in
the buckets behind it, and what it still needs is at most what the buckets
before it hold; records only make both larger.

*Risk manager* (`RiskManager_proofs`), for any number of clients and limits in
any relation.  Types, `RateWithinLimit` and `AverageTracksCost` always.
`VolumeWithinLimit` needs `VolumeFits` and `NetWithinLimit` needs `PositionFits`:
the sums `check_order` compares must not wrap, even from where overlapping
clients can take them.  With the defaults (`RiskManager.h:38-40`) both hold for
forty thousand clients; `set_limits` would accept limits for which they do not.
The sum over what clients have approved is bounded by `SumBounded` and
`SumButOne` of `NumberLemmas`.

*Registry* (`OrderBookManager_proofs`).  Types, `CallsKeepTheirBook` and
`RegistriesNest`, for any number of threads, symbols and books, with clients
that change risk managers through their pointers: a call inside a book holds the
shared mutex, and only the exclusive one ends a book.

Only model-checked:

* `AddReturns` of both engines, a liveness property under fairness, which TLAPS
  does not prove.
* The claims that runs refute, and the two bindings, whose runs are
  counterexamples.

## Not modelled

* The command-line application (`apps/main.cpp`): it makes one call of the C++
  interface for each line typed.
* `set_limits` while other threads check, which is a data race, and
  `check_self_trade`, which sets no state.
* A use of a book or of a risk manager after `unregister_symbol` destroyed it.
* In the Go engine, a price that is NaN: it passes `engine.go:143`, and what it
  is converted to is left open by the language.  `poolCapacity` and `PoolFree`
  (`engine.go:282`), which no other code of the engine reads and where more
  orders than the capacity make the difference wrap.
* The pool counters of the C API, which are read from the pool.
* What the Python binding's queries and its callback return: they read an
  integer register where C sets a floating-point one.
* The counters `orders_filled` and `orders_partial_fill`, which nothing
  increments, `last_update_time_ns`, and the text reports of the metrics.
* `Concepts.h` (compile-time constraints), logging, tests, benchmarks, scripts.
* What an insertion into `order_map_` that runs out of memory leaves behind (an
  order that trades but cannot be cancelled) is in the engine's model and in
  `throws`, but no property says it should not be.  Behind the C API, where
  calls nest, only levels fail to allocate: such an order would stay on show
  for good, and `NestedEngineInv` says that index and levels agree.

## Plan

What is left, in this order:

1. `order_map_` running out of memory inside nested calls, with the part of
   `NestedEngineInv` that survives it (everything but `MapIndexesBook`).
2. A refinement of `PriceTimeBook` by `CApi`: with a stack of incoming orders in
   the abstract book, what a nested call means to clients would be stated
   there and not only as invariants.
3. The bindings as compositions with what they do correctly: cancellation
   and queries through Python, and a Rust wrapper that is not dropped.
