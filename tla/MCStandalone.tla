---------------------------- MODULE MCStandalone ----------------------------
(***************************************************************************)
(* Small instances of the parts that stand by themselves: the containers   *)
(* the engine is built from (MCContainers.tla), and the metrics and the    *)
(* conditional orders, which nothing in the engine calls.  They share no   *)
(* state, so a run explores each of them alone.                            *)
(***************************************************************************)
EXTENDS MCContainers, TLC

CONSTANTS
  Threads, Latencies, NUM_BUCKETS, MAX_LATENCY_NS, Percentiles, Watched,
  MaxRecords, MaxResets,  \* Metrics.tla
  MarketPrices, ConditionalOrders  \* ExtendedOrder.tla

VARIABLES
  value, todo, scan, answer, records, resets, torn,            \* Metrics.tla
  order, activation_price, display_quantity, hidden_quantity,  \* ExtendedOrder
  is_active, peak, trough, price, fired

\* Every type and side, with stops and starting points around the market.
SomeOrders ==
  [order_type : {"LIMIT", "STOP_LOSS", "TAKE_PROFIT", "ICEBERG",
                 "TRAILING_STOP"},
   side : {"BUY", "SELL"}, quantity : {5},
   stop_price : {3}, take_profit_price : {3}, trail_amount : 0 .. 3,
   activation_price : {0, 3}]

Metric      == INSTANCE Metrics
Conditional == INSTANCE ExtendedOrder WITH Orders <- ConditionalOrders

ASSUME PartsAssumption ==
  Metric!MetricsAssumption /\ Conditional!OrdersAssumption

metricsVars == <<value, todo, scan, answer, records, resets, torn>>
orderVars   == <<order, activation_price, display_quantity, hidden_quantity,
                 is_active, peak, trough, price, fired>>

StandaloneInit ==
  /\ part \in {"pool", "list", "arena", "metrics", "order"}
  /\ ContainersInit /\ Metric!Init
  /\ IF part = "order" THEN Conditional!Init
     ELSE /\ order = << >> /\ price = 0 /\ fired = FALSE
          /\ activation_price = 0 /\ display_quantity = 0
          /\ hidden_quantity = 0 /\ is_active = TRUE /\ peak = 0 /\ trough = 0

MetricsStep ==
  /\ part = "metrics"
  /\ Metric!Next
  /\ UNCHANGED <<containersVars, orderVars, part>>

OrderStep ==
  /\ part = "order"
  /\ Conditional!Next
  /\ UNCHANGED <<containersVars, metricsVars, part>>

StandaloneNext ==
  \/ ContainersStep /\ UNCHANGED <<metricsVars, orderVars>>
  \/ MetricsStep
  \/ OrderStep

StandaloneSpec ==
  /\ StandaloneInit
  /\ [][StandaloneNext]_<<containersVars, metricsVars, orderVars, part>>

\* The threads are interchangeable: no definition tells them apart.
ThreadSymmetry == Permutations(Threads)

-----------------------------------------------------------------------------
\* Metrics.tla: no increment is lost, and what a reset tears is bounded
\* (Metrics.h:119-155).
CountersAgree == part = "metrics" => Metric!CountersAgree

\* Metrics.tla: a percentile computed while others record is reached by the
\* samples (Metrics.h:78-93).
PercentileIsReached == part = "metrics" => Metric!PercentileIsReached

\* ExtendedOrder.tla: a trailing stop fires on a reversal of trail_amount from
\* the best price it was shown while it is active
\* (OrderTypes.h:79-112).
TrailFiresOnReversal == part = "order" => Conditional!TrailFiresOnReversal

=============================================================================
