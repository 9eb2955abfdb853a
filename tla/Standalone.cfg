CONSTANTS
  Capacity = 5
  Lists = {bid, ask}
  Orders = {a, b, c, d}
  NoLink = NoLink
  SizeModulus = 32
  capacity = 10
  Sizes = {1, 3}
  Alignments = {1, 4, 8}
  buffer = 12
  BUFFER_ALIGNMENT = 4
  Threads = {t1, t2}
  Latencies = {10, 200}
  NUM_BUCKETS = 2
  MAX_LATENCY_NS = 100
  Percentiles = {100}
  Watched = {"add"}
  MaxRecords = 2
  MaxResets = 2
  MarketPrices = {1, 2, 3, 4, 5, 6}
  ConditionalOrders <- SomeOrders
SPECIFICATION StandaloneSpec
SYMMETRY ThreadSymmetry
INVARIANT ContainersTypeOK
INVARIANT PoolPartition
INVARIANT CountsAreExact
INVARIANT LinksMirror
INVARIANT SizeIsCount
PROPERTY ImplementsFifo
INVARIANT BlocksAreApart
INVARIANT CountersAgree
INVARIANT PercentileIsReached
INVARIANT TrailFiresOnReversal
