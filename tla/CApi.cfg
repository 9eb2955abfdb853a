CONSTANTS
  MIN_PRICE = 1
  MAX_PRICE = 2
  MAX_QUANTITY = 2
  QuantityModulus = 4
  POOL_CAPACITY = 4
  CallbackCancels = TRUE
  Throws = {"level"}
  MaxTime = 4
  MaxNesting = 1
  PRICE_SCALE_FACTOR = 25
  SIGNIFICAND = 5
  GRID_BITS = 10
  NoOrder = NoOrder
  o1 = o1
  o2 = o2
  o3 = o3
  o4 = o4
  Requests <- CRequests
SPECIFICATION CApiSpec
VIEW WithoutResult
SYMMETRY IdSymmetry
INVARIANT NestedEngineInv
INVARIANT SuspendedTradesStand
INVARIANT NestedFillsAddUp
INVARIANT ShownPricesCanBeAsked
INVARIANT LimitsHonoured
