CONSTANTS
  MIN_PRICE = 1
  MAX_PRICE = 3
  MAX_QUANTITY = 2
  QuantityModulus = 8
  POOL_CAPACITY = 2
  CallbackCancels = TRUE
  Throws = {}
  MaxTime = 2
  MaxNesting = 1
  PRICE_SCALE_FACTOR = 25
  SIGNIFICAND = 5
  GRID_BITS = 10
  NoOrder = NoOrder
  o1 = o1
  o2 = o2
  Requests <- PyRequests
  Leftovers <- SomeLeftovers
SPECIFICATION PythonSpec
INVARIANT ValidOrdersAreAdded
