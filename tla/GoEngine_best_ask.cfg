CONSTANTS
  MIN_PRICE = 0
  MAX_PRICE = 1
  MAX_QUANTITY = 2
  QuantityModulus = 3
  Requests <- SmallRequests
  NoOrder = NoOrder
  Units = 2
  MaxTime = 2
SPECIFICATION Spec
INVARIANT BestAskIsLowest
