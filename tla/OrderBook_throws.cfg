CONSTANTS
  MIN_PRICE = 1
  MAX_PRICE = 2
  MAX_QUANTITY = 2
  QuantityModulus = 4
  POOL_CAPACITY = 3
  CallbackCancels = TRUE
  Throws = {"callback", "level", "index"}
  MaxTime = 3
  NoOrder = NoOrder
  o1 = o1
  o2 = o2
  o3 = o3
  o4 = o4
  Requests <- TwoOrders
SPECIFICATION FairSpec
INVARIANT EngineInv
PROPERTY AddReturns
