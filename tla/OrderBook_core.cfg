CONSTANTS
  MIN_PRICE = 1
  MAX_PRICE = 2
  MAX_QUANTITY = 2
  QuantityModulus = 4
  POOL_CAPACITY = 3
  CallbackCancels = TRUE
  Throws = {}
  MaxTime = 4
  NoOrder = NoOrder
  o1 = o1
  o2 = o2
  o3 = o3
  o4 = o4
  Requests <- FourOrders
SPECIFICATION Spec
SYMMETRY IdSymmetry
INVARIANT TypeOK
INVARIANT NotCrossed
INVARIANT MapIndexesBook
INVARIANT TimePriority
INVARIANT MakerStaysInFront
INVARIANT NothingLeaks
INVARIANT QueriesShowRestingOrders
INVARIANT FillsAddUp
PROPERTY ImplementsPriceTime
PROPERTY KeepsPoolContract
PROPERTY KeepsListContract
