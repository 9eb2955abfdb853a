CONSTANTS
  MIN_PRICE = 0
  MAX_PRICE = 1
  MAX_QUANTITY = 2
  QuantityModulus = 3
  Requests <- SmallRequests
  NoOrder = NoOrder
  Units = 2
  MaxTime = 3
SPECIFICATION FairSpec
INVARIANT TypeOK
INVARIANT LevelsAddUp
PROPERTY ImplementsPriceTime
PROPERTY AddReturns
