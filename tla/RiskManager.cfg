CONSTANTS
  s1 = s1
  s2 = s2
  c1 = c1
  c2 = c2
  Clients = {c1, c2}
  None = None
  Symbols = {s1, s2}
  Prices = {4, 5}
  Sizes = {1, 2}
  QuantityModulus = 16
  PRICE_SCALE_FACTOR = 9
  max_position_per_symbol = 1
  max_order_size = 2
  max_daily_volume = 3
  max_price_deviation = 1
  max_orders_per_second = 2
  circuit_breaker_threshold = 2
  enable_circuit_breaker = TRUE
  MaxGross = 6
  MaxSecond = 2
SPECIFICATION Spec
SYMMETRY Symmetry
INVARIANT TypeOK
INVARIANT RateWithinLimit
INVARIANT VolumeWithinLimit
INVARIANT NetWithinLimit
INVARIANT AverageTracksCost
