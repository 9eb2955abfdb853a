CONSTANTS
  t1 = t1
  t2 = t2
  s1 = s1
  s2 = s2
  Threads = {t1, t2}
  Symbols = {s1, s2}
  Owner <- OneOwnerEach
  None = None
  Sizes = {1}
  max_daily_volume = 1
  Limits = {2}
  MaxBooks = 2
  MaxVolume = 1
SPECIFICATION Spec
INVARIANT TypeOK
INVARIANT CallsKeepTheirBook
INVARIANT RegistriesNest
