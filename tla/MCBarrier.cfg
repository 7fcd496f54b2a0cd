CONSTANTS
  t1 = t1
  t2 = t2
  t3 = t3
  t4 = t4
  Threads = {t1, t2, t3, t4}
  InvalidHandle = InvalidHandle
  number_to_wait = 3
  MaxCalls = 6
SPECIFICATION BarrierFairSpec
CHECK_DEADLOCK FALSE
INVARIANTS
  TypeOK
  OnlyFirstArrivalsPass
  NobodyIsLeftBehind
PROPERTIES
  BarrierOpens
