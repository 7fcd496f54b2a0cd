CONSTANTS
  t1 = t1
  t2 = t2
  Threads = {t1, t2}
  InvalidHandle = InvalidHandle
  CounterRange = 4
  MaxDepth = 1
SPECIFICATION Spec
CHECK_DEADLOCK FALSE
INVARIANTS
  MutualExclusion
