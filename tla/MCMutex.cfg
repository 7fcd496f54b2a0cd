CONSTANTS
  t1 = t1
  t2 = t2
  Threads = {t1, t2}
  InvalidHandle = InvalidHandle
  CounterRange = 3
  MaxDepth = 4
SPECIFICATION Spec
CHECK_DEADLOCK FALSE
INVARIANTS
  TryLockExcludes
  OwnerFieldIsHonest
  CounterCountsLocks
