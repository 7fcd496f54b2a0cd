CONSTANTS
  t1 = t1
  t2 = t2
  t3 = t3
  Threads = {t1, t2, t3}
  InvalidHandle = InvalidHandle
  Timeouts = {"zero", "finite", "infinite"}
SPECIFICATION CVFairSpec
CHECK_DEADLOCK FALSE
INVARIANTS
  WokenOwnsTheLock
PROPERTIES
  ImplementsMonitor
  SignalledReturns
  TimedWaitReturns
