CONSTANTS
  t1 = t1
  t2 = t2
  e1 = e1
  e2 = e2
  o1 = o1
  o2 = o2
  Threads = {t1, t2}
  Events = {e1, e2}
  Objects = {o1, o2}
  NoHandle = NoHandle
  MaxCalls = 4
SPECIFICATION FairSpec
INVARIANTS
  SignalsAreConserved
  HandlesHaveOneHolder
PROPERTIES
  SignalReachesWaiter
CHECK_DEADLOCK FALSE
