CONSTANTS
  t1 = t1
  t2 = t2
  t3 = t3
  t4 = t4
  Threads = {t1, t2, t3, t4}
  InvalidHandle = InvalidHandle
SPECIFICATION FairSpec
INVARIANTS
  TypeOK
  MutualExclusion
  SleepersAreAnnounced
  OwnerIsAccountable
PROPERTIES
  HandOverIsNotStolen
  ImplementsLock
  SleeperEnters
  SomebodyEnters
