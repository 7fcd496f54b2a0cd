CONSTANTS
  main = main
  t1 = t1
  t2 = t2
  Threads = {main, t1, t2}
  InvalidHandle = InvalidHandle
  MainThread = main
  Root = Root
  NoThread = NoThread
  NameLengths = {5, 40}
  MaxCalls = 7
SPECIFICATION FairSpec
CHECK_DEADLOCK FALSE
INVARIANTS
  ListIsExact
  WalkMeetsThreads
  HolderIsCurrent
PROPERTIES
  CallsReturn
