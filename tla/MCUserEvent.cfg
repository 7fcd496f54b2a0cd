CONSTANTS
  t1 = t1
  t2 = t2
  t3 = t3
  Threads = {t1, t2, t3}
  InvalidHandle = InvalidHandle
  MaxCalls = 2
  AutoClearModes = {TRUE, FALSE}
SPECIFICATION FairSpec
CHECK_DEADLOCK FALSE
INVARIANTS
  OneTakerPerSignal
  AutoClearSignalHasTaker
PROPERTIES
  SignalIsTaken
