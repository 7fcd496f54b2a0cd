CONSTANTS
  self = self
  main = main
  c1 = c1
  Threads = {self, main, c1}
  InvalidHandle = InvalidHandle
  Self = self
  Owner = main
  Priorities = {44, 59, 63}
  Granted = {44, 59}
  MaxRetries = 1
  MaxLives = 2
  MaxCalls = 2
SPECIFICATION FairSpec
INVARIANTS
  EntryRunsOnce
  UnmappedOnce
  JoinedMeansExited
  PrioritiesAgree
  AbortsOnFailedCreation
PROPERTIES
  OwnerReturns
CHECK_DEADLOCK FALSE
