CONSTANTS
  t1 = t1
  t2 = t2
  Threads = {t1}
  InvalidHandle = InvalidHandle
  SpaceSize = 12
  address_space_start = 2
  address_space_end = 10
  Foreign = {0, 5}
  guard_page_size = 1
  Sizes = {2, 3}
  Alignments = {1}
  MaxCalls = 3
SPECIFICATION Spec
CHECK_DEADLOCK FALSE
INVARIANTS
  HoleIsLargeEnough
