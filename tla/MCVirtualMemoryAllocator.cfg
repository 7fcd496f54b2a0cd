CONSTANTS
  t1 = t1
  t2 = t2
  Threads = {t1, t2}
  InvalidHandle = InvalidHandle
  SpaceSize = 13
  address_space_start = 2
  address_space_end = 12
  Foreign = {0, 6, 12}
  guard_page_size = 1
  Sizes = {1, 2}
  Alignments = {1, 2}
  MaxCalls = 4
SPECIFICATION FairSpec
INVARIANTS
  ReservationsApart
  NullMeansFull
PROPERTIES
  ReserveReturns
CHECK_DEADLOCK FALSE
