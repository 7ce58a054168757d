CONSTANTS
  Capacity = 8
  Alignment = 2
  Requests = {0, 1, 3, 4, 8}
  MaxWraps = 4
SPECIFICATION FairSpec
INVARIANTS TypeOK SanityChecksHold NoOverwrite
PROPERTIES LendsOnlyFreeBytes OpenReturns
CHECK_DEADLOCK FALSE
