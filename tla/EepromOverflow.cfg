SPECIFICATION Spec
CONSTANTS
  NAddr = 2
  PageSize = 2
  Cap = 2
  MaxStall = 2
  MaxWrites = 4
  Faulty = FALSE
INVARIANT NothingLost
CHECK_DEADLOCK FALSE
