SPECIFICATION FairSpec
CONSTANTS
  NAddr = 3
  PageSize = 2
  Cap = 2
  MaxStall = 2
  MaxWrites = 3
  Faulty = TRUE
INVARIANTS
  TypeOK
  Coherent
  InOrder
  FlushDurable
PROPERTIES
  CallsReturn
  Drains
