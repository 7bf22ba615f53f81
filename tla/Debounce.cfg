SPECIFICATION FairSpec
CONSTANTS
  Key = {k1, k2}
  MaxDelay = 2
  MaxMs = 3
INVARIANTS
  TypeOK
  NothingForgotten
PROPERTIES
  Debounced
  Settles
