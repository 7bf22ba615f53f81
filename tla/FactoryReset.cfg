SPECIFICATION FairSpec
CONSTANTS
  Attempts = 3
  MaxCuts = 2
  MaxSaves = 2
  ClearsHere = TRUE
  Faulty = TRUE
INVARIANTS
  TypeOK
  ResetOnlyWhenAsked
PROPERTIES
  
  
  BootEnds
CHECK_DEADLOCK FALSE
