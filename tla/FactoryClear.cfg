SPECIFICATION Spec
CONSTANTS
  Attempts = 3
  MaxCuts = 2
  MaxSaves = 1
  ClearsHere = FALSE
  Faulty = FALSE
INVARIANT ClearCarriedOut
CHECK_DEADLOCK FALSE
