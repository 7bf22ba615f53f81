SPECIFICATION FairSpec
CONSTANTS
  Huge = 1000
  Over <- MCOver
  Floor <- MCFloor
  Params <- MCParams
  Holdoff = 1
  Confirm = 3
  Recovery = 3
  NoSofFactor = 4
  WarmupTimeout = 3
  WarmupGrace = 2
  SpeedWindow = 3
  SuspendWindow = 3
  EventThreshold = 2
  Persistent = 2
  EnumTimeout = 2
  EnumThreshold = 2
  EnumCap = 3
  EnumRecovery = 2
  Slower = TRUE
  MaxGap = 5
  Budgets <- MCBudgets

  
  
PROPERTIES
  SilenceReported
  Recovers
CHECK_DEADLOCK FALSE
