SPECIFICATION Spec
CONSTANTS
  NModes = 2
  Default = 0
  Wrap = 9
  Confirm = 1
  Grace = 2
  MaxLag = 1
  MaxCmds = 1
PROPERTY UserResetKept
CHECK_DEADLOCK FALSE
