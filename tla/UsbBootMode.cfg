SPECIFICATION FairSpec
CONSTANTS
  NModes = 2
  Default = 0
  Wrap = 9
  Confirm = 1
  Grace = 1
  MaxLag = 1
  MaxCmds = 1
INVARIANTS
  TypeOK
  MonitorOffIsQuiet
  
  ModeCacheCoherent
PROPERTIES
  ResetNotEarly
  ResetServed
  CommitServed
