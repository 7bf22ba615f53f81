SPECIFICATION FairSpec
CONSTANTS
  k1 = k1
  k2 = k2
  k3 = k3
  x = x
  y = y
  No = No
  NoCode = No
  Plain = {k1, k2, k3, x}
  Channel = {"lr", "ud"}
  Dance = {"td0", "td1"}
  Code = {x, y}
  Budgets <- MCBudgets
  Switches <- MCSwitches
  Actions <- MCActions
INVARIANTS
  TypeOK
  NoGhostKey
  LastWins
PROPERTIES
  RepeatsHeldKeys
  DanceEnds
CHECK_DEADLOCK FALSE
