SPECIFICATION FairSpec
CONSTANTS
  RxRoom = 2
  TxRoom = 2
  Delay = 2
  MaxCommands = 5
  MaxInits = 4
  Empty = TRUE
INVARIANTS
  TypeOK
  FlowControl
PROPERTIES
  RightAnswers
  KeepsServing
CHECK_DEADLOCK FALSE
