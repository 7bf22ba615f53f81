SPECIFICATION FairSpec
CONSTANTS
  Stream = {"kbd", "exk"}
  Length = 3
  MaxReports = 4
  Via = TRUE
  Replug = TRUE
INVARIANTS
  TypeOK
  NotWedged
PROPERTIES
  KindsInOrder
  RingsAreQueues
  BacklogDrains
