SPECIFICATION Spec
CONSTANTS
  Stream = {"kbd"}
  Length = 5
  MaxReports = 3
  Via = FALSE
  Replug = FALSE
INVARIANT SentOrQueued
CHECK_DEADLOCK FALSE
