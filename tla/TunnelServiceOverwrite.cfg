CONSTANTS
  Callers = {c1, c2}
  MaxOps = 2
  StartMayFail = TRUE
  CallMayBeDropped = FALSE
SPECIFICATION Spec
CHECK_DEADLOCK FALSE
PROPERTIES CancelledStartNeverOverwrites
