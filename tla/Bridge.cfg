CONSTANTS
  MaxUnits = 3
  Capacity = 1
SPECIFICATION FairSessionSpec
CHECK_DEADLOCK FALSE
INVARIANT LossesExplained
PROPERTY BothBridgesEnd
