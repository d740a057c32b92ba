CONSTANTS
  Period = 3
  ClockCheckMax = 2
  RetryMin = 1
  RetryMax = 2
  Offsets = {0, 4}
  MaxTime = 8
  MaxFailures = 2
SPECIFICATION FairSpec
CHECK_DEADLOCK FALSE
INVARIANTS TokenNeverOverstays WallExpiryNoticed
PROPERTIES NoEarlyRotation LoopNeverSpins
