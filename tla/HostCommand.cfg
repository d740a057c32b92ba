CONSTANTS
  Periods = {1, 2}
  MaxTime = 5
  MaxTokens = 3
  MaxLaunches = 3
SPECIFICATION FairSpec
CHECK_DEADLOCK FALSE
INVARIANTS LoopAgrees RetiredStaysRetired
PROPERTIES SharedLinkSurvives RotationsReachFile
