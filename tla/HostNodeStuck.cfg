CONSTANTS
  Users = {u1, u2}
  ServiceIds = {s1}
  MaxStarts = 2
  MaxTokens = 3
  NoProc = NoProc
SPECIFICATION FairSpec
CHECK_DEADLOCK FALSE
PROPERTY CallsReturn
