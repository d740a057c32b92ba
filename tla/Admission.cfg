CONSTANTS
  Kinds = {"node", "single"}
  Clients = {c1, c2}
  NoClient = NoClient
  Slots = 1
  MaxTokens = 2
  MaxSessions = 2
SPECIFICATION FairSpec
CHECK_DEADLOCK FALSE
INVARIANTS NewConnectionsNeedNewToken RejectionsHaveCause
PROPERTIES EveryOfferTaken HostEnds
