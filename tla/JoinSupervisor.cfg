CONSTANTS
  MaxConns = 3
  MaxAttempts = 3
  MaxClients = 1
  SessionsMax = 1
  InitialRetries = 1
  Timeout = "some"
SPECIFICATION FairSpec
CHECK_DEADLOCK FALSE
INVARIANTS OneAcceptor ConnectsPaced
PROPERTIES NoConnectAfterEnd ShutdownEnds OutagesEnd
