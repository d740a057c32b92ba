CONSTANTS
  p1 = p1
  p2 = p2
  c1 = c1
  c2 = c2
  c3 = c3
  c4 = c4
  Peers = {p1, p2}
  MaxPlayers = 1
  NoConn = NoConn
  Conns <- MoreConns
  PeerOf <- MorePeerOf
SPECIFICATION Spec
CHECK_DEADLOCK FALSE
SYMMETRY ConnSymmetry
INVARIANT OpenKeepsSession
