SPECIFICATION LinkFairSpec
CONSTANTS
  MAX_WAIT_REPLY_CNT = 2
  Conns = {c1, c2}
  NULL = NULL
  MaxPeers = 2
  MaxLost = 1
INVARIANTS OneConnection NoStaleSession
PROPERTIES BrokenStops Reconnects
CHECK_DEADLOCK FALSE
