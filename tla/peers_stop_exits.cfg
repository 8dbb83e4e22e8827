SPECIFICATION FairSpec
CONSTANTS
  MaxPeerCnt = 1
  Peers = {v1}
  Procs = {p1}
  NoPeer = NoPeer
  NoProc = NoProc
  PollLimit = 1
  RcvBuf = 1
PROPERTIES StopExits
CHECK_DEADLOCK FALSE
