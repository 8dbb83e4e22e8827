SPECIFICATION FairSpec
CONSTANTS
  MaxPeerCnt = 2
  Peers = {v1, v2}
  Procs = {p1, p2}
  NoPeer = NoPeer
  NoProc = NoProc
  PollLimit = 1
  RcvBuf = 1
CHECK_DEADLOCK FALSE
INVARIANTS PeerOnce NoLostSender RightSender
PROPERTIES TableSpec StopFreesSlot
