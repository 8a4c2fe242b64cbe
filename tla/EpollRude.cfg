CONSTANTS
  Conns = {c1, c2}
  Fds = {f1}
  Workers = {w1}
  NoConn = NoConn
  NoFd = NoFd
  Kinds <- RudeKinds
  HeadLen = 1
  MaxRequests = 1
  ReadSize = 2
  MayAbandon = TRUE
SPECIFICATION FairSpec
INVARIANTS TypeOK PayloadOfOwner NoLostEdge
PROPERTIES DescriptorReclaimed
CHECK_DEADLOCK FALSE
