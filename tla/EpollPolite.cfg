CONSTANTS
  Conns = {c1, c2}
  Fds = {f1, f2}
  Workers = {w1, w2}
  NoConn = NoConn
  NoFd = NoFd
  Kinds <- PoliteKinds
  HeadLen = 1
  MaxRequests = 2
  ReadSize = 2
  MayAbandon = FALSE
SPECIFICATION FairSpec
INVARIANTS ExclusiveObject
PROPERTIES ImplementsHttpService RequestsAnswered
CHECK_DEADLOCK FALSE
