CONSTANTS
  Conns = {c1, c2}
  Fds = {f1}
  Workers = {w1}
  NoConn = NoConn
  NoFd = NoFd
  Kinds <- PoliteKinds
  HeadLen = 1
  MaxRequests = 1
  ReadSize = 2
  MayAbandon = TRUE
SPECIFICATION Spec
PROPERTIES ArmsItsConnection
CHECK_DEADLOCK FALSE
