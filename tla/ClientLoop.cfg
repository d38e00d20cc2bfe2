CONSTANTS
  a = a
  b = b
  Ptrs = {p1, p2, p3, p4, p5}
  Fds = {n1, n2}
  Formats = {a, b}
  Null = Null
  NoFd = NoFd
  NoFormat = NoFormat
  Nearest <- MCNearest
SPECIFICATION FairSpec
INVARIANTS
  DeviceInv
  ConnectionInv
  NoFault
PROPERTIES
  HearsServer
  KeepsSayingHello
CHECK_DEADLOCK FALSE
