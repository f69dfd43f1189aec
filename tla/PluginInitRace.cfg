SPECIFICATION Spec
CONSTANTS
  p1 = p1
  p2 = p2
  c1 = c1
  c2 = c2
  Procs = {p1, p2}
  Conns = {c1}
  Src <- MCSrc
  Dst <- MCDst
  Lives <- MCOnce
  InterfaceLists <- MCInterfaces
  MaxDevs = 2
  NumFds = 2
  MaxFaults = 0
  MaxRequests = 1
  MaxMsgs = 1
  MsgParts = 1
CHECK_DEADLOCK FALSE
INVARIANTS
  CacheReadyWhenUsed
