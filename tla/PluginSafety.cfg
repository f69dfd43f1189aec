SPECIFICATION Spec
CONSTANTS
  p1 = p1
  p2 = p2
  c1 = c1
  c2 = c2
  Procs = {p1, p2}
  Conns = {c1, c2}
  Src <- MCSrc
  Dst <- MCDst
  Lives <- MCOnce
  InterfaceLists <- MCInterfaces
  MaxDevs = 2
  NumFds = 2
  MaxFaults = 1
  MaxRequests = 1
  MaxMsgs = 1
  MsgParts = 1
SYMMETRY MCSymmetry
CHECK_DEADLOCK FALSE
INVARIANTS
  TypeOK
  DevicesFit
  FdOwnership
  CommOverEstablished
  ActiveExact
  DumpInStep
