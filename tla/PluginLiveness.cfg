SPECIFICATION FairSpec
CONSTANTS
  p1 = p1
  p2 = p2
  c1 = c1
  c2 = c2
  Procs = {p1, p2}
  Conns = {c1}
  Src <- MCSrc
  Dst <- MCDst
  Lives <- MCTwice
  InterfaceLists <- MCInterfaces
  MaxDevs = 2
  NumFds = 2
  MaxFaults = 2
  MaxRequests = 2
  MaxMsgs = 2
  MsgParts = 2
CHECK_DEADLOCK FALSE
INVARIANTS
  StreamAligned
  ActiveExact
PROPERTIES
  EstablishmentTerminates
  MessagesComplete
