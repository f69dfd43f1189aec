CONSTANTS
  a = a
  b = b
  empty = empty
  plain = plain
  mixed = mixed
  twice = twice
  Fingerprints = {a, b}
  ContentSize <- MCContentSize
  Messages = {empty, plain, twice}
  ChunksOf <- MCChunksOf
  Threshold = 2
  SockBuf = 2
  MaxMsgs = 2
  HostOf <- MCTwoHosts
  SharedHosts = {"h2"}
  Free = Free
  Others = Others
  Junk = Junk
SPECIFICATION Spec
CHECK_DEADLOCK FALSE
INVARIANTS
  ConnectionInv
  InStep
  InOrderIntact
  CacheNotPoisoned
  MissingListsAgree
