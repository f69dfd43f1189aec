CONSTANTS
  a = a
  b = b
  empty = empty
  plain = plain
  mixed = mixed
  twice = twice
  Fingerprints = {a, b}
  ContentSize <- MCContentSize
  Messages = {empty, plain, mixed}
  ChunksOf <- MCChunksOf
  Threshold = 2
  SockBuf = 1
  MaxMsgs = 2
  HostOf <- MCOneHost
  SharedHosts = {"h1"}
  Free = Free
  Others = Others
  Junk = Junk
SPECIFICATION FairSpec
CHECK_DEADLOCK FALSE
INVARIANTS
  LocalNeverMissing

  
  
  
