CONSTANTS
  f1 = f1
  f2 = f2
  f3 = f3
  f4 = f4
  t1 = t1
  t2 = t2
  Fingerprints = {f1, f2, f3}
  NoKey = NoKey
  Free = Free
  Orphan = Orphan
  Threads = {t1, t2}
  ProcOf <- MCOneProc
  TableSize = 2
  WordBits = 2
  NumPages = 4
  ContentMaxPages = 2
  HashInd <- MCWrap
  NumPagesOf <- MCMixedSizes
  MaxCrashes = 1
SPECIFICATION FairSpec
CHECK_DEADLOCK FALSE
INVARIANTS
PROPERTIES
  LockReleased
  LookupTerminates
