CONSTANTS
  f1 = f1
  f2 = f2
  f3 = f3
  f4 = f4
  t1 = t1
  t2 = t2
  Fingerprints = {f1, f2, f3}
  NoKey = NoKey
  Free = Free
  Orphan = Orphan
  Threads = {t1, t2}
  ProcOf <- MCTwoProcs
  TableSize = 4
  WordBits = 4
  NumPages = 3
  ContentMaxPages = 2
  HashInd <- MCWrap
  NumPagesOf <- MCMixedSizes
  MaxCrashes = 0
SPECIFICATION Spec
INVARIANTS
  HitsArePublished
