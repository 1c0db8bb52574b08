CONSTANTS
  b1 = b1
  b2 = b2
  f1 = f1
  f2 = f2
  Borrowers <- MCBorrowers
  Fetches <- MCFetches
  Lookback = 2
  Chunk = 2
  Lag = 1
  MaxHeight = 3
  MaxLocks = 2
SPECIFICATION FairScan
INVARIANTS
  StoredIsComplete
PROPERTIES
  LocksAreFound
CHECK_DEADLOCK FALSE
