CONSTANTS
  MaxFlows = 2
  MaxReloads = 1
  FirstChains <- MCFirstChains
  Replaceable <- MCReplaceable
  MaxIndex = 1001
  Limit = 150000
  Offered <- MCOffered
  Opening <- MCOpening
SPECIFICATION FairSession
INVARIANTS
  OneLockAtATime
  ApprovalsAreSpent
PROPERTIES
  BufferCovers
  FlowsEnd
CHECK_DEADLOCK FALSE
