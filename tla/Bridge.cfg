CONSTANTS
  u1 = u1
  operator = operator
  dvn = dvn
  here = here
  Receiver = Receiver
  Users <- MCUsers
  Accounts <- MCUsers
  Admins <- MCAdmins
  ReceiverAdmins <- MCAdmins
  Amounts <- MCTwoAmounts
  TokenAmounts <- MCTwoAmounts
  Deadlines <- MCDeadlines
  MessageTimes <- MCDeadlines
  InitialUSDY = 4
  MaxNonce = 2
  MaxUint = 5
  Keys <- MCKeys
  FirstDVN = dvn
  Sources <- MCSources
  Source = here
  MessageIds <- MCTwoLockIds
  MaxClock = 2
  MaxRuns = 2
  HostLead = 1
SPECIFICATION BridgeSpec
INVARIANTS
  BridgeTypeOK
  ReleasedNeverMinted
  OneRunKeepsReceipts
PROPERTIES
  ImplementsLifecycle
