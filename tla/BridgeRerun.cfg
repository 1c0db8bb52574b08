CONSTANTS
  u1 = u1
  operator = operator
  dvn = dvn
  here = here
  Receiver = Receiver
  Users <- MCUsers
  Accounts <- MCUsers
  Admins <- MCAdmins
  ReceiverAdmins <- MCAdmins
  Amounts <- MCAmounts
  TokenAmounts <- MCAmounts
  Deadlines <- MCDeadlines
  MessageTimes <- MCDeadlines
  InitialUSDY = 2
  MaxNonce = 2
  MaxUint = 3
  Keys <- MCKeys
  FirstDVN = dvn
  Sources <- MCSources
  Source = here
  MessageIds <- MCLockIds
  MaxClock = 2
  MaxRuns = 2
  HostLead = 0
SPECIFICATION BridgeSpec
INVARIANTS
  ReceiptBacked
