CONSTANTS
  borrower = borrower
  venue = venue
  l1 = l1
  l2 = l2
  dvn1 = dvn1
  dvn2 = dvn2
  admin1 = admin1
  admin2 = admin2
  locker = locker
  Receiver = Receiver
  FirstDVN = dvn1
  Accounts <- MCAccounts
  TokenAmounts <- MCAmounts
  ReceiverAdmins <- MCAdmins
  Keys <- MCKeys
  Sources <- MCSources
  MessageIds <- MCIds
  MessageTimes <- MCTimes
  MaxUint = 3
  MaxClock = 2
SPECIFICATION ReceiverSpec
SYMMETRY Symmetry
CONSTRAINT FewApprovals
INVARIANTS
  ReceiverTypeOK
  OneMintPerLock
  ConsumedIffMinted
  SupplyIsMinted
