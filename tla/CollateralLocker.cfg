CONSTANTS
  u1 = u1
  u2 = u2
  a1 = a1
  a2 = a2
  Users <- MCUsers
  Admins <- MCAdmins
  Amounts <- MCAmounts
  Deadlines <- MCDeadlines
  InitialUSDY = 3
  MaxNonce = 2
SPECIFICATION LockerSpec
SYMMETRY Symmetry
INVARIANTS
  LockerTypeOK
  FreshLockIds
  BooksBalance
  UserWhole
