CONSTANTS
  u1 = u1
  operator = operator
  successor = successor
  Operator = operator
  Users <- MCUsers
  Admins <- MCAdmins
  Amounts <- MCAmounts
  Deadlines <- MCDeadlines
  InitialUSDY = 2
  MaxNonce = 2
  MaxFlows = 2
  MaxReloads = 0
  FirstChains <- MCFirstChains
  Replaceable <- MCReplaceable
  Posted = 2
  Loans <- MCLoans
  Payments <- MCPayments
  Prices <- MCPrices
  LltvPercent = 86
  MaxAllowance = 10
  Startable <- MCStartable
  Screens <- MCScreens
SPECIFICATION DeskSpec
INVARIANTS
  SuccessMeansUnlocked
  LiquidationIsFresh
PROPERTIES
  LaterLocksStay
CHECK_DEADLOCK FALSE
