CONSTANTS
  w1 = w1
  w2 = w2
  Wallets <- MCWallets
  NoWallet = none
  PriceScale = 10
  LltvScale = 100
  VirtualShares = 10
  Cent = 10
  RetryCount = 3
  Scenarios <- MCScenarios
  Prices <- MCPrices
  Interest = 20
SPECIFICATION FairPages
INVARIANTS
  FreshAfterSuccess
  PendingIsReal
  ShownHealthIsTrue
  PegInOneCycle
  ClientIsTheWallets
PROPERTIES
  BorrowBufferCovers
  ReadsComeBack
CHECK_DEADLOCK FALSE
