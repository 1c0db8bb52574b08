CONSTANTS
  u1 = u1
  u2 = u2
  adapter = adapter
  morpho = morpho
  Receiver = Receiver
  Accounts <- MCAccounts
  TokenAmounts <- MCTokenAmounts
  MaxUint = 3
  Traders <- MCTraders
  Adapter = adapter
  Morpho = morpho
  AdapterAmounts <- MCAdapterAmounts
  Receipts = 1
  Dollars = 2
SPECIFICATION AdapterSpec
SYMMETRY Symmetry
CONSTRAINT FewAllowances
INVARIANTS
  SupplyIsSum
  AdapterKeepsNothing
PROPERTIES
  NoPeerHop
  SpendingIsApproved
