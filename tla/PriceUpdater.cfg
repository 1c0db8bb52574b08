SPECIFICATION PriceSpec
CONSTANTS
  OracleAdmins = {updater, multisig}
  Signer = updater
  NAVPrices = {20, 30}
  OndoPrices = {1, 2, 3}
  MinPrice = 2
  MaxPrice = 3
  Scale = 10
  MaxAge = 4
  Period = 2
  MaxDelay = 3
  MaxTime = 13
INVARIANTS
  PriceTypeOK
  UsableIsRecent
  BoundedOutage
CHECK_DEADLOCK FALSE
