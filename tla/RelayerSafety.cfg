SPECIFICATION RelayerSpec
CONSTANTS
  MaxBlock = 3
  MaxLocks = 2
  MaxStarts = 2
  StartBlock = 0
  Websocket = TRUE
  ChannelCloses = TRUE
  RpcFaults = TRUE
  DiskFaults = TRUE
  MayExpire = FALSE
  MayDrop = TRUE
INVARIANTS
  RelayerTypeOK
  CursorCovers
  DuplicatesHandedOver
  NoGap
CHECK_DEADLOCK FALSE
