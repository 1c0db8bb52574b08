SPECIFICATION RestartedRelayerSpec
CONSTANTS
  MaxBlock = 3
  MaxLocks = 2
  MaxStarts = 2
  StartBlock = 0
  Websocket = FALSE
  ChannelCloses = FALSE
  RpcFaults = TRUE
  DiskFaults = FALSE
  MayExpire = TRUE
  MayDrop = FALSE
PROPERTY OnlyExpiryBlocks
CHECK_DEADLOCK FALSE
