CONSTANTS
  KEY_LENGTH_BITS = 3
  MAX_U32 = 3
  K = 2
  NODE_TIMEOUT = 0
  MaxTime = 1
  ClockStepsBack = FALSE
  ResponseTimes = {10}
  Handlers = {h1, h2}
  local_node_id <- MCLocal
  Peers <- MCPeers
SPECIFICATION HandlerSpec
PROPERTIES
  HandlersUseTheTable
  EvictsOnlyItsTarget
  InsertedMeansListed
CHECK_DEADLOCK FALSE
