CONSTANTS
  KEY_LENGTH_BITS = 3
  MAX_U32 = 3
  K = 2
  NODE_TIMEOUT = 1
  MaxTime = 3
  ClockStepsBack = FALSE
  ResponseTimes = {10}
  local_node_id <- MCLocal
  Peers <- MCFarPeers
SPECIFICATION Spec
PROPERTY RemoveRemoves
