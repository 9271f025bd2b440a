CONSTANTS
  KEY_LENGTH_BITS = 3
  K = 3
  ALPHA = 2
  Fills = {0, 1}
  MaxTwice = 0
  MAX_ITERATIONS = 3
  MaxHolders = 1
  local_node_id <- MCLocal
  Nodes <- MCNodes
SPECIFICATION MCSpec
INVARIANT FailedAreRemoved
CHECK_DEADLOCK FALSE
