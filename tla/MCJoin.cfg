CONSTANTS
  KEY_LENGTH_BITS = 3
  MAX_U32 = 3
  K = 1
  NODE_TIMEOUT = 900
  MAX_REQUESTS_PER_WINDOW = 1
  MaxDown = 1
  MaxJoins = 2
  MaxLost = 1
  MaxTimeouts = 2
  Nodes <- MCNodes
  bootstrap <- MCBootstrap
SPECIFICATION Spec
INVARIANTS
  NoCircularWait
  
CHECK_DEADLOCK FALSE
