CONSTANTS
  n1 = n1 n2 = n2 n3 = n3
  Nodes <- MCNodes
  Distance <- MCDistance
  Newcomer = n1
  First = n2
  Phases <- MCPhases
  K = 2
  DEFAULT_TTL = 3
  REPUBLISH_INTERVAL = 3
  MaxOperations = 2
  MaxFaults = 1
  MaxEvents = 6
SPECIFICATION Spec
INVARIANTS
  OldStaysAway
  KeptAlive
PROPERTY StoreTakesEffect
CHECK_DEADLOCK FALSE
