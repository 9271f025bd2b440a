CONSTANTS
  Keys = {k1, k2}
  Values = {v1, v2}
  Ttls = {0, 1, 2}
  DEFAULT_TTL = 2
  MaxTime = 4
SPECIFICATION DualSpec
INVARIANTS
  SharedMirrorsMemory
  ReturnsLatest
PROPERTY MemoryImplementsTtlMap
