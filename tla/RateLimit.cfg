CONSTANTS
  Ips = {a, b}
  RATE_LIMIT_WINDOW = 2
  MAX_REQUESTS_PER_WINDOW = 2
  MaxTime = 6
SPECIFICATION LimitSpec
INVARIANTS
  AtMostTwiceTheLimit
  RefusedOnlyAtTheLimit
