SPECIFICATION LimiterSpec
CONSTANTS
  Keys = {k1, k2}
  Threads = {t1, t2}
  Limit = 2
  Window = 2
  MaxKeys = 1
  EvictInterval = 2
  MaxClock = 4
  MaxChecks = 4
SYMMETRY Alike
INVARIANTS WindowHolds TableBounded
PROPERTY RefusedForCause
CHECK_DEADLOCK FALSE
