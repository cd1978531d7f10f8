SPECIFICATION Spec
CONSTANTS
  Trips = {t1}
  Workers = {w1, w2}
  Refunders = {r1}
  MaxAttempts = 2
  PoolSize = 3
  MaxDuplicates = 1
  MaxCrashes = 0
  MaxFaults = 0
INVARIANT NeverDoubleCharged
CHECK_DEADLOCK FALSE
