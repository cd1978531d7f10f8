SPECIFICATION FairSpec
CONSTANTS
  Trips = {t1, t2}
  Workers = {w1, w2}
  Refunders = {r1}
  MaxAttempts = 2
  PoolSize = 1
  MaxDuplicates = 1
  MaxCrashes = 0
  MaxFaults = 0
PROPERTY EveryChargeSettles
CHECK_DEADLOCK FALSE
