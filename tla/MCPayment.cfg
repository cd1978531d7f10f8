SPECIFICATION FairSpec
CONSTANTS
  Trips = {t1}
  Workers = {w1, w2}
  Refunders = {r1, r2}
  MaxAttempts = 2
  PoolSize = 3
  MaxDuplicates = 1
  MaxCrashes = 1
  MaxFaults = 1
INVARIANTS TypeOK RetryBudget NoLostCharge AnnouncedOnce OnlyAskedIsCharged ChargesRecorded RefundsRecorded
PROPERTIES ImplementsLedger SettledIsFinal EveryChargeSettles
CHECK_DEADLOCK FALSE
