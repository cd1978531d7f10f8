SPECIFICATION FairSpec
CONSTANTS
  Trips = {t1}
  Drivers = {d1}
  Nobody = Nobody
  Responders = {r1}
  MaxCandidates = 1
  MaxDuplicates = 0
  MaxCrashes = 0
  MaxFaults = 0
PROPERTY EveryRequestDecided
CHECK_DEADLOCK FALSE
