SPECIFICATION FairSpec
CONSTANTS
  Trips = {t1}
  Drivers = {d1, d2}
  Nobody = Nobody
  Responders = {r1, r2}
  MaxCandidates = 2
  MaxDuplicates = 0
  MaxCrashes = 1
  MaxFaults = 1
INVARIANT AssignmentsWereAccepted
PROPERTIES LoopsEnd LocksFreed
CHECK_DEADLOCK FALSE
