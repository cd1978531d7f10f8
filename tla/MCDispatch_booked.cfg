SPECIFICATION Spec
CONSTANTS
  Trips = {t1, t2}
  Drivers = {d1}
  Nobody = Nobody
  Responders = {r1}
  MaxCandidates = 1
  MaxDuplicates = 0
  MaxCrashes = 0
  MaxFaults = 0
INVARIANT NeverDoubleBooked
CHECK_DEADLOCK FALSE
