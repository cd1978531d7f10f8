SPECIFICATION Spec
CONSTANTS
  Trips = {t1, t2}
  Drivers = {d1}
  Nobody = Nobody
  Responders = {r1}
  MaxCandidates = 1
  MaxDuplicates = 1
  MaxCrashes = 1
  MaxFaults = 1
SYMMETRY Symmetry
INVARIANTS OfferHoldsLock DecidedOnce
PROPERTIES ImplementsMatching
CHECK_DEADLOCK FALSE
