SPECIFICATION Spec
CONSTANTS
  Drivers = {d1, d2}
  Shards = {s1, s2}
  Trips = {t1}
  None = None
  Tasks = {h1, h2}
  Limit = 1
  MaxSockets = 2
  MaxHandlers = 5
  MaxFaults = 1
SYMMETRY Symmetry
CHECK_DEADLOCK FALSE
INVARIANTS IndexedOnce RideIsStatus PresenceFollowsSocket FoundOnce StayersFound
