SPECIFICATION FairSpec
CONSTANTS
  Trips = {t1}
  Drivers = {d1}
  NoDriver = NoDriver
  Requests = {r1}
  Fares = {50}
  CancellationFee = 25
  MaxFaults = 0
PROPERTIES AssignedDriverFreed
CHECK_DEADLOCK FALSE
