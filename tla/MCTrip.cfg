SPECIFICATION FairSpec
CONSTANTS
  Trips = {t1, t2}
  Drivers = {d1, d2}
  NoDriver = NoDriver
  Requests = {r1, r2}
  Fares = {50, 70}
  CancellationFee = 25
  MaxFaults = 1
INVARIANTS LockedRowIsCurrent OutboxTellsTheRow FeeForTheDriver PaymentWasReported OnlyEndedTripsFree
PROPERTIES ImplementsLifecycle RequestsAreDecided 
CHECK_DEADLOCK FALSE
