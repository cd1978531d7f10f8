SPECIFICATION FairSpec
CONSTANTS
  Calls = {t1, t2}
  FailureThreshold = 2
  CallTimeout = 1
  ResetTimeout = 3
  GatewayTimeout = 2
  SurgeTtl = 1
  MaxSupply = 1
  EstDistanceM = 4000
  LegM = 2500
  DurationS = 630
  MaxPoints = 2
CHECK_DEADLOCK FALSE
INVARIANTS ProbesAlone SurgeDecays BilledAsAgreed GaveUpOnHung
PROPERTIES OpenRests PricingNeverBlocks ProbeEnds
