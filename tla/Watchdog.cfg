SPECIFICATION SceneSpec
CONSTANTS
  Socket = {1, 2, 3}
  Timeout = 1
  MaxTime = 2
  HeartbeatArmed = TRUE
  None = None
CHECK_DEADLOCK FALSE
INVARIANTS
  TypeOK
  CloseHeldUntilReported
PROPERTIES
  StaleMeansATimeout
  ClosesAreALedger
  HealthyMeansHeard
