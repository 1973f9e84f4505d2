SPECIFICATION MCSpec
CONSTANTS
  Horizon = 10
  Cap = 4
  NextRun <- GridNextRun
CHECK_DEADLOCK FALSE
INVARIANTS
  TypeOK
  WakeRemembered
PROPERTIES
  
  WokenOncePerCap
  NoWakeLost
  EverySlotIsCovered
