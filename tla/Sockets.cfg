SPECIFICATION MCSpec
CONSTANTS
  Socket = {1, 2}
  TradeSocket = 2
  Timeout = 2
  MaxTime = 2
  MaxWork = 1
  None = None
CHECK_DEADLOCK FALSE
INVARIANTS
  TypeOK
  
PROPERTIES
  NoCloseAfterBeginClose
  VerdictsAreAboutHeldSockets
  OrderSocketIsNeverStale
  DeadExpectedSocketIsReported
