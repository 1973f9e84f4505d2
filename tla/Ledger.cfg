SPECIFICATION Spec
CONSTANTS
  MaxMovements = 5
  None = None
CHECK_DEADLOCK FALSE
INVARIANTS
  FirstInFirstOut
  MoneyAddsUp
  EveryGapIsRefused
