SPECIFICATION MCSpec
CONSTANTS
  p1 = p1
  p2 = p2
  w1 = w1
  Process = {p1, p2}
  Window = {w1}
  None = None
  Due <- EarlyDue
  Abandoned = 1
  Grace = 1
  Hold = 2
  Horizon = 4
  MaxRuns = 3
  MaxBack = 1
CHECK_DEADLOCK FALSE
INVARIANTS
  TypeOK
  AloneNamesItsRuns
  OutageCostsNoGrade
PROPERTIES
  TerminalIsFinal
