SPECIFICATION LiveSpec
CONSTANTS
  a = a
  b = b
  c = c
  Symbol = {a, b, c}
  Unknown = {c}
  Budget = 3
  VendorCap = 1
  MaxPending = 8
  MaxAir = 4
CHECK_DEADLOCK FALSE
INVARIANTS
  TypeOK
  EveryRefusalIsNamed
  RevisionsConverge
PROPERTIES
  NothingNewNamedTooEarly
  CorrectionsEnd
