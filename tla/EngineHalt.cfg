SPECIFICATION MCSpec
CONSTANTS
  closed = closed
  silent = silent
  r1 = r1
  r2 = r2
  Rule = {closed, silent}
  NoRule = NoRule
  NoReason = NoReason
  OperatorReason = OperatorReason
  Request = {r1, r2}
  RepairMax = 2
  OneRule = closed
  OneRequest = r1
INVARIANTS
  TypeOK
  LandedIsInForce
  NothingForgotten
PROPERTIES
  AnnouncedOnce
  OnlyAResumeEndsAHalt
  PersistentFaultHalts
  OwedIsSettled
