SPECIFICATION Spec
CONSTANTS
  closed = closed
  r1 = r1
  Rule = {closed}
  NoRule = NoRule
  NoReason = NoReason
  OperatorReason = OperatorReason
  Request = {r1}
  RepairMax = 2
PROPERTIES
  TrueMeansTheRowCarriesIt
