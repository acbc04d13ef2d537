SPECIFICATION Spec
CONSTANTS
  a = a
  b = b
  c = c
  d = d
  gone = gone
  Accounts = {a, b, c, d}
  Writable = {a, b, c}
  Closed = {gone}
  Currency <- SmallCurrency
  None = None
  Outside = Outside
  Unanswered = Unanswered
  Ids = {i1, i2}
  Shapes <- SmallShapes
  MaxChanges = 1
SYMMETRY Interchangeable
INVARIANTS
  EditTypeOK
  JudgesAsServer
  SummaryIsTrue
  NoneSitsOutside
  ImpliedHolds
PROPERTIES
  WritesLawful
CHECK_DEADLOCK FALSE
