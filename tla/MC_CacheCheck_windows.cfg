SPECIFICATION Spec
CONSTANTS
  Windows = {w1, w2}
  MaxChanges = 1
  MaxLoads = 0
  Faults = {}
  None = None
SYMMETRY Interchangeable
INVARIANT
  DataAsNewAsMarker
CHECK_DEADLOCK FALSE
