SPECIFICATION FairSpec
CONSTANTS
  Windows = {w1}
  MaxChanges = 2
  MaxLoads = 2
  Faults = {"fail"}
  None = None
INVARIANTS
  CacheTypeOK
  DataAsNewAsMarker
  CopyAsNewAsMarker
  NoAskLost
PROPERTY
  ChangeReaches
CHECK_DEADLOCK FALSE
