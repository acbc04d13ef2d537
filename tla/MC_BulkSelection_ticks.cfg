SPECIFICATION Spec
CONSTANTS
  t1 = t1
  t2 = t2
  t3 = t3
  t4 = t4
  monday = monday
  sunday = sunday
  Ids = {t1, t2, t3, t4}
  Day <- TwoDays
  Lists <- Pages
  ReadOnlies <- Access
  Limit = 2
  MaxVersion = 1
  None = None
INVARIANTS
  SelectionTypeOK
  OnlyEligible
  BaselineKept
  LitWherePointerIs
  ConfirmsWhatIsShown
CHECK_DEADLOCK FALSE
