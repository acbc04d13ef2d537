SPECIFICATION FairSpec
CONSTANTS
  Tabs = {t1, t2}
  Calls = {c1, c2}
  MaxTokens = 5
  NoTab = NoTab
  NoCall = NoCall
INVARIANTS
  SessionTypeOK
  OnePair
  NeverRefusedByTabs
  CookieKeepsUp
PROPERTY
  RefreshEnds
CHECK_DEADLOCK FALSE
