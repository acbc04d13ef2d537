SPECIFICATION FairSpec
CONSTANTS
  Requests = {r1, r2}
  Accounts = {1, 2}
  TxnIds = {t1, t2}
  Days = {1, 2}
  AnchorDays = {2}
  Amounts <- Deposit
  Operations = {"create", "update", "delete"}
  MinUnits <- Lowest
  MaxUnits = 1
  LockKey <- KeyOf
  NoRequest = NoRequest
  NoAccount = NoAccount
  NoTxn = NoTxn
  NoRow = NoRow
  NoDay = NoDay
INVARIANTS
  DraftsChained
PROPERTY
  RebuildsFinish
