SPECIFICATION Spec
CONSTANTS
  Requests = {r1, r2}
  Accounts = {1, 2}
  TxnIds = {t1, t2}
  Days = {1, 2}
  AnchorDays = {2}
  Amounts <- Deposit
  Operations = {"create", "bulk_update", "delete", "archive"}
  MinUnits <- Lowest
  MaxUnits = 2
  LockKey <- KeyOf
  NoRequest = NoRequest
  NoAccount = NoAccount
  NoTxn = NoTxn
  NoRow = NoRow
  NoDay = NoDay
SYMMETRY Interchangeable
INVARIANTS
  TypeOK
  BalancesArePrefixSums
  SnapshotsChained
PROPERTY
  ImplementsBook
