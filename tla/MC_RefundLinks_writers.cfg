SPECIFICATION FairSpec
CONSTANTS
  Requests = {r1, r2}
  TxnIds = {1, 2, 3}
  RowsOf <- OneExpense
  Jobs = {"link", "create", "unlink", "edit", "bulk", "delete"}
  NoRequest = NoRequest
  NoTxn = NoTxn
INVARIANTS
  TypeOK
  RefundsFit
  LinksJoin
PROPERTY
  RequestsEnd
