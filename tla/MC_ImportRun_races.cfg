SPECIFICATION FairSpec
CONSTANTS
  Runs = {u1, u2}
  Rows = {i1, i2}
  Requests = {r1, r2}
  MaxMarks = 5
  NoRequest = NoRequest
  NoRun = NoRun
  NoRow = NoRow
  NoStamp = NoStamp
INVARIANTS
  TypeOK
  MissingMeansUndone
PROPERTIES
  ImplementsImports
  RequestsEnd
