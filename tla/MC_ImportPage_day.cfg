SPECIFICATION PageSpec
CONSTANTS
  Runs = {u1, u2}
  Rows = {i1, i2}
  Requests = {r1, r2}
  MaxMarks = 5
  Answers = {a1, a2}
  MaxCalls = 5
  Ageing = {"open"}
  NoRequest = NoRequest
  NoRun = NoRun
  NoRow = NoRow
  NoStamp = NoStamp
  NoAnswers = NoAnswers
  NoReply = NoReply
SYMMETRY Interchangeable
INVARIANTS
  PageTypeOK
  NothingTwice
  StoppedMeansNothing
  DoneMeansSaved
CHECK_DEADLOCK FALSE
