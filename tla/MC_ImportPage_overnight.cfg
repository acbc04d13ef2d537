SPECIFICATION PageSpec
CONSTANTS
  Runs = {u1, u2}
  Rows = {i1}
  Requests = {r1, r2}
  MaxMarks = 5
  Answers = {a1, a2}
  MaxCalls = 3
  Ageing = {"open", "saved"}
  NoRequest = NoRequest
  NoRun = NoRun
  NoRow = NoRow
  NoStamp = NoStamp
  NoAnswers = NoAnswers
  NoReply = NoReply
SYMMETRY Interchangeable
INVARIANTS
  NothingTwice
CHECK_DEADLOCK FALSE
