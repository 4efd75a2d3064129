SPECIFICATION Spec
CONSTANTS
  Submission = {r1}
  Query = {q}
  Call = {"commit", "reveal"}
  MaxOthers = 1
  MaxForks = 0
INVARIANT
  OkMeansExecuted
CHECK_DEADLOCK FALSE
