SPECIFICATION Spec
CONSTANTS
  Submission = {r1, r2}
  Query = {q}
  Call = {"commit", "reveal"}
  MaxOthers = 1
  MaxForks = 2
INVARIANTS
  ClientTypeOK
  NothingTakenBack
  ReadsOwnWrites
  OneAheadOfFinality
  NoReplay
PROPERTIES
  EveryRequestAnswered
CHECK_DEADLOCK FALSE
