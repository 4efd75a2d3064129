SPECIFICATION FairVerificationSpec
CONSTANTS
  Account = {alice, bob}
  PredictionId = {p1, p2}
  I128 = {0, 1}
  Salt = {s}
  ModelHash = {mh}
  InputHash = {ih}
  H256 <- MCH256
  Blake2 <- MCBlake2
  MaxBlock = 1
INVARIANTS
  VerificationTypeOK
  RevealsAreCommitted
PROPERTIES
  NeverRewritten
  ImplementsCommitReveal
  HonestRevealSucceeds
CHECK_DEADLOCK FALSE
