SPECIFICATION Spec
CONSTANTS
  Account = {alice, bob}
  PredictionId = {p1, p2}
  I128 = {0, 2, 3}
  Salt = {s}
  ModelHash = {mh}
  InputHash = {ih}
  H256 <- MCH256
  Blake2 <- MCBlake2
  MaxBlock = 0
  ExistentialDeposit = 2
  Endowment = 5
  Amount = {}
  ModelId = {m1, m2}
  MarketId = {k1}
  StakeAmount = {0, 1, 3}
  MAX_PARTICIPANTS = 2
  BrierDivisor = 2
  MaxBrier = 4
  CorrectAbove = 2
  InitialReputation = 3
  MaxReputation = 4
  ReputationGain = 1
  ReputationLoss = 2
  MaxI128 = 15
  MaxU128 = 20
PROPERTIES
  SettlementPaysInFull
  CloserEarnsNoLess
SYMMETRY Symmetry
CHECK_DEADLOCK FALSE
