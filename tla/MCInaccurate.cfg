SPECIFICATION Spec
CONSTANTS
  Account = {alice}
  PredictionId = {p1}
  I128 = {0, 3}
  Salt = {s}
  ModelHash = {mh}
  InputHash = {ih}
  H256 <- MCH256
  Blake2 <- MCBlake2
  MaxBlock = 0
  ExistentialDeposit = 1
  Endowment = 3
  Amount = {}
  ModelId = {m1}
  MarketId = {k1}
  StakeAmount = {1}
  MAX_PARTICIPANTS = 2
  BrierDivisor = 2
  MaxBrier = 4
  CorrectAbove = 2
  InitialReputation = 3
  MaxReputation = 4
  ReputationGain = 1
  ReputationLoss = 2
  MaxI128 = 15
  MaxU128 = 100
PROPERTIES
  InaccurateLoseStake
CHECK_DEADLOCK FALSE
