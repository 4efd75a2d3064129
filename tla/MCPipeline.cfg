SPECIFICATION Spec
CONSTANTS
  MaxUsize = 1000
  GridResolution = 4
  LagPeriods = {1, 2, 3}
  RollingWindow = 2
  Series <- MCSeries
  Window = {0, 1, 2, 3, 5}
  LagList <- MCLagList
  Period = {0, 1, 3}
  Predictions <- MCPredictions
  Actual <- MCActual
  Chart <- MCChart
  Number <- MCNumber
  Salt <- MCSalt
  Field <- MCField
  Item <- MCItem
  Batch <- MCBatch
  Frame <- MCFrame
INVARIANTS
  FeaturesAreCausal
  FeaturesAgree
  OptimumIsBest
  MetricsAgree
  CommitmentBindsPrediction
  RootIdentifiesBatch
  TableLooksBack
