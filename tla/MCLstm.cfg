SPECIFICATION Spec
CONSTANTS
  SequenceLength = 1
  SplitOf = 2
  Epochs = 5
  Patience = 2
  Losses = {1, 2, 3}
  NaN = NaN
  MaxFits = 2
  Frames <- MCFrames
INVARIANTS
  TrainingTypeOK
  BestIsRestored
  StopsInTime
  ScalersMatchModel
