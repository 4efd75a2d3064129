SPECIFICATION Spec
CONSTANTS
  SequenceLength = 1
  SplitOf = 2
  Epochs = 3
  Patience = 2
  Losses = {1, 2}
  NaN = NaN
  MaxFits = 1
  Frames <- MCFrames
INVARIANTS
  PredictOnlyIfFitted
