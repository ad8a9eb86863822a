CONSTANTS
  SequenceLength = 2
  NoFlight = NoFlight
  MaxWindows = 5
  MaxResets = 1
SPECIFICATION FairSpec
INVARIANTS TypeOK PredictionNamesItsWindows SingleFlight FirstTrialUnpadded
PROPERTIES EvaluationSettles
CHECK_DEADLOCK FALSE
