SPECIFICATION FairSpec
CONSTANTS
  Half = 50
  Slice = 8
  Costs = {2, 7}
  Delays = {1, 2}
  NEVENT = 2
  THRESHOLD = 3
  RECORDTHRESH = 4
  Starts = {2464, 2484}
  Work = {1, 3, 6, 9}
  Settings <- FcycSettings
  EpsNum = 1
  EpsDen = 4
  Runs = 3
  Usec = 10
  MAX_ETIME = 2
  Adjust <- Adjustments
  MaxCalls = 1
INVARIANTS TypeOK CounterIsElapsed CalibrationCoversTick ReturnsTheBest NeverOvercharged SecondsAreElapsed
PROPERTY EveryCallReturns
