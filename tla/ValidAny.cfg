SPECIFICATION Spec
CONSTANTS
  MAX_HEAP = 72
  CHUNKSIZE = 24
  Ids = {1, 2}
  Sizes = {4, 16, 24}
  NumTraces = 1
  Garbage = {17}
INVARIANTS TypeOK HeapOK AllocatedIffLive AllFreeIsOneBlock RangesAreLive
           PayloadsIntact NoBadRange NoDataLost WalkFindsFirstFit
PROPERTIES FailureIsHarmless KeepsThePromise
CHECK_DEADLOCK FALSE
