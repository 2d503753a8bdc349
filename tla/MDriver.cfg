SPECIFICATION MSpec
CONSTANTS
  MAX_HEAP = 80
  CHUNKSIZE = 16
  Ids = {1, 2}
  Sizes = {0, 8, 24}
  NumTraces = 2
  Garbage = {0, 17}
  Traces <- LegalTraces
  SpeedRuns = 2
  MaxOps = 3
INVARIANTS SameAnswers NoAppError UtilBelowOne IndexMeansAllValid HeapOKInEveryRun NoGaps
