SPECIFICATION Spec
CONSTANTS
  MAX_HEAP = 72
  CHUNKSIZE = 24
  Ids = {1, 2}
  Sizes = {4, 12}
  NumTraces = 1
  Garbage = {17}
INVARIANT NextBlockIsBlock
CHECK_DEADLOCK FALSE
