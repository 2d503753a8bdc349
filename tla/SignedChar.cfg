SPECIFICATION Spec
CONSTANTS
  MAX_HEAP = 72
  CHUNKSIZE = 24
  Ids = {127, 128}
  Sizes = {4, 12}
  NumTraces = 1
  Garbage = {17}
INVARIANT DataLossIsReal
CHECK_DEADLOCK FALSE
