SPECIFICATION Spec
CONSTANTS
  CommandLines <- Lines
  Default <- TwoFiles
  Utils = {0, 90}
  Ops = {1, 30}
  Secs <- SomeSecs
  Weight = 60
  AVG_LIBC_THRUPUT = 5
  Glued = 10
  MaxOptions = 3
INVARIANTS FileDecides IndexIsBounded ReaderSeesTheRun
