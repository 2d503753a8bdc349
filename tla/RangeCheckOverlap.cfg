SPECIFICATION Spec
CONSTANTS
  a = a
  b = b
  c = c
  Ids = {a, b, c}
  Sizes = {4, 8, 20}
  Addrs <- AddrSet
  HeapHi = 31
SYMMETRY Symmetry
INVARIANT NoOverlapAccepted
CHECK_DEADLOCK FALSE
