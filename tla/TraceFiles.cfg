SPECIFICATION TSpec
CONSTANTS
  Ids = {0, 1}
  MaxLines = 5
  NumIters = {1, 2, 3}
  NumBlocks = {0, 1, 2}
  Off <- OffByOne
INVARIANTS PrintsTheLegal OutputIsBalanced OutputIsFixed GeneratedTracesWork ReadsWhatIsPrinted
CHECK_DEADLOCK FALSE
