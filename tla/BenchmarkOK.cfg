SPECIFICATION Spec
CONSTANTS
  Files <- FileSet
  ArgSets <- ArgRecords
  Clones <- CloneSet
  DirtyNamed = {1}
  Expected = 2
  Harnesses = {2, 4}
  Measures <- MeasureSet
  MaxCommit = 2
INVARIANT OKMeansAllCorrect
CHECK_DEADLOCK FALSE
