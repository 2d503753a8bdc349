SPECIFICATION Spec
CONSTANTS
  Files <- FileSet
  ArgSets <- ArgRecords
  Clones <- CloneSet
  DirtyNamed = {1}
  Expected = 1
  Harnesses = {1, 2}
  Measures <- MeasureSet
  MaxCommit = 2
INVARIANTS EveryoneListedOnce ReportIsMeasured RankedRowsAreStable RanksFollowResults
PROPERTY TimeoutsEndTheRun
CHECK_DEADLOCK FALSE
