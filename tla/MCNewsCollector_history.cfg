SPECIFICATION Spec
CONSTANTS
  None = None
  Registries <- MCRegistries
  Documents <- MCDocuments
  Ids = {1, 2, 3}
  Titles = {"a", "b"}
  WindowDays = 2
  MaxRecords = 2
  MaxTime = 3
  MaxRuns = 4
INVARIANTS TypeOK HistoryIsTrue
PROPERTY HistoryIsKept
CHECK_DEADLOCK FALSE
