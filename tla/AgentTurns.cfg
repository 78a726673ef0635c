CONSTANTS
  MaxTurns = 3
  Kinds = {"user", "system", "direct"}
  MaxIterations = 2
  CallCounts = {2}
  ShortHistory = 3
  SummaryAfter = 3
  FilterFrom = 7
  KeepRecent = 5
  MaxRecalls = 1
SPECIFICATION Spec
INVARIANTS
  HistoryLegal
  SavedCallsAnswered
PROPERTY SilentOnlyIfTold
CHECK_DEADLOCK FALSE
