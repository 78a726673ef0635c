CONSTANTS
  MaxTurns = 3
  TurnKinds = {"user", "system", "new"}
  MaxRecalls = 1
  MayFail = TRUE
  OtherSessions = TRUE
  MaxCrashes = 1
  MaxUpsets = 1
  ShortHistory = 1
  SummaryAfter = 1
SPECIFICATION Spec
INVARIANTS
  TypeOK
  SessionHoldsTurns
  
  ArchivedOnce
  HistoryStartsWithUser
  NothingReturns
  CacheMatchesDisk
CHECK_DEADLOCK FALSE
