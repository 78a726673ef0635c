CONSTANTS
  MaxTurns = 3
  TurnKinds = {"user"}
  MaxRecalls = 0
  MayFail = FALSE
  OtherSessions = FALSE
  MaxCrashes = 0
  MaxUpsets = 0
  ShortHistory = 1
  SummaryAfter = 1
SPECIFICATION Spec
INVARIANT SavedTurnsWhole
CHECK_DEADLOCK FALSE
