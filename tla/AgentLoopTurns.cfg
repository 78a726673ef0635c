CONSTANTS
  Chats = {c1, c2}
  Origins = {c1, c2}
  CronKey = cron
  NoKey = nokey
  NoTask = 0
  Tasks = {1,2,3}
  Kinds = {"text", "stop", "restart", "yes", "no"}
  MaxMsgs = 3
  InMax = 2
  OutMax = 1
  MayAsk = TRUE
  MayDirect = TRUE
  Subagents = {}
SPECIFICATION Spec
INVARIANTS
  LockMatchesTurn
  NoOrphanTask
  UserTurnsSerialized
  StopEndsTurns
  TypeOK
  OneYesOneGrant
PROPERTY SerialTurnsSpec
SYMMETRY ChatSymmetry
CHECK_DEADLOCK FALSE
