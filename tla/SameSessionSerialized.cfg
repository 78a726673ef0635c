CONSTANTS
  Chats = {c1}
  Origins = {c1}
  CronKey = cron
  NoKey = nokey
  NoTask = 0
  Tasks = {1,2,3,4}
  Kinds = {"text"}
  MaxMsgs = 4
  InMax = 2
  OutMax = 1
  MayAsk = FALSE
  MayDirect = FALSE
  Subagents = {s1}
SPECIFICATION Spec
INVARIANT SameSessionSerialized
CHECK_DEADLOCK FALSE
