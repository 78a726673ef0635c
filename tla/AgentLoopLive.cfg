CONSTANTS
  Chats = {c1}
  Origins = {c1}
  CronKey = cron
  NoKey = nokey
  NoTask = 0
  Tasks = {1,2,3}
  Kinds = {"text", "command", "stop", "interrupt", "recall"}
  MaxMsgs = 3
  InMax = 2
  OutMax = 1
  MayAsk = TRUE
  MayDirect = FALSE
  Subagents = {s1}
SPECIFICATION FairSpec
PROPERTIES
  LoopComesBack
  TasksEnd
CHECK_DEADLOCK FALSE
