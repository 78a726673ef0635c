CONSTANTS
  j1 = j1
  j2 = j2
  j3 = j3
  Jobs = {j1,j2,j3}
  Kind <- MixedKinds
  Period = 2
  MaxTime = 3
  MaxChanges = 4
  MayExternal = TRUE
  MaxStops = 1
SPECIFICATION FairSpec
INVARIANTS
  TimerCoversJobs
  CompletedNotRepeated
  SavedBetweenTicks
PROPERTIES
  DueJobRuns
  SaveKeepsOtherJobs
CHECK_DEADLOCK FALSE
