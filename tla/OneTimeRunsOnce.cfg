CONSTANTS
  j1 = j1
  j2 = j2
  j3 = j3
  Jobs = {j1,j2,j3}
  Kind <- MixedKinds
  Period = 2
  MaxTime = 4
  MaxChanges = 3
  MayExternal = FALSE
  MaxStops = 0
SPECIFICATION Spec
INVARIANT OneTimeRunsOnce
CHECK_DEADLOCK FALSE
