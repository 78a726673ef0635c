CONSTANTS
  Callers = {a, b}
  FailureThreshold = 2
  RecoveryTimeout = 3
  HalfOpenMaxCalls = 2
  RetryDelays <- Delays
  RateLimitDelays <- LongDelays
  MaxCancels = 1
SPECIFICATION FairSpec
INVARIANT TypeOK
PROPERTIES
  BreakerJustified
  BreakerRecovers
  CallsReturn
