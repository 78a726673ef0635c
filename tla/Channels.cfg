SPECIFICATION Spec
CONSTANTS
  Events <- MCEvents
  Traffic <- MCTraffic
  Progress <- MCProgress
  InMax = 1
  OutMax = 1
  Window = 3
  TokenLife = 4
  TokenMargin = 2
  SendTimeout = 1
  PollLimit = 2
  Noticed = {1, 6}
INVARIANT TypeOK
INVARIANT PublishedOnce
INVARIANT TypingOwed
INVARIANT PartsTogether
INVARIANT FailureShown
INVARIANT TokenValid
INVARIANT KeptOrPublished
PROPERTY CursorAdvances
CHECK_DEADLOCK FALSE
