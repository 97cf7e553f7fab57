SPECIFICATION FairSpec
CONSTANTS
  Unit = 1000
  Tolerance = 1
  NumBins = 10
  Asks <- EveryAsk
  Ends <- SomeEnds
  RetryAfters <- SomeRetryAfters
  OpenAIBodies <- SomeOpenAIBodies
  JevBodies <- SomeJevBodies
  MaxAttempts = 3
  RetryAfterCap = 10
  Second = 5
  DurationBits = 6
  MaxLetterLabels = 2
  MinLabelMass = 900
  Rounding = 1
INVARIANTS
  TypeOK IdleBounded UsageReported BuiltIsADistribution NoRetryPastDeadline
PROPERTIES
  BackendReturns
CHECK_DEADLOCK FALSE
