SPECIFICATION FairSpec
CONSTANTS
  NumPe = 2
  MainPe = 0
  NumTests = 5
  Kind <- IrqMix
  Skip <- OneSkip
  NoSkipCheck <- NoTests
  PollLimit = 2
  OnRetries = 1
INVARIANT PassIsEarned
INVARIANT SkipHonoured
INVARIANT Accounting
PROPERTY SuiteEnds
CHECK_DEADLOCK FALSE
