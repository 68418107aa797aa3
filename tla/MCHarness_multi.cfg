SPECIFICATION FairSpec
CONSTANTS
  NumPe = 3
  MainPe = 1
  NumTests = 3
  Kind <- RemoteAll
  Skip <- NoTests
  NoSkipCheck <- Watchdog
  PollLimit = 3
  OnRetries = 1
INVARIANT HarnessInv
INVARIANT FailIsEarned
INVARIANT OnlyCurrentPayload
PROPERTY ResultsStable
PROPERTY SuiteEnds
CHECK_DEADLOCK FALSE
