SPECIFICATION Spec
CONSTANTS
  NumPe = 3
  MainPe = 0
  NumTests = 1
  Kind <- All
  Skip <- NoTests
  NoSkipCheck <- NoTests
  PollLimit = 2
  OnRetries = 1
INVARIANT PassMeansReported
CHECK_DEADLOCK FALSE
