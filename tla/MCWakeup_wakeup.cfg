SPECIFICATION FairSpec
CONSTANTS
  NumWd = 2
  NumFrame = 1
  Configs <- SomeConfigs
INVARIANT NoStrayDispatch
INVARIANT Quiet
INVARIANT FailExplained
PROPERTY SleepEnds
CHECK_DEADLOCK FALSE
