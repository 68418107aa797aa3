SPECIFICATION FairSpec
CONSTANTS
  Entries = 4
  Hyp = TRUE
  AckTries = 2
INVARIANT SmmuInv
INVARIANT Invalidated
INVARIANT NoFetchAfterStop
PROPERTY FifoSpec
PROPERTY PollEnds
CHECK_DEADLOCK FALSE
