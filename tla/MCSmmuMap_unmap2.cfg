SPECIFICATION Spec
CONSTANTS
  p = p
  q = q
  NumSmmus = 1
  TwoLevels <- TwoLevelTable
  Supports <- BothStages
  Sids <- Single
  Streams <- AllStreams
  SidLimit = 4096
  Split = 256
  Pgts <- OnePgt
  MaxMasters = 2
  MaxCds = 1
INVARIANT UnmappedAbort
CHECK_DEADLOCK FALSE
