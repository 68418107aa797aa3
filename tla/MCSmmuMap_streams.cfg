SPECIFICATION Spec
CONSTANTS
  p = p
  q = q
  NumSmmus = 1
  TwoLevels <- AnyTable
  Supports <- BothStages
  Sids <- TwoStreams
  Streams <- AllStreams
  SidLimit = 8
  Split = 256
  Pgts <- BothPgts
  MaxMasters = 3
  MaxCds = 2
INVARIANT MappedTranslate
INVARIANT LinearUnmappedAbort
INVARIANT NoDanglingCd
CHECK_DEADLOCK FALSE
SYMMETRY Symmetry
