SPECIFICATION FairSpec
CONSTANTS
  NumIts = 2
  Devs = {"a", "u"}
  Lpis = {8268, 8269}
  LpisOf <- Shared
  ItsOf <- Mixed
  PollLimit = 1
  MaxCommands = 6
INVARIANT RequestedDelivered
INVARIANT FreedSilent
INVARIANT TablesBeforeEnable
PROPERTY CallReturns
CHECK_DEADLOCK FALSE
