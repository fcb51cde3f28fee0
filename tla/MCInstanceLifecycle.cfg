SPECIFICATION FairRuntimeSpec
CONSTANTS
  Instances = {i, j}
  None = None
  MaxCommands = 3
  MaxPolls = 2
INVARIANTS
  CoreFollowsBridges
  ExchangeReleased
  ActivityAgrees
PROPERTY UnregisterReturns
CHECK_DEADLOCK FALSE
