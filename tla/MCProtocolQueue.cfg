SPECIFICATION FairSpec
CONSTANTS
  Sources = {p, q}
  Keys = {k}
  NoKey = NoKey
  Idle = Idle
  Callers = {c}
  Capacity = 2
  MaxCommands = 3
INVARIANTS
  LastWriteKept
  NoLateWrite
PROPERTIES
  BarrierReturns
  WriteRuns
CHECK_DEADLOCK FALSE
