SPECIFICATION RuntimeSpec
CONSTANTS
  Instances = {i, j}
  None = None
  MaxCommands = 3
  MaxPolls = 2
INVARIANT CallbacksImpossible
CHECK_DEADLOCK FALSE
