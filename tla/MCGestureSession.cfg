SPECIFICATION FairSpec
CONSTANTS
  None = None
  Val <- MCVal
  Default = 0
  Editors = {e1, e2}
  MaxGestures = 2
  MaxFocuses = 2
  MaxEdits = 1
  MaxActs = 2
  MaxFaults = 1
INVARIANTS
  OneOpenGesture
  OnePointUnlessRefused
  LastPositionKept
  ReportedMeansWritten
PROPERTY GestureEnds
CHECK_DEADLOCK FALSE
