SPECIFICATION PointsSpec
CONSTANTS
  a = a
  b = b
  gain = gain
  Instances <- MCInstances
  HistoryFields <- MCHistoryFields
  PlainFields <- MCPlainFields
  Val <- MCVal
  Default = 0
  Gestures = {g1}
  Capacity = 4
INVARIANT ResetIsOnePoint
CHECK_DEADLOCK FALSE
