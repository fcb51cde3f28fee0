SPECIFICATION Spec
CONSTANTS
  a = a
  b = b
  gain = gain
  mute = mute
  Instances <- MCInstances
  HistoryFields <- MCHistoryFields
  PlainFields <- MCPlainFields
  Val <- MCVal
  Default = 0
  Gestures = {g1}
  Capacity = 3
SYMMETRY Symmetry
INVARIANTS
  ObserversCurrent
  DspCurrent
PROPERTY ImplementsTimeline
CHECK_DEADLOCK FALSE
