SPECIFICATION TelemetrySpec
CONSTANTS
  Parts = {low, high}
  MaxVersion = 5
  Words = {present, level}
  SequenceSize = 4
  MaxBlocks = 3
INVARIANT CopyIsOwned
CHECK_DEADLOCK FALSE
