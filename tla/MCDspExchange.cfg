SPECIFICATION FairTelemetrySpec
CONSTANTS
  Parts = {low, high}
  MaxVersion = 5
  Words = {present, level}
  SequenceSize = 4
  MaxBlocks = 3
INVARIANTS
  OwnedUnlessOvertaken
  CaughtUp
  NoPublishAfterRelease
  ShownIsWhole
PROPERTIES
  AudioFollows
  ViewerFollows
CHECK_DEADLOCK FALSE
