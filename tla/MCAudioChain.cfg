SPECIFICATION HostSpec
CONSTANTS
  RampLength = 2
  TransitionLength = 2
  Chains <- MCChains
  Algorithms <- MCAlgorithms
  MaxSnapshots = 3
  Viewed <- MCViewed
  Viewers = {v, w}
  Maxima <- MCMaxima
  BlockSizes <- MCBlockSizes
  Bounds <- MCBounds
  WindowSize = 2
  Capacity = 4
  IndexSize = 12
INVARIANTS NoStaleHistory ReductionIsOfThisBlock WindowIsWhole CaptureFollowsViewer
PROPERTY DevicesSettle
