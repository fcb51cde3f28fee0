SPECIFICATION Spec
CONSTANTS
  RampLength = 2
  TransitionLength = 3
  MinimumGainDb <- MCMinimumGainDb
  MaximumGainDb = 2
  MaximumFastCorrectionDb = 1
  Models <- MCModels
  Rates = {1, 2}
  ControlLevels <- MCLevels
  Filters <- MCFilters
  MaxSet = 1
INVARIANTS CoefficientsCurrent ResetForgets LevelerSeamless ValuesInRange
PROPERTY CrossfadeGradual
