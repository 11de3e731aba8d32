SPECIFICATION Spec
CONSTANTS
  Inputs <- MCInputs
  Radix = 4
  Lanes = 2
  SimdWidth = 2
  SimdsPerTile = 2
  WordBits = 2
  NoPair = NoPair
INVARIANTS ScatterNeverCollides StableByLowDigits
PROPERTY ImplementsGroupBuild
CHECK_DEADLOCK FALSE
