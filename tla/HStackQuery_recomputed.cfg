SPECIFICATION HQuerySpec
CONSTANTS
  Null = Null
  Seed = Seed
  NaN = NaN
  ManSize = 2
  ExpSize = 4
  RecursionLimit = 3
  MaxGroups = 2
  Cases <- MCRecomputed
CHECK_DEADLOCK FALSE
INVARIANT ChainsAreCorrect
