SPECIFICATION QuerySpec
CONSTANTS
  Null = Null
  Seed = Seed
  ManSize = 2
  ExpSize = 4
  RecursionLimit = 3
  MaxGroups = 2
  Cases <- MCNans
CHECK_DEADLOCK FALSE
INVARIANT FilterIsPolars
