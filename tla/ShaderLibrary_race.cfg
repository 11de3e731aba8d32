SPECIFICATION LibraryFairSpec
CONSTANTS
  a = a
  b = b
  c = c
  h1 = h1
  h2 = h2
  Threads = {t1, t2}
  Shapes <- MCShapes
  HashKeys <- MCHashes
  KeyOf <- Hash64
  NoPso = NoPso
  MaxBuilds = 3
  MaxCalls = 2
INVARIANTS OnePsoPerKey NoHalfWrittenRead OneOutcome
PROPERTY EveryCallReturns
CHECK_DEADLOCK FALSE
