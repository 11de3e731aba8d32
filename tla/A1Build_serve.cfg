SPECIFICATION FairSpec
CONSTANTS
  c1 = c1
  c2 = c2
  Callers = {c1, c2}
  Keys <- MCKeys
  Inputs <- MCInputs
  NParts = 2
  Part <- MCPart
  Threshold = 2
  MaxCalls <- MCCalls
  UINT_MAX = 9
  NoCaller = NoCaller
INVARIANTS CapacityBacked ScratchExclusive ScatterIsPermutation
PROPERTIES ImplementsGroupBuild EveryCallReturns
CHECK_DEADLOCK FALSE
