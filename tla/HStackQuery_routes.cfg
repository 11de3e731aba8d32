SPECIFICATION HQuerySpec
CONSTANTS
  Null = Null
  Seed = Seed
  NaN = NaN
  ManSize = 2
  ExpSize = 4
  RecursionLimit = 3
  MaxGroups = 2
  Cases <- MCCombined
CHECK_DEADLOCK FALSE
INVARIANTS FilterIsSelection FailureJustified FallbackOnce ScatterFits LaneIdentifiesKey AnswerIsGroupBy GroupByFailsForCause HStackIsPolars HStackFailsForCause
PROPERTY EveryQueryEnds
