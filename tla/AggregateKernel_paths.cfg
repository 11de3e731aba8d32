SPECIFICATION AggregateSpec
CONSTANTS
  Columns <- MCColumns
  Queries <- MCQueries
  Null = Null
  Half = 4
  Infinity = 100
  MaxGroups = 2
  Lanes = 1
  Simds = 2
  MaxTgs = 2
INVARIANTS NoLostUpdate AnswerIsAggregate
PROPERTY AggregationEnds
CHECK_DEADLOCK FALSE
