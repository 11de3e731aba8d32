CONSTANTS
  P = 5279
  Omega <- MCOmega
  MaxDepth = 6
  MaxSize = 32
  Cases <- MCCases
SPECIFICATION FftSpec
INVARIANTS AnswerIsDft RaceFree
