SPECIFICATION Spec
CONSTANTS
  NRows = 3
  Keys <- MCKeys
  ZeroKey = 0
  Torn <- MCTorn
  Hash <- MCHash
  NSlots = 3
  ProbeLimit = 2
  TgSize = 2
  SimdWidth = 2
  UINT_MAX = 7
  Ordered = FALSE
  SpuriousCas = FALSE
INVARIANT NoSurplusGroup
