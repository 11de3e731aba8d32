SPECIFICATION FairSpec
CONSTANTS
  NRows = 4
  Keys <- MCKeys
  ZeroKey = 0
  Torn <- MCTorn
  Hash <- MCHash
  NSlots = 3
  ProbeLimit = 2
  TgSize = 3
  SimdWidth = 2
  UINT_MAX = 7
  Ordered = FALSE
  SpuriousCas = TRUE
INVARIANTS
  NoKeyTwice SameGroupIffSameKey OverflowJustified
  IdsUnique HostIndexInRange NoGroupWithoutRow NoKeysMergedUnlessTorn
PROPERTIES ImplementsGroupBuild HangsOnlyInLockstep
