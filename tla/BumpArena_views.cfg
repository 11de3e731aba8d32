SPECIFICATION ArenaSpec
CONSTANTS
  Capacity = 14
  Align = 4
  UsizeMax = 15
  Sizes <- MCSizes
  Views = {v1, v2, v3}
  Handles = {h1, h2}
  Shares = {1}
SYMMETRY Symmetry
CHECK_DEADLOCK FALSE
INVARIANTS ViewsDisjoint NoAccessAfterFree
