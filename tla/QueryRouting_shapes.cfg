SPECIFICATION Spec
CONSTANTS
  Leaves <- MCLeaves
  Inner <- MCInner
  MaxInner = 4
  MinRows = 1
  MaxBits = 128
CHECK_DEADLOCK FALSE
INVARIANTS FrameIsThePlan SimpleShapesRun
