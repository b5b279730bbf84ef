SPECIFICATION Spec
CONSTANTS
  Lanes = 2
  Kernels <- MCKernels
  Autotune <- MCAutotune
  LowpVec = 4
  Lowp = {2, 6}
  MaxRetry = 5
  MaxStep = 10
  MaxTile = 8192
  Costs <- MCCosts
  Inf = 99
  None = None
CHECK_DEADLOCK FALSE
INVARIANTS ElementsRight TileRight
PROPERTIES SearchEnds SearchIsSafe
