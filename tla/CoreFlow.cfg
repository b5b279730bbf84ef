SPECIFICATION Spec
CONSTANTS
  None = None
  Casts <- FlowCasts
  Inst <- MCInst
  Tile <- MCTile
  Tag <- MCTag
  Op <- MCOp
  Body <- MCBody
  Owner <- MCOwner
  Kids <- MCKids
  TagOf <- MCTagOf
  IsAsync <- MCAsync
  IsSparse <- MCSparse
  ComputeType <- MCComputeType
  Cycles <- MCCycles
  Overlap <- MCOverlap
  Requests <- MCRequests
  TileSlots = 2
  NumSA = 2
  Ports = 1
CONSTRAINT Together
INVARIANTS TypeOK Traffic FinishInOrder TileLifetime NothingForgotten QuiesceSound NoErrorPath
PROPERTIES PipelineTiming ServiceSpec
