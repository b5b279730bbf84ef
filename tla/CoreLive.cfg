SPECIFICATION FairSpec
CONSTANTS
  None = None
  Casts <- LiveCasts
  Inst <- MCInst
  Tile <- MCTile
  Tag <- MCTag
  Op <- MCOp
  Body <- MCBody
  Owner <- MCOwner
  Kids <- MCKids
  TagOf <- MCTagOf
  IsAsync <- MCAsync
  IsSparse <- MCSparse
  ComputeType <- MCComputeType
  Cycles <- MCCycles
  Overlap <- MCOverlap
  Requests <- MCRequests
  TileSlots = 2
  NumSA = 1
  Ports = 1
PROPERTIES ComesToRest
