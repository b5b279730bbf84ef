SPECIFICATION FairSpec
CONSTANTS
  NumCores = 3
  NumSlots = 2
  TileSlots = 2
  Partition <- MCPartition
  CorePart <- MCCorePart
  Kernel <- MCKernel
  Sub <- MCSub
  Tile <- MCTile
  None = None
  Sync = "sync"
  KernelPart <- MCKernelPart
  Timestamp <- MCTimestamp
  SubsOf <- MCSubsOf
  BoundTo <- MCBoundTo
  TilesOf <- MCTilesOf
  Children <- MCChildren
  Scripts <- MixedScripts
  Horizon = 3
  NumParts = 2
  Used = {"J","L","N","P","Q","X"}
  Lateness = 3
INVARIANTS HandedRightly NothingDropped KernelsInTurn SyncComplete
PROPERTIES CoreContract TraceEnds
