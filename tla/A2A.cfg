SPECIFICATION Spec
CONSTANTS
  Ary = 3
  Dims = 2
  Experts = 9
  TokenCounts <- MCTokenCounts
  Capacity = 2
  TokenBytes = 8
  FlitSize = 4
  InjectGap = 2
  ChunkGap = 1
  HopDelay = 190
  Slack = 10
  Phases <- MCPhases
  Routes <- MCRoutes
  Costs <- MCCosts
  Snapshots = {10, 20, 60, 90}
  Delays = {0, 7}
  None = None
CHECK_DEADLOCK FALSE
INVARIANTS CapacityHeld Causal TraceTrue
