SPECIFICATION Spec
CONSTANTS
  Lanes = 2
  Spad = 1024
  Precision = 4
  Subtile = TRUE
  FusePrologue = TRUE
  FuseNodes = TRUE
  FuseReductionEpilogue = TRUE
  FuseReductions = TRUE
  MaxFusionSize = 5
  Jobs <- MCJobs
  TopK = 4
INVARIANTS ResultRight Buildable
