SPECIFICATION FairSpec
CONSTANTS
  NumCores = 2
  NumChannels = 2
  Ports = 2
  CorePeriod = 3
  DramPeriod = 2
  IcntPeriod = 1
  IcntLatency = 1
  DramLatency = 2
  ReqSize = 16
  CycleBytes = 8
  Req <- MCReq
  Plan <- MCPlan
  ChannelOf <- MCChannelOf
  DramReqSize = 16
  Transfers <- MCTransfers
INVARIANTS RequestsKept TransfersWhole
PROPERTIES ServiceSpec AllAnswered
