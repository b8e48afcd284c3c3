CONSTANTS
  Sizes <- TheSizes
  Models <- TheModels
  Endpoints <- TheEndpoints
  Checkpoints <- TheCheckpoints
  BurstLen = 3
  MaxClears = 1
  MaxResets = 1
  Bench <- TheBench
SPECIFICATION Spec
INVARIANTS FixedLatency BitExact OutputsExact RunWhole
PROPERTY EveryRunEnds
CHECK_DEADLOCK FALSE
