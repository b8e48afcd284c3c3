SPECIFICATION SignOffSpec
CHECK_DEADLOCK FALSE
CONSTANTS
  Kinds = {"llm"}
  NSwarm = 3
  NModels = 3
  NDrafts = 1
  Slacks <- SomeSlacks
  Contract = FALSE
  MaxBench = 0
  MaxKilled = 0
  MaxRuns = 1
  Mixed = FALSE
INVARIANT HandedTheFurthest
