SPECIFICATION SignOffSpec
CHECK_DEADLOCK FALSE
CONSTANTS
  Kinds = {"llm"}
  NSwarm = 3
  NModels = 2
  NDrafts = 1
  Slacks <- SomeSlacks
  Contract = TRUE
  MaxBench = 0
  MaxKilled = 0
  MaxRuns = 1
  Mixed = FALSE
INVARIANT ShownWithItsFailures
