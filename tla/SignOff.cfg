SPECIFICATION SignOffSpec
CHECK_DEADLOCK FALSE
CONSTANTS
  Kinds = {"llm", "swarm"}
  NSwarm = 3
  NModels = 2
  NDrafts = 2
  Slacks <- SomeSlacks
  Contract = FALSE
  MaxBench = 1
  MaxKilled = 2
  MaxRuns = 3
  Mixed = FALSE
INVARIANTS NeverBuildsOnWorse ShownWithItsFailures HandedTheClosest DesignPasses DesignOnceSigned
