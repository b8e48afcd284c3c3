SPECIFICATION Spec
CONSTANTS
  MaxBench = 1
  MaxKilled = 1
  MaxRuns = 3
INVARIANTS DesignPasses
CHECK_DEADLOCK FALSE
