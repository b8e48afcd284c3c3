SPECIFICATION PortFairSpec
CONSTANTS
  NRuns = 3
  NMoved = 3
  NWords = 3
INVARIANTS MovesInsideGather MovesWhole
PROPERTIES ServesEach EveryRunEnds
