SPECIFICATION RingFairSpec
CHECK_DEADLOCK FALSE
CONSTANTS
  N = 3
  L = 4
  Bidir = TRUE
  NOps = 1
PROPERTY EveryBoardEnds
