SPECIFICATION RingFairSpec
CONSTANTS
  N = 3
  L = 7
  Bidir = TRUE
  NOps = 2
INVARIANTS EveryContributionOnce SameOnEveryBoard OneMessagePerTag
PROPERTY ImplementsFairSum
