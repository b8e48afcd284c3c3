SPECIFICATION FairSpec
CONSTANTS
  NP = 2
  NS = 4
  MAXO = 2
  NLines = 5
  NBeats = 2
INVARIANTS RightWeights FlagsExact
PROPERTY NeverStalls
