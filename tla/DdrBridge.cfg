SPECIFICATION BridgeFairSpec
CONSTANTS
  DdrLines = 2
  WPL = 2
  NLanes = 1
INVARIANTS ReadsItsLastWrite CopyNotBehind
PROPERTIES SentOnce CoreRuns
