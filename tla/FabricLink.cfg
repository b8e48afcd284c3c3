SPECIFICATION FairSpec
CONSTANTS
  WINDOW = 2
  RX_CAP = 3
  SlicePackets = 2
  NPackets = 5
  MaxWire = 7
INVARIANTS NoOverflow CreditsConserved WindowAgreement InOrderOnce
PROPERTY ImplementsFairChannel
