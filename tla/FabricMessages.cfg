SPECIFICATION MessagesFairSpec
CONSTANTS
  Msgs <- FourMsgs
  Src <- Sources
  Dst <- Targets
  Size <- Sizes
  PacketsPerSlice = 2
INVARIANTS MessagesWhole
PROPERTY ImplementsFairMail
