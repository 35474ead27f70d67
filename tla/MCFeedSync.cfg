CONSTANTS
  MinPrice = 1
  MaxPrice = 2
  TickSize = 1
  MaxOrders = 2
  MCIds = {1}
  MCQtys = {1, 2}
  Books <- MCBooks
  Book0 <- MCBook0
  Msgs <- MCMsgs
  Valid <- MCValid
  Apply <- MCApply
  Dump <- MCDump
  Load <- MCLoad
  PktCap = 2
  MaxMsgs = 3
SPECIFICATION FairSpec
INVARIANTS
  ReplicaExact
PROPERTIES
  NeverBack
  CatchesUp
