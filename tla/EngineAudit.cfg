CONSTANTS
  MinPrice = 10
  MaxPrice = 12
  TickSize = 2
  MaxOrders = 2
  Locates = {1}
  Owners = {0, 1}
  MaxOrderQty = 2
  MaxIds = 3
SPECIFICATION AuditSpec
INVARIANTS
  Uncrossed
  SharesConserved
  MirrorExact
PROPERTIES
  LoopProgress
  FillFair
