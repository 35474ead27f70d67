CONSTANTS
  MinPrice = 10
  MaxPrice = 10
  TickSize = 2
  MaxOrders = 2
  Locates = {1}
  Owners = {0, 1}
  MaxOrderQty = 2
  MaxIds = 2
  MaxSessionOrders = 2
  PktCap = 1
  MaxOut = 1
SPECIFICATION XFairSpec
INVARIANTS
  OwnedOrders
  ClientAccount
PROPERTIES
  SessionsServed
