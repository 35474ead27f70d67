CONSTANTS
  MinPrice = 10
  MaxPrice = 10
  TickSize = 2
  MaxOrders = 2
  Locates = {1}
  Owners = {0, 1}
  MaxOrderQty = 1
  MaxIds = 3
  MaxSessionOrders = 2
  PktCap = 2
  MaxOut = 1
SPECIFICATION XSpec
INVARIANTS
  PrivateFirst
