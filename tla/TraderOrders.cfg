CONSTANTS
  max_order_qty = 2
  max_position = 2
  max_open_orders = 2
  max_orders_per_sec = 1
  Second = 1
  AnyStrategy = TRUE
  MaxSent = 2
  MaxTime = 1
SPECIFICATION FairSpec
CHECK_DEADLOCK FALSE
INVARIANTS
  PositionLimit
  ReportsFit
  GateMatchesOrders
  RateLimit
PROPERTY OrdersClose
