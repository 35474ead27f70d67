CONSTANTS
  Producers = {p1, p2, p3}
  Consumers = {c1, c2}
  Msgs = {a, b}
  Blank = Blank
  Cap = 2
  MaxPush = 3
SPECIFICATION FairSpec
INVARIANTS
  Fifo
  NoLostWakeup
PROPERTIES
  CallsReturn
