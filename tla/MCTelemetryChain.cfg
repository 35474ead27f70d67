SPECIFICATION Spec
CONSTANTS
  w1 = w1
  w2 = w2
  rx = rx
  a = a
  b = b
  Workers = {w1, w2}
  Receive = rx
  MaxRecords = 2
  Lats = {1, 2}
  RingCap = 2
  Peers = {a, b}
  MaxSockets = 3
  MaxConnects = 2
  Scenes <- MCScenes
INVARIANTS
  MemorySettled
  
  DescriptorsExact
  SourceHonest
PROPERTIES
  StopReturns
  EventuallyShown
  ComesLive
