CONSTANTS
  Count = 4
  RingCap = 2
  MaxRequest = 2
  MaxPending = 1
  QueueCap = 1
  MaxCopied = 2
SPECIFICATION FairSpec
CHECK_DEADLOCK FALSE
INVARIANTS
  NoSilentLoss
  RecoveryExact
PROPERTY LoopEndDrains
