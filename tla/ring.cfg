SPECIFICATION Spec
CONSTANTS
  N = 4
  Heads = 2
  Depth = 2
  Lead = 0
  Warmup = 1
  Memory = 2
  MaxPass = 6
INVARIANT NothingFromBeforePrefill
INVARIANT NoLeftovers
INVARIANT HistoryInOrder
INVARIANT ChunkWhole
INVARIANT WarmedOnce
CHECK_DEADLOCK FALSE
