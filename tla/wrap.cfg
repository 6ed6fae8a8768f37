SPECIFICATION FairSpec
CONSTANTS
  PromoteAfter = 1
  DeficitAfter = 2
  LockHits = 1
  LockMinTokens = 0
  WarmUp = 1
  ShedAfter = 1
  RecoverAfter = 2
  MaxBatch = 1
  MaxIssued = 2
  None = None
INVARIANT EarnedLive
INVARIANT LedgerScored
PROPERTY WorkComesBack
