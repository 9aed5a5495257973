SPECIFICATION Spec
CONSTANTS
  w1 = w1
  w2 = w2
  r1 = r1
  r2 = r2
  None = None
  Workers = {w1, w2}
  Requests = {r1}
  Ids <- TwoIds
  Initial <- TwoIds
  BatchSize = 1
  MaxAttempts = 3
  MaxStalledCount = 1
  RejectsColonIds = TRUE
  CleanupBatch = 2
  Older = 1
  Bounds <- OneLostLock
SYMMETRY Symmetry
INVARIANT DownloadableIsWhole
CHECK_DEADLOCK FALSE
