SPECIFICATION FairSpec
CONSTANTS
  w1 = w1
  w2 = w2
  r1 = r1
  r2 = r2
  None = None
  Workers = {w1, w2}
  Requests = {r1, r2}
  Ids <- ThreeIds
  Initial <- ThreeIds
  BatchSize = 2
  MaxAttempts = 2
  MaxStalledCount = 1
  RejectsColonIds = FALSE
  CleanupBatch = 2
  Older = 1
  Bounds <- ResumeBounds
INVARIANT SingleExtractor
INVARIANT ProgressExact
PROPERTY PausedIsQuiet
PROPERTY StagingSwept
CHECK_DEADLOCK FALSE
