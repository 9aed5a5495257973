SPECIFICATION Spec
CONSTANTS
  w1 = w1
  w2 = w2
  r1 = r1
  r2 = r2
  None = None
  Workers = {w1, w2}
  Requests = {r1, r2}
  Ids <- ThreeIds
  Initial <- OddIds
  BatchSize = 1
  MaxAttempts = 3
  MaxStalledCount = 1
  RejectsColonIds = TRUE
  CleanupBatch = 2
  Older = 1
  Bounds <- FaultBounds
SYMMETRY Symmetry
INVARIANT DownloadableIsWhole
PROPERTY CancelledStaysClean
PROPERTY TerminalIsFinal
PROPERTY KeepsPromise
CHECK_DEADLOCK FALSE
