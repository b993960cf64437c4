CONSTANTS
  r1 = r1
  r2 = r2
  r3 = r3
  w1 = w1
  w2 = w2
  Writers <- MCWriters
  Rows <- MCTwoRows
  SampleRows <- MCSampleRows
  SilentRows <- MCNone
  PublishStatuses <- MCReady
  BatchSize = 2
  CrashPoints <- MCAllPoints
  MaxCrashes = 1
  MaxFailures = 0
  LeaseCoversBatch = TRUE
SPECIFICATION Spec
CHECK_DEADLOCK FALSE
INVARIANTS NoUpdateLost
