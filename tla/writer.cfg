CONSTANTS
  r1 = r1
  r2 = r2
  r3 = r3
  w1 = w1
  w2 = w2
  Writers <- MCWriters
  Rows <- MCRows
  SampleRows <- MCSampleRows
  SilentRows <- MCSilentRows
  PublishStatuses <- MCReady
  BatchSize = 2
  CrashPoints <- MCAllPoints
  MaxCrashes = 1
  MaxFailures = 1
  LeaseCoversBatch = TRUE
SPECIFICATION FairSpec
CHECK_DEADLOCK FALSE
INVARIANTS OneWriterPerRow FreshStaysFresh OnlyDeathsLoseUpdates WrittenHasReceipt
PROPERTIES RowsAreWork EveryRowIsWritten
