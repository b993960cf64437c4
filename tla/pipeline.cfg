CONSTANTS
  t1 = t1
  w1 = w1
  v1 = v1
  NoTask = NoTask
  Tasks <- MCTasks
  Workers <- MCWorkers
  Writers <- MCWriters
  IcmpTasks <- MCTasks
  FinalResults = {"OK"}
  FailedResults = {"TIMEOUT"}
  ProducerStatus <- DefaultStatus
  BatchSize = 1
  ResultBatch = 1
  LeaseTTL = 1
  RetryDelay = 1
  DeferDelay = 1
  MaxDue = 0
  MaxCrashes = 1
  MaxFailures = 1
  CrashPoints <- MCPoints
  LeaseCoversBatch = FALSE
SPECIFICATION PipelineSpec
CHECK_DEADLOCK FALSE
INVARIANTS CompletedIsQueued
