CONSTANTS
  s1 = s1
  s2 = s2
  w1 = w1
  w2 = w2
  NoTask = NoTask
  Workers <- MCWorkers
  Tasks <- MCTasks
  IcmpTasks <- MCNone
  FinalResults = {"OK"}
  FailedResults = {"TIMEOUT"}
  BatchSize = 2
  LeaseTTL = 2
  RetryDelay = 1
  DeferDelay = 1
  MaxDue = 0
  MaxCrashes = 1
  LeaseCoversBatch = TRUE
SPECIFICATION FairSpec
CHECK_DEADLOCK FALSE
INVARIANTS OneWorkerPerTask BatchIsLeased
PROPERTIES TasksAreWork EveryTaskIsAttended
