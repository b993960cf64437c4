CONSTANTS
  job = job
  r1 = r1
  r2 = r2
  m = m
  scheduler = scheduler
  alice = alice
  NoOwner = NoOwner
  Null = Null
  Header = Header
  Runs <- MCRuns
  Owners <- MCOwners
  Kind <- MCKind
  Owner <- MCOwner
  TTL = 2
  MaxAttempts = 3
  MaxCrashes = 1
  Events <- MCEvents
  Created <- MCCreated
  Id <- MCId
  BatchSize = 2
  MaxFailures = 1
  MaxCloseFailures = 1
  MayRecover = {2, 4}
SPECIFICATION FairPruning
CHECK_DEADLOCK FALSE
INVARIANTS OnePruner GrantHasRow NothingSkipped
PROPERTIES PruningGoesOn
