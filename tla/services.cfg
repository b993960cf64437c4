SPECIFICATION MCSpec
CHECK_DEADLOCK FALSE
INVARIANTS AccountsHold ProposalsHold GuardsHold MqttHolds
PROPERTIES SettledIsFinal
CONSTANTS
  Workers = {"w1", "w2"}
  AllSessions = {"s1"}
  AccessTTL = 3
  RefreshTTL = 6
  IdleTTL = 4
  Grace = 1
  MaxRecoveries = 1
  Throttle = 2
  MaxTokens = 4
  SessionTime = 8
  MaxDeaths = 1
  MaxAttempts = 3
  Lockout = 2
  Retention = 3
  LoginTime = 9
  Proposals = {"p1", "p2"}
  Manifest <- MCManifest
  Page = 1
  Faulty = TRUE
  OddVersions = TRUE
  Targets = {"t1", "t2"}
  Critical = {"t2"}
  Ops = {"diagnose", "ack", "close", "ci_metadata_update"}
  Requests = {"q1", "q2"}
  Cooldown <- MCCooldown
  Hour = 4
  AckWindow = 3
  UpdateWindow = 3
  MaxCloses = 0
  MaxAcks = 0
  MaxUpdates = 1
  MaxEntities = 2
  BulkOps = 3
  BulkTargets = 2
  AiTime = 3
  MaxLog = 4
  MaxRestarts = 1
  AiFailures = 1
  Subscribers = {"s1"}
  Messages = {"m1", "m2", "m3"}
  Malformed = {"m3"}
  Stamps = {"noon", "later"}
  StampsOf <- MCStampsOf
  MetricCount = 1
  Maps = {"a", "b"}
  SourceOf <- MCSourceOf
  Samplings = {"t1"}
  Operators = {"o1", "o2"}
  BridgeFailures = 2
  MaxChanges = 5
  Stale = 9
  MaxDispatch = 5
  MaxBackoff = 4
  MaxWriteFailures = 2
  MaxCrashes = 2
