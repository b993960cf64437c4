SPECIFICATION MCSpec
CHECK_DEADLOCK FALSE
INVARIANTS BackupsHold DeskHolds LinksHold AssignmentsHold
PROPERTIES StepsHold
CONSTANTS
  Retentions = {1, 2}
  Times = {"06:00", "25:00"}
  SameSecond = FALSE
  BackupTime = 3
  BackupFaults = 1
  ConfigChanges = 1
  Workers = {"w1", "w2"}
  Staff = {"u1"}
  Services = {"s1", "s2"}
  Transitions = {"in_progress", "in_validation", "resolved", "closed", "null"}
  MaxTickets = 2
  DeskChanges = 1
  DeskFailures = 1
  Accounts = {"admin", "old"}
  Admin = "admin"
  Names = {"ADMIN", "VIEWER", "OLD"}
  Perms = {"USER_MANAGE", "ROLE_MANAGE", "x"}
  Seeded <- MCSeeded
  Seeds <- MCSeeds
  Upgrades <- MCUpgrades
  LegacyRoles <- MCLegacyRoles
  LegacyUsers <- MCLegacyUsers
  RoleChanges = 2
  RoleFailures = 1
  CIs = {"a"}
  Kinds = {"k1", "k2"}
  Metrics = {"m", "n"}
  Criteria <- MCCriteria
  Dicts = {"d"}
  BrandModels = {"x"}
  Threads = {"t1", "t2"}
  Loop = "loop"
  Batch = 1
  MaxOps = 5
  MaxFailures = 1
  Nodes = {"a", "b"}
  Links = {"l"}
  Ends <- MCEnds
  FreshWindow = 0
  StaleAfter = 1
  ReadStaleAfter = 1
  Windows = {0, 1, 2}
  LinkTime = 3
  MaxBytes = 3
  LinkChanges = 2
  Layers = {"hub", "other"}
  Hub = "hub"
  Locations = {"x", "y"}
  Rels = {"R", "S"}
  Mediums = {"vpn"}
  Viewers = {"u"}
  Allowed <- MCAllowed
  Filters <- MCFilters
  Limit = 2
  Requests = {"p", "q"}
  MaxRequests = 2
  MaxEdits = 1
  RecordFiles <- MCFiles
  Slots = {"t1"}
  Versions = {"v1", "v2"}
  Scripts = {"s1", "s2"}
  MaxDepth = 3
  MaxRuns = 3
  CliMetrics = {"m"}
  CliPairs <- MCCliPairs
  CliInterval <- MCCliInterval
  CliRef <- MCCliRef
  Escalates = {}
  CliEnv <- MCCliEnv
  Day = 5
  MaxTakes = 2
  Threshold = 2
  CliTime = 10
  CliFaults = 1
