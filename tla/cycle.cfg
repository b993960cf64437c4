CONSTANTS
  Parts = {"cycle", "mixed", "batch"}
  CIs = {"a", "b", "c", "d"}
  Snmp = {"c"}
  Jittery = {"d"}
  Parents <- MCParents
  Unconfirmed <- MCUnconfirmed
  Debounce = 2
  AckableStatuses = {"OPEN", "ACK"}
  MaxFlips = 2
  MaxFailures = 1
  MaxClosings = 1
  MaxRestarts = 1
SPECIFICATION MCSpec
CHECK_DEADLOCK FALSE
INVARIANTS CountsAreSound BatchLeavesNewest
PROPERTIES ShownIsStored FollowsTopology MCDownIsSeen
