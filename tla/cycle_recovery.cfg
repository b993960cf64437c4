CONSTANTS
  Parts = {"cycle"}
  CIs = {"a", "b"}
  Snmp = {"a"}
  Jittery = {}
  Parents <- MCParents
  Unconfirmed <- MCUnconfirmed
  Debounce = 2
  AckableStatuses = {"OPEN", "ACK"}
  MaxFlips = 2
  MaxFailures = 1
  MaxClosings = 0
  MaxRestarts = 0
SPECIFICATION MCSpec
CHECK_DEADLOCK FALSE
PROPERTIES MCAnsweringIsRecovered
