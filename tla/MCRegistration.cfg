SPECIFICATION Spec
CONSTANTS
  MaxOps = 2
  MaxActs = 2
  MaxFaults = 1
  Expiries = {"short", "long"}
  Password = 1
CHECK_DEADLOCK FALSE
INVARIANTS TypeOK OkIsRefreshed OneRegistration
PROPERTIES ClearedIsUnbound ProgressEnds
