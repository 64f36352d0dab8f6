\* The SDK as it is built: the redis client is captured before build().
SPECIFICATION RecoverySpec
CONSTANTS
  PullPayments = {p}
  Configured = FALSE
  Payments = 1
  MaxStarts = 1
  MaxStops = 1
  MaxCrashes = 1
  MaxFaults = 1
INVARIANTS RedisHoldsSchedulers
CHECK_DEADLOCK FALSE
