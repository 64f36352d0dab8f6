\* One pull payment of two payments, its registration and its cancellation,
\* with a crash, a fault, a registration monitored again and cancellation polls
\* that overlap.
SPECIFICATION FairMonitorSpec
CONSTANTS
  PullPayments = {p}
  Configured = TRUE
  Payments = 2
  MaxStarts = 2
  MaxStops = 0
  MaxCrashes = 1
  MaxFaults = 1
  MaxPolls <- MCMaxPolls
  MaxWatches <- MCMaxWatches
  Affordable = 1
INVARIANTS MonitorTypeOK RedisCoversBuffer HandledOnce EtherWhileScheduled
CHECK_DEADLOCK FALSE
PROPERTIES RegistrationIsScheduled EtherReturns BufferCatchesUp
