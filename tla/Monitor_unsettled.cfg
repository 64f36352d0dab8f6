\* A registration that fails on the chain, without a crash or a fault.
SPECIFICATION FairMonitorSpec
CONSTANTS
  PullPayments = {p}
  Configured = TRUE
  Payments = 1
  MaxStarts = 2
  MaxStops = 0
  MaxCrashes = 0
  MaxFaults = 0
  MaxPolls <- MCMaxPolls
  MaxWatches <- MCMaxWatches
  Affordable = 1
PROPERTIES RegistrationIsAnswered
CHECK_DEADLOCK FALSE
