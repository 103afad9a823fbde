SPECIFICATION HostSpec
CONSTANTS
  None = None
  Interval = 1
  MaxRetries = 1
  MaxBuilderFailures = 2
  BuilderRetryDelay = 1
  MaxSlices = 1
  Backlog = 2
  EarlyAlarms = FALSE
  MaxTime = 2
  MaxCrashes = 1
  MaxFaults = 3
INVARIANTS
  WorkIsScheduled
  NoWakeupPostponed
CHECK_DEADLOCK FALSE
