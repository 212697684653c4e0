SPECIFICATION WeightsSpec
CONSTANTS
  Interval = 6
  Timeout = 2
  Retries <- OneRetry
  WaitForNext = 5
  Reign = 14
  Leads <- LeadsOf
  MaxTime = 36
  MaxLeaders = 3
  MaxFailures = 2
INVARIANTS PaidInTime
PROPERTIES PaysActingLeader
CHECK_DEADLOCK FALSE
