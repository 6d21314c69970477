SPECIFICATION FairSpec
CONSTANTS
  d1 = d1
  d2 = d2
  Null = Null
  Accounts = {acc1, acc2}
  Dates = {d1, d2}
  Jobs = {j1, j2}
  Lease = 1
  MaxAttempts = 1
  MaxClock = 0
  RetryDelays = {1}
  Schedules <- OneSchedule
PROPERTIES
  JobsEnd
