SPECIFICATION Spec
CONSTANTS
  d1 = d1
  d2 = d2
  Null = Null
  Accounts = {acc}
  Dates = {d1, d2}
  Jobs = {j1, j2}
  Lease = 1
  MaxAttempts = 2
  MaxClock = 2
  RetryDelays = {1}
  Schedules <- TwoDays
SYMMETRY JobSymmetry
INVARIANTS
  TypeOK
  SendsBounded
  OneSenderWithinLease
  DuplicateOnlyByLossOrOverrun
PROPERTIES
  SentIsFinal
