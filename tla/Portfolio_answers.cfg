SPECIFICATION PSpec
CONSTANTS
  Null = Null
  Users = {"me", "other"}
  Me = "me"
  GroupOwner <- MCGroups
  Databases <- MCDatabases
  Contents <- MCContents
  Books <- MCBooks
  Addresses = {"c"}
  Fresh = 1
  Stale = 2
  Day = 4
  MaxNow = 7
  MaxChanges = 2
  MaxOpen = 1
  Exchanges <- MCExchanges
  Scopes <- MCScopes
  Visible = 2
  Fold <- MCFold
  Queries <- MCQueries
  Targets <- MCTargets
  Failures <- MCFailures
INVARIANTS
  PTypeOK
  CompleteIsComparable
  FreshHasNoGap
  HealthIsWorstOfWallets
  TotalsAgree
  HistoryOfOneInstant
  RetryOfferHolds
