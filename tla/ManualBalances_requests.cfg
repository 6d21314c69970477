SPECIFICATION Spec
CONSTANTS
  MaxRequests = 3
  Requests <- MCRequests
  Owner <- MCOwner
  Kind <- MCKind
  Fold <- MCFold
  Databases <- MCDatabases
  Values <- MCValues
  Stored <- MCStored
  Merged = {"me"}
  TooLarge = TooLarge
  Gone = Gone
  Null = Null
PROPERTIES
  PutLeavesWhatItAsked
  FailsOnlyForACause
  BookSpec
  RequestsEnd
CHECK_DEADLOCK FALSE
