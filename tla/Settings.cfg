SPECIFICATION Spec
CONSTANTS
  Parameters <- MCParameters
  InitialLocal <- MCInitialLocal
  Requests <- MCRequests
  MaxRequests = 2
  MaxPings = 1
  EarlyCalls = {"settings", "ping"}
INVARIANTS
  PendingIsExact
  EndsAgree
PROPERTY EventuallyAnswered
CHECK_DEADLOCK FALSE
