SPECIFICATION Spec
CONSTANTS
  Jobs = {j1, j2}
  Horizon = 3
  Requests <- MCRequests
  Urgent = {j1}
  Histories <- MCHistories
  PageSlots = 2
  BucketSlots = 2
  Capacities = {2}
  MaxAttempts = 1
  MaxAsked = 3
  Faults = {"crash", "delete"}
  NoCoverage = NoCoverage
  NoEdge = NoEdge
  NoCell = NoCell
INVARIANTS TypeOK CompletedJobIsStored CacheNeverOverclaims FlightAgrees
CHECK_DEADLOCK FALSE
