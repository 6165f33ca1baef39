SPECIFICATION Spec
CONSTANTS
  Jobs = {j1, j2}
  Horizon = 3
  Requests <- MCLiveRequests
  Urgent = {j1}
  Histories <- MCFullHistory
  PageSlots = 2
  BucketSlots = 2
  Capacities = {1, 2}
  MaxAttempts = 2
  MaxAsked = 2
  Faults = {}
  NoCoverage = NoCoverage
  NoEdge = NoEdge
  NoCell = NoCell
INVARIANTS GateAgrees
PROPERTIES EveryJobEnds
CHECK_DEADLOCK FALSE
