CONSTANTS
  Instruments = {i1, i2}
  Claims = {c1, c2}
  Abortable = {}
  Conns = {x1, x2}
  NoInstrument = NoInstrument
  NoClaim = NoClaim
  NoConn = NoConn
  Cap = 1
  MaxQueue = 1
  MaxDrops = 1
  MaxToggles = 1
SPECIFICATION FeedSpec
SYMMETRY Symmetry
INVARIANTS
  FeedTypeOK
  NothingUnleasedStreams
  EverythingLeasedStreams
  PoolAndTasksAgree
CHECK_DEADLOCK FALSE
