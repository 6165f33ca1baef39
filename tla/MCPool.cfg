CONSTANTS
  Instruments = {i1, i2}
  Claims = {c1, c2, c3}
  Abortable = {c1}
  Conns = {x1, x2}
  NoInstrument = NoInstrument
  NoClaim = NoClaim
  NoConn = NoConn
  Cap = 1
  MaxQueue = 1
SPECIFICATION Spec
INVARIANTS
  BookkeepingAgrees
  CountsMatchClaims
  ReleaseFindsARecord
PROPERTIES
  LeaseNeverMoves
  ImplementsRegistry
CHECK_DEADLOCK FALSE
