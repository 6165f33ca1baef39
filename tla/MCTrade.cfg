SPECIFICATION Spec
CONSTANTS
  i1 = i1
  i2 = i1
  Workers = {w1, w2}
  Instruments = {i1}
  Menu <- MCMenu
  Amendments <- MCAmendments
  Prices = {1, 2, 3}
  Step = 1
  Leverage = 1
  Slippage = 1
  FeeRate = 1
  InitialCash = 20
  Deposit = 1
  HistoryLimit = 1
  MaxOrders = 2
  MaxEvents = 2
  NoBook = NoBook
  Flat = Flat
  NoMark = NoMark
  Keep = Keep
VIEW DiskMatters
SYMMETRY RequestSymmetry
CHECK_DEADLOCK FALSE
INVARIANTS
  TypeOK
  FilledOnce
  BooksBalance
PROPERTIES
  TerminalOrdersStay
  OpenOrdersAreKept
  ClosingOnlyReduces
