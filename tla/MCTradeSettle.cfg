SPECIFICATION Spec
CONSTANTS
  i1 = i1
  i2 = i2
  Workers = {w1, w2}
  Instruments = {i1, i2}
  Menu <- SettleMenu
  Amendments <- SettleAmendments
  Prices = {1, 2}
  Step = 1
  Leverage = 1
  Slippage = 1
  FeeRate = 1
  InitialCash = 20
  Deposit = 1
  HistoryLimit = 1
  MaxOrders = 2
  MaxEvents = 2
  NoBook = NoBook
  Flat = Flat
  NoMark = NoMark
  Keep = Keep
SYMMETRY RequestSymmetry
CHECK_DEADLOCK FALSE
INVARIANTS
  FillsUseTheirOwnMark
