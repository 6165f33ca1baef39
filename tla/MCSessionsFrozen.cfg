SPECIFICATION Spec
CONSTANTS
  c1 = c1
  c2 = c2
  price = price
  book = book
  indicator = indicator
  t1 = t1
  t2 = t2
  s1 = s1
  s2 = s2
  r1 = r1
  Connections = {c1}
  Prices = {price}
  Books = {book}
  Indicators = {indicator}
  Wants <- MCOneWant
  Tasks = {t1, t2}
  Sessions = {s1, s2}
  Readings = {r1}
  FailuresBeforeStale = 2
  None = None
CHECK_DEADLOCK FALSE
INVARIANTS
  HeldSessionsAreDriven
