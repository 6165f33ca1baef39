SPECIFICATION Spec
CONSTANTS
  c1 = c1
  c2 = c2
  minute = minute
  day = day
  Calls = {c1, c2}
  Windows = {minute, day}
  Cost <- MCCost
  Budget <- MCBudget
  Observed = {1}
  MaxPermits = 2
  Streak = 1
  Trips = 2
  MaxAttempts = 2
CHECK_DEADLOCK FALSE
INVARIANTS
  TypeOK
  PermitsNeverRunOut
  WindowsAreExact
PROPERTIES
  EveryCallEnds
