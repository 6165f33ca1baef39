SPECIFICATION HopSpec
CONSTANTS
  Day = 4
  Feeds <- MCFeeds
  MaxVolume = 30
  None = None
CHECK_DEADLOCK FALSE
INVARIANTS
  OnlyWholeBuckets
  InOrderLosesNothing
  TwoHopsAgree
  CalendarAgrees
