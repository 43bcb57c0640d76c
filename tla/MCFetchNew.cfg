SPECIFICATION FetchSpec
CONSTANTS
  Launch = {"p1"}
  Blocks = 3
  Given <- MCGiven
  Offline = {}
  MaxTrips = 1
  MaxUpdates = 1
INVARIANTS DestWhole
CHECK_DEADLOCK FALSE
