SPECIFICATION FetchSpec
CONSTANTS
  Launch = {"p1", "p2"}
  Blocks = 3
  Given <- MCGiven
  Offline = {}
  MaxTrips = 0
  MaxUpdates = 0
INVARIANTS DestWhole
CHECK_DEADLOCK FALSE
