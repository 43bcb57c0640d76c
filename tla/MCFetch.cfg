SPECIFICATION FetchFairSpec
CONSTANTS
  Launch = {"p1", "off"}
  Blocks = 3
  Given <- MCGiven
  Offline = {"off"}
  MaxTrips = 3
  MaxUpdates = 1
INVARIANTS FetchTypeOK NeverTruncated NeverRefetched
PROPERTIES GetsReady
CHECK_DEADLOCK FALSE
