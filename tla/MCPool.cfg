SPECIFICATION FairSpec
CONSTANTS
  NT = 3
  Job <- MCJob
  MaxCalls = 2
INVARIANTS TypeOK WithinCall NobodyLeftBehind
PROPERTIES ImplementsParallelFor CallReturns DropEnds
CHECK_DEADLOCK FALSE
