SPECIFICATION FairSpec
CONSTANTS
  TR = 2
  KB = 2
  GK = 1
  MaxRetry = 2
  Sentinel = 1073741824
  SentMin = 536870912
  MaxTerm = 99096576
  Term <- MCTerm
  Scale <- MCScale
  Stale = 7
  Calls <- MCCalls
  Hosts <- MCHosts
  Envs <- MCEnvs
INVARIANTS TypeOK Exact
PROPERTIES CallEnds
