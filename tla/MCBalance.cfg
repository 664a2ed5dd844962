SPECIFICATION BalanceSpec
CONSTANTS
  Path <- MCPath
  Request <- MCRequest
  Host <- MCHost
  PathLen <- MCPathLen
  WildcardPaths <- MCWildcardPaths
  MatchSet <- MCMatchSet
  HostMatchSet <- MCHostMatchSet
  Id = {t1, t2}
  NoHandler = NoHandler
  CounterSize = 5
  MaxEntries = 2
  MaxHandlers = 3
INVARIANTS
  RoundRobin
  NoStarvation
