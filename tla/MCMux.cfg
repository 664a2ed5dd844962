SPECIFICATION Spec
CONSTANTS
  Path <- MCPath
  Request <- MCRequest
  Host <- MCHost
  PathLen <- MCPathLen
  WildcardPaths <- MCWildcardPaths
  MatchSet <- MCMatchSet
  HostMatchSet <- MCHostMatchSet
  Id = {t1, t2}
  NoHandler = NoHandler
  CounterSize = 2
  MaxEntries = 3
  MaxHandlers = 2
SYMMETRY MCSymmetry
INVARIANTS
  TypeOK
  IndexSound
  ListedOnce
  Precedence
PROPERTIES
  ImplementsRouteTable
