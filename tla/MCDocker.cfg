SPECIFICATION FairSpec
CONSTANTS
  c1 = c1
  c2 = c2
  c3 = c3
  h1 = h1
  h2 = h2
  t1 = t1
  t2 = t2
  Container = {c1, c2, c3}
  Hostname = {h1, h2}
  Target = {t1, t2}
  HostsOf <- MCHostsOf
  TargetOf <- MCTargetOf
  Published = {c1, c2}
  StoppedPorts = FALSE
  Paced = TRUE
  MayExit = TRUE
  EarlyChanges = FALSE
  MaxChanges = 4
INVARIANTS
  TypeOK
  RunningRouted
PROPERTIES
  ContainersGetServed
CHECK_DEADLOCK FALSE
