SPECIFICATION Spec
CONSTANTS
  MaxConns = 2
  MaxSignals = 3
  MaxFaults = 2
INVARIANTS
  TypeOK
  EndsForCause
PROPERTIES
  SignalEnds
  Recovers
