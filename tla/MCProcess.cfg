SPECIFICATION ProcessSpec
CONSTANTS
  Workers = {w1, w2}
  MaxFailures = 2
  Setups <- MCSetups
INVARIANTS
  ClosedBelowThreshold
  StillOpen
PROPERTIES
  RefusalEnds
  ShutdownEnds
