SPECIFICATION Spec
CONSTANTS
  Clients <- MCClients
  Radii = {0, 1, 2}
  Passes = {1, 2}
  Values = {0, 2}
INVARIANT NeighborsOfNeighborsFit
CHECK_DEADLOCK FALSE
