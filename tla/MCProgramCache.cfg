SPECIFICATION HSpec
CONSTANTS
  k1 = k1
  k2 = k2
  k3 = k3
  k4 = k4
  p1 = p1
  p2 = p2
  n1 = n1
  n2 = n2
  n3 = n3
  n4 = n4
  null = null
  Keys <- MCKeys
  Programs <- MCPrograms
  NoProgram = null
  Nodes <- MCNodes
  MAX_CACHE_SIZE = 3
INVARIANTS
  TypeOK
  SizeBounded
  MapAndListAgree
  RecentlyUsedIsRetained
PROPERTIES
  ImplementsLRU
CHECK_DEADLOCK FALSE
