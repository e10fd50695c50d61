SPECIFICATION Spec
CONSTANTS
  p1 = p1
  p2 = p2
  good = good
  bad = bad
  blur = blur
  sobel = sobel
  typo = typo
  Procs <- MCProcs
  Sources <- MCSources
  Names <- MCNames
  Defines <- MCDefines
  Compilable <- MCCompilable
  Requests <- MCRequests
  Chunks = 2
  MAX_CACHE_SIZE = 1
  MaxFaults = 0
  NoName = NoName
INVARIANTS
  LoadReturnsTheBinary
CHECK_DEADLOCK FALSE
