SPECIFICATION Spec
CONSTANTS
  x = x
  y = y
  m1 = m1
  m2 = m2
  Handles <- MCHandles
  Memories <- MCMemories
  Extents <- MCExtents
  ItemSize = 2
  NoArray = NoArray
SYMMETRY Symmetric
INVARIANTS
  FullCopyIsExact
CHECK_DEADLOCK FALSE
