SPECIFICATION Spec
CONSTANTS
  a1 = a1
  a2 = a2
  m1 = m1
  m2 = m2
  Arrays <- MCArrays
  Addresses <- MCAddresses
  Values <- MCValues
  Compute <- MCCompute
  MaxQueue = 2
  MaxContexts = 1
  Reopening = {}
  NoData = NoData
  NoValue = NoValue
PROPERTIES
  FinalizeWaits
CHECK_DEADLOCK FALSE
