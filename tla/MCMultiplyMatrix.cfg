SPECIFICATION FairSpec
CONSTANTS
  Problems <- MCProblems
  Devices <- MCDevices
  MaxItems = 4
INVARIANTS
  TypeOK
  EveryLaunchFits
  EveryElementHasOneItem
  CurrentTileIsRead
  ProductIsComplete
PROPERTIES
  CallEnds
