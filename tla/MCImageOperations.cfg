SPECIFICATION Spec
CONSTANTS
  Clients <- MCClients
  Radii = {0, 1, 2}
  Passes = {1, 2}
  Values = {0, 2}
INVARIANTS
  TypeOK
  NothingUnwrittenIsRead
  ResultIsComplete
  NothingShowsThrough
  DependsOnItsOperands
  ReachesAsFarAsAsked
  OnlyTheDestinationIsWritten
  
  NothingRaces
  ResultIsTheDestination
  NothingIsMisread
  ArraysFit
PROPERTIES
  OwnResultIsAccepted
  DestinationMakesNoDifference
CHECK_DEADLOCK FALSE
