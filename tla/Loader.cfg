SPECIFICATION Spec
CONSTANTS
  Disks <- MCDisks
  NoCode = ""
  NoIcao = ""
CHECK_DEADLOCK FALSE
INVARIANTS
  TypeOK
  RoutesOfOneDirectory
  CompleteSuffices
  StoreAsInAirTravelDb
PROPERTY StartEnds
