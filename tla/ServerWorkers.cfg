SPECIFICATION Spec
CONSTANTS
  Codes <- MCCodes
  NoCode = ""
  Upper <- MCUpper
  GeneratedCode <- MCGeneratedCode
  TypedCodes = {"AAA", "NEW"}
  Icaos = {"IAAA"}
  NoIcao = ""
  Fields = {"name"}
  Texts = {"", "given", "[REDACTED]"}
  NoText = ""
  Redacted = "[REDACTED]"
  Geos = {"here", "there", "0,0"}
  NoGeo = "0,0"
  LoadedAirports <- MCLoadedAirports
  LoadedRoutes <- MCLoadedRoutes
  UploadRows <- MCUploadRows
  MaxUploads = 8
  Workers = {"w1"}
  Requests <- MCRequests
  MaxRequests = 3
  MaxRequestRows = 2
CHECK_DEADLOCK FALSE
INVARIANT NoDuplicateCode
PROPERTIES
  ImplementsAirTravelDb
  EveryRequestAnswered
