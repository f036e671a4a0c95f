SPECIFICATION Spec
CONSTANTS
  Codes <- MCCodes
  NoCode = ""
  Upper <- MCUpperCodes
  GeneratedCode <- MCGeneratedCode
  TypedCodes = {"AAA", "new", "U2"}
  Icaos = {"IAAA", "IXXX"}
  NoIcao = ""
  Fields = {"name"}
  Texts = {"", "given", "[REDACTED]"}
  NoText = ""
  Redacted = "[REDACTED]"
  Geos = {"here", "there", "0,0"}
  NoGeo = "0,0"
  LoadedAirports <- MCLoadedAirports
  LoadedRoutes <- MCLoadedRoutes
  UploadRows <- MCUploadRows
  MaxUploads = 2
  MaxRows = 2
  MaxCopies = 4
PROPERTY DeletedCodeLeavesRoutes
