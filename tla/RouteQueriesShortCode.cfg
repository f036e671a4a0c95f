SPECIFICATION Spec
CONSTANTS
  Stores <- MCStores
  AirlineCodes = {"L", "M", "l"}
  Codes = {"AAA", "BBB", "CCC", "DDD", "EEE", "eee", "U100", "U200"}
  NoCode = ""
  NoCity = ""
  NoGeo = 0
  Miles <- MCMiles
  Texts <- MCTexts
  Lower <- MCLower
  Upper <- MCUpper
  Size <- MCSize
  Parts <- MCParts
  Heads <- MCHeads
  Rank <- MCRank
  Counts <- MCCounts
  MaxTop = 3
  DefaultTop = 1
  MaxAirlines = 1
  MaxServed = 2
  MaxListed = 4
  MaxMap = 3
  MaxHops = 1
  MaxFound = 2
  MaxSuggested = 1
  MaxOffered = 3
INVARIANT ShortCodePicked
