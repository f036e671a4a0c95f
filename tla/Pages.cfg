SPECIFICATION Spec
CONSTANTS
  Texts = {"", "a", "b"}
  Empty = ""
  NoText = "none"
  Default = "b"
  MaxAsks = 3
  MaxRuns = 2
CHECK_DEADLOCK FALSE
INVARIANTS
  TypeOK
  BoxOffersForText
  AreaIsOfField
PROPERTY AreaSettles
