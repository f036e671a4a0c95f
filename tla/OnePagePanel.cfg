SPECIFICATION Spec
CONSTANT MaxActions = 4
CHECK_DEADLOCK FALSE
INVARIANTS
  TypeOK
  QuietNotLoading
  LastOrOvertaken
  CalmHops
  CalmMap
PROPERTY PanelSettles
