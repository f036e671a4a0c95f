SPECIFICATION Spec
CONSTANTS
  Tokens <- MCTokens
  Files <- MCFiles
  Tables <- MCTables
  Needed = 3
CHECK_DEADLOCK FALSE
INVARIANTS
  TypeOK
  ScanAsRead
  AddedAsRead
  TableComesIn
