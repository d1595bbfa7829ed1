SPECIFICATION FairSpec
CONSTANTS
  a = a
  MaxLine = 4
  MaxPath = 5
  Bytes <- MCBytes
  Slash <- MCSlash
  Star <- MCStar
  Query <- MCQuery
  Brackets <- MCBrackets
  Lines <- MCLines
  Paths <- MCPaths
INVARIANTS TypeOK GlobSound GlobComplete PruneAgrees
PROPERTY Returns
CHECK_DEADLOCK FALSE
