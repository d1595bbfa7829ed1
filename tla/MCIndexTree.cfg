SPECIFICATION TreeSpec
CONSTANTS
  Paths <- MCPaths
  Slash <- MCSlash
  MaxPath = 5
  Data = {x, y}
  Codes = {0, 1}
  Code <- MCCode
  Bytes <- MCBytes
  CacheMax = 160
  Author <- MCAuthor
  Messages <- MCMessages
  Starts <- MCStarts
  MaxReads = 2
INVARIANTS TypeOK FindExact CommitHoldsIndex WalkFindsStaged TreesAgree IdsStay CacheCounts LogIsHistory
PROPERTY ImplementsMap
