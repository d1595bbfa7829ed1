SPECIFICATION FairSpec
CONSTANTS
  f = f
  g = g
  x = x
  y = y
  z = z
  Paths = {f}
  Nested = {f}
  Data = {x, y}
  Size <- SameLength
  MaxFile = 2
  MaxTime = 2
  MaxHistory = 2
  MaxStashes = 1
INVARIANTS TypeOK AllDurable CleanMeansSame WorkKept
PROPERTIES WholeCommands StagingConverges
CHECK_DEADLOCK FALSE
