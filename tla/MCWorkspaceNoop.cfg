SPECIFICATION Spec
CONSTANTS
  f = f
  g = g
  x = x
  y = y
  z = z
  Paths = {g}
  Nested = {g}
  Data = {x, y}
  Text = {x}
  Size <- OtherLength
  MaxFile = 2
  MaxTime = 2
  MaxHistory = 1
  MaxStashes = 1
INVARIANT StashOfCleanIsNoop
