SPECIFICATION Spec
CONSTANTS
  f = f
  g = g
  x = x
  y = y
  z = z
  Paths = {f}
  Nested = {}
  Data = {x, y}
  Text = {x}
  Size <- SameLength
  MaxFile = 2
  MaxTime = 2
  MaxHistory = 1
  MaxStashes = 1
PROPERTY AppliedShowsModified
