SPECIFICATION Spec
CONSTANTS
  f = f
  g = g
  x = x
  y = y
  z = z
  Paths = {f}
  Nested = {}
  Data = {x, y}
  Text = {x}
  Size <- OtherLength
  MaxFile = 2
  MaxTime = 3
  MaxHistory = 1
  MaxStashes = 1
PROPERTY CheckpointKeepsWork
