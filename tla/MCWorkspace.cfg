SPECIFICATION Spec
CONSTANTS
  f = f
  g = g
  x = x
  y = y
  z = z
  Paths = {f, g}
  Nested = {g}
  Data = {x, y, z}
  Text = {x, y}
  Size <- SameLength
  MaxFile = 2
  MaxTime = 1
  MaxHistory = 1
  MaxStashes = 1
INVARIANTS TypeOK CleanMeansSame StashRoundTrip StatusShowsAll DiffsAreListed
PROPERTY StageCaptures
SYMMETRY EqualLength
