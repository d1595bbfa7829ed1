SPECIFICATION Spec
CONSTANTS
  main = main
  dev = dev
  topic = topic
  c1 = c1
  c2 = c2
  c3 = c3
  c4 = c4
  p1 = p1
  p2 = p2
  Main = main
  Branches = {main, dev, topic}
  Commits = {c1, c2, c3}
  Procs = {p1}
  Faults = TRUE
  Reinit = TRUE
SYMMETRY Symmetric
INVARIANTS TypeOK HeadResolves RefsStored
PROPERTY HistoryKept
