SPECIFICATION Spec
CONSTANTS
    a = a
    b = b
    c = c
    Objects = {a, b}
    Hole = Hole
    Buckets = 2
    Home <- MCHomeTwo
    Handles = {h1, h2}
    Batches <- MCBatchesTwo
    Created = TRUE
    ShortWrites = FALSE
    DiskCells = 3
    MaxPending = 1
INVARIANT AckedStored
