SPECIFICATION Spec
CONSTANTS
    a = a
    b = b
    c = c
    Objects = {a, b, c}
    Hole = Hole
    Buckets = 2
    Home <- MCHome
    Handles = {h1}
    Batches <- MCBatches
    Created = FALSE
    ShortWrites = FALSE
    DiskCells = 3
    MaxPending = 2
INVARIANTS TypeOK TableSound AckedStored MappedReadsSafe
PROPERTIES MappingStable StoreSpec
