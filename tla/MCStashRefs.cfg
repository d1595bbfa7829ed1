SPECIFICATION Spec
CONSTANT MaxSaves = 5
INVARIANTS TypeOK NewestFirst NoGaps
PROPERTY StashesKept
