CONSTANTS
  MaxPartitions = 4
  MaxCells = 5
  MaxEssence = 1
  MaxDamaged = 1
  MaxParsed = 1
  Objects = {1, 2, 3, 4, 5}
  MinLLens = {0, 4}
  MemoryIndexes = {2}
  InOrderClient = TRUE
  AnyMemoryLLen = FALSE
SPECIFICATION Spec
INVARIANTS InOrderFileReadsComplete
PROPERTIES RewriteKeepsLLen
