CONSTANTS
  MaxPartitions = 4
  MaxCells = 5
  MaxEssence = 1
  MaxDamaged = 0
  MaxParsed = 1
  Objects = {1, 2, 3, 4, 5}
  MinLLens = {0, 4}
  MemoryIndexes = {}
  InOrderClient = TRUE
  AnyMemoryLLen = TRUE
SPECIFICATION Spec
PROPERTIES UnsetLLenNotCarriedOver
