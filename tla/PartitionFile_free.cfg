CONSTANTS
  MaxPartitions = 4
  MaxCells = 5
  MaxEssence = 0
  MaxDamaged = 1
  MaxParsed = 1
  Objects = {1, 2, 3, 4, 5}
  MinLLens = {0}
  MemoryIndexes = {2}
  InOrderClient = FALSE
  AnyMemoryLLen = FALSE
SPECIFICATION Spec
INVARIANTS TypeOK OwnedOnce ReadIsFaithful FailedReadKeepsHeader UpdateSettlesFile SettledFileReadsComplete
PROPERTIES SliceKeepsToMemory HeaderSurvivesRead UpdatesWantedOnly
