CONSTANTS
  SectorSize = 2
  EntrySize = 1
  SectorsPerCluster = 2
  RootLba = 2
  RootEntries = 2
  Sectors = 8
  FatBytes <- MCFatBytes
  Chain <- MCSmallChain
  Directory <- MCSmallDirectory
  MaxHandles = 1
  W16 = 32
  Spt = 3
  Heads = 2
  Cylinders = 6
  SecMod = 4
  CylLow = 2
  CylHigh = 4
  W32 = 8
  Fatal = {}
  Careful = TRUE
  Paths <- MCMissing
  Counts = {1}
SPECIFICATION FairSpecFat
PROPERTIES OpenReturns
