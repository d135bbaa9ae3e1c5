CONSTANTS
  SectorSize = 4
  EntrySize = 1
  SectorsPerCluster = 2
  RootLba = 2
  RootEntries = 4
  Sectors = 16
  FatBytes <- MCFatBytes
  Chain <- MCChain
  Directory <- MCDirectory
  MaxHandles = 2
  W16 = 32
  Spt = 3
  Heads = 2
  Cylinders = 6
  SecMod = 4
  CylLow = 2
  CylHigh = 4
  W32 = 64
  Fatal <- MCSystemSectors
  Careful = TRUE
  Paths <- MCPaths
  Counts = {1, 5, 8}
SPECIFICATION SpecFat
INVARIANTS BufferAtPosition
PROPERTIES ImplementsFiles
