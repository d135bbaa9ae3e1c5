CONSTANTS
  SectorSize = 4
  EntrySize = 1
  SectorsPerCluster = 1
  RootLba = 2
  RootEntries = 8
  Sectors = 12
  FatBytes <- MCFatBytes
  Chain <- MCChain
  Directory <- MCDirectory
  W32 = 64
  Spt = 3
  Heads = 1
  Cylinders = 4
  SecMod = 4
  CylLow = 2
  CylHigh = 4
  W16 = 32
  Stage2Name = "S"
  FatSectors = 1
  DataOffset = 2
  SegBytes = 16
  Fatal1 <- MCFatal1
  MaxHandles = 2
  Fatal <- MCFatal
  Careful = TRUE
  Paths = {}
  Kernel <- MCKernel
  Counts = {}
SPECIFICATION FairSpecBoot
INVARIANTS Stage2Loaded SectorsMeant KernelComplete
PROPERTIES BootEnds
CHECK_DEADLOCK FALSE
