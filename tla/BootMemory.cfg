CONSTANTS
  PageSize = 4
  MinPhysical = 8
  W32 = 32
  W64 = 65
  Maps <- MCMaps
  Sizes <- MCSizes
  MapCapacity = 3
  HeapBase = 2
  HeapSize = 4
  HeapRequests <- MCHeapRequests
  Paragraph = 2
  Segments = 4
SPECIFICATION SpecMem
INVARIANTS RegionIsMemory BlocksApart LargestRegion MapComplete HeapIsMemory AllocatorsApart
CHECK_DEADLOCK FALSE
