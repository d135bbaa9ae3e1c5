CONSTANTS
  PageSize = 4096
  MinPhysical = 1048576
  W32 = 16777216
  W64 = 33554432
  Maps <- MCMaps
  Sizes = {0}
  Bioses <- MCBioses
  MaxModes = 3
  ByteMod = 256
  Specs <- MCSpecs
  Colours <- MCColours
  KeyCap = 2
SPECIFICATION FairSpecCmd
INVARIANTS RecordedIsShown ModeAsAsked FrameFits ColoursShown TextComesBack
PROPERTIES InputEndsDemo
