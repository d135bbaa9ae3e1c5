CONSTANTS
  Char = {"a", "NL"}
  NUL = "0"
  Size = 3
  ScanChars <- MCScan
  SerialBytes = {"CR"}
  Convert <- MCConvert
  Stray = {6}
  KbcCap = 2
  UartCap = 1
  TickMod = 2
SPECIFICATION FairSpecCon
INVARIANTS NoByteWithoutIrq EoiDiscipline GetcharNeverBlocks
PROPERTIES InputWakesShell KeyIsHandled ClockGoesOn
