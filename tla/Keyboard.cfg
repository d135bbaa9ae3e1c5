CONSTANTS
  Char <- MCChar
  NUL = ""
  Capacity = 1
  Keys <- MCKeys
  MakeCode <- MCMake
  BreakCode <- MCBreak
  ShiftKeys <- MCShift
  AltGrKeys <- MCAltGr
  CapsKeys <- MCCaps
  Typematic <- MCTypematic
  Codes <- MCCodes
  Table <- MCTable
  FlipCase <- MCFlip
  WireCap = 3
SPECIFICATION SpecKbd
INVARIANTS ModifiersTrackKeys DecodesAsTyped
