CONSTANTS
  Char = {a, b}
  NUL = NUL
  Size = 4
SPECIFICATION Spec
INVARIANTS TypeOK ReaderStable UnreadAreChars
PROPERTIES ImplementsFifo
