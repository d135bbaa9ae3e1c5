CONSTANTS
  IntMod = 65536
  Width = 9
  Height = 2
  TabStop = 2
  NL = "NL"
  CR = "CR"
  TAB = "TAB"
  BS = "BS"
  Space = " "
  NUL = "NUL"
  DEL = "DEL"
  Letters = {"e"}
  Marks = {">", "System ticks: ", "1", "0"}
  Prompt <- MCPrompt
  CmdMaxLen = 8
  MaxOdd = 1
  MaxArgs = 3
  Command <- MCCommand
  Text <- MCText
  NoNewline <- MCNoNewline
  Help <- MCHelp
SPECIFICATION SpecShell
INVARIANTS CursorOnScreen LineShown ArgsAreWords
