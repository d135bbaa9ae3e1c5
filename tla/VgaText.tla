------------------------------ MODULE VgaText -------------------------------
(***************************************************************************)
(* src/kernel/vga.c: the text console.  The cursor is kept in vga_col and  *)
(* vga_row, and every character is written at the cell it names without a  *)
(* test of its own.  Colours are left out.                                 *)
(***************************************************************************)
EXTENDS Integers, Sequences

CONSTANTS
  Width, Height,     \* VGA_WIDTH and VGA_HEIGHT
  TabStop,           \* 8
  Space,             \* the character of an empty cell
  NL, CR, TAB, BS    \* the characters vga_putchar does not draw

Controls == {NL, CR, TAB, BS}

ASSUME ScreenAssumption ==
  /\ Width \in Nat \ {0} /\ Height \in Nat \ {0} /\ TabStop \in Nat \ {0}
  /\ NL \notin {CR, TAB, BS} /\ CR \notin {TAB, BS} /\ TAB # BS /\ Space \notin Controls

VARIABLES
  cells,   \* the text memory, by offset
  col, row,
  hwcur    \* the cursor location registers of the CRT controller

vgaVars == <<cells, col, row, hwcur>>

Offsets == 0 .. Width * Height - 1

\* vga_scroll on the given text memory.
Scrolled(scr) ==
  [i \in Offsets |-> IF i < (Height - 1) * Width THEN scr[i + Width] ELSE Space]

\* The cell a character changes, and where the cursor is before the two tests
\* at the end of vga_putchar.
Drawn(c) ==
  CASE c = BS          -> IF col > 0 THEN [cells EXCEPT ![row * Width + col - 1] = Space] ELSE cells
    [] c \in {NL, CR, TAB} -> cells
    [] OTHER           -> [cells EXCEPT ![row * Width + col] = c]

NextCol(c) ==
  CASE c \in {NL, CR} -> 0
    [] c = TAB        -> ((col + TabStop) \div TabStop) * TabStop
    [] c = BS         -> IF col > 0 THEN col - 1 ELSE 0
    [] OTHER          -> col + 1

NextRow(c) == IF c = NL THEN row + 1 ELSE row

\* A vga_putchar that never scrolls.
PutcharNoScroll(c) ==
  LET wraps == NextCol(c) >= Width
      line  == IF wraps THEN NextRow(c) + 1 ELSE NextRow(c)
  IN  /\ col' = IF wraps THEN 0 ELSE NextCol(c)
      /\ row' = line
      /\ cells' = Drawn(c)
      /\ hwcur' = row' * Width + col'

\* vga_putchar.
Putchar(c) ==
  LET wraps == NextCol(c) >= Width
      line  == IF wraps THEN NextRow(c) + 1 ELSE NextRow(c)
  IN  /\ col' = IF wraps THEN 0 ELSE NextCol(c)
      /\ row' = IF line >= Height THEN Height - 1 ELSE line
      /\ cells' = IF line >= Height THEN Scrolled(Drawn(c)) ELSE Drawn(c)
      /\ hwcur' = row' * Width + col'

\* vga_clear.
Clear ==
  /\ cells' = [i \in Offsets |-> Space]
  /\ col' = 0 /\ row' = 0 /\ hwcur' = 0

\* After vga_init and the messages of the boot, which end with a newline.
InitVga ==
  /\ cells = [i \in Offsets |-> Space]
  /\ col = 0 /\ row \in 0 .. Height - 1
  /\ hwcur = row * Width

\* The cursor stays on the screen, so that the next character is written into
\* the text memory, and the blinking cursor is where the kernel's is.
CursorOnScreen ==
  /\ col \in 0 .. Width - 1 /\ row \in 0 .. Height - 1
  /\ DOMAIN cells = Offsets
  /\ hwcur = row * Width + col
==============================================================================
