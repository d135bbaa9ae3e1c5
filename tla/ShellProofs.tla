----------------------------- MODULE ShellProofs -----------------------------
(***************************************************************************)
(* Theorems of the shell: the cursor never leaves the screen, the cursor's *)
(* line shows what Enter would run, and the command is given the words of  *)
(* the line, for every screen, prompt, table of commands and text; and of  *)
(* printf, which shows every number as the digits that stand for it, also  *)
(* in the lines of ticks and mem.                                          *)
(***************************************************************************)
EXTENDS Shell, VgaPrintf, SequenceTheorems, WellFoundedInduction, TLAPS

\* A set of naturals has a least element.
LEMMA Least ==
  ASSUME NEW T, T \subseteq Nat, T # {}
  PROVE  \E x \in T : \A y \in T : x <= y
<1> DEFINE R == OpToRel(<, Nat)
<1>1. IsWellFoundedOn(R, Nat)
  BY NatLessThanWellFounded
<1>2. \A x, y \in Nat : <<y, x>> \in R <=> y < x
  BY DEF OpToRel
<1> HIDE DEF R
<1>3. PICK x \in T : \A y \in T : ~ (<<y, x>> \in R)
  BY <1>1, WFMin
<1>4. \A y \in T : ~(y < x)
  BY <1>2, <1>3
<1> QED
  BY <1>3, <1>4

\* The tokenizer's loops stop: there is a first position with one of the
\* characters when there is any, and a first without when there is any.
LEMMA FirstOfFound ==
  ASSUME NEW i \in Nat, NEW S, NEW e \in i .. Len(cmd_buf), cmd_buf[e] \in S,
         \A k \in i .. e - 1 : cmd_buf[k] \notin S, Len(cmd_buf) \in Nat
  PROVE  FirstOf(i, S) = e
<1>1. /\ FirstOf(i, S) \in i .. Len(cmd_buf) /\ cmd_buf[FirstOf(i, S)] \in S
      /\ \A k \in i .. FirstOf(i, S) - 1 : cmd_buf[k] \notin S
  BY DEF FirstOf
<1> HIDE DEF FirstOf
<1>2. ~(FirstOf(i, S) < e) /\ ~(e < FirstOf(i, S))
  <2>1. FirstOf(i, S) < e => FirstOf(i, S) \in i .. e - 1
    BY <1>1
  <2>2. e < FirstOf(i, S) => e \in i .. FirstOf(i, S) - 1
    BY <1>1
  <2> QED
    BY <1>1, <2>1, <2>2
<1> QED
  BY <1>1, <1>2

LEMMA FirstOfExists ==
  ASSUME NEW i \in Nat, NEW S, NEW e \in i .. Len(cmd_buf), cmd_buf[e] \in S, Len(cmd_buf) \in Nat
  PROVE  /\ FirstOf(i, S) \in i .. e /\ cmd_buf[FirstOf(i, S)] \in S
         /\ \A k \in i .. FirstOf(i, S) - 1 : cmd_buf[k] \notin S
<1> DEFINE T == {k \in i .. Len(cmd_buf) : cmd_buf[k] \in S}
<1>1. T \subseteq Nat /\ e \in T
  OBVIOUS
<1>2. PICK x \in T : \A y \in T : x <= y
  BY <1>1, Least
<1>3. x <= e /\ x \in i .. Len(cmd_buf) /\ cmd_buf[x] \in S
  BY <1>1, <1>2
<1>4. \A k \in i .. x - 1 : cmd_buf[k] \notin S
  BY <1>2, <1>3
<1>5. FirstOf(i, S) = x
  BY <1>3, <1>4, FirstOfFound
<1> QED
  BY <1>3, <1>4, <1>5

LEMMA FirstNotOfExists ==
  ASSUME NEW i \in Nat, NEW S, NEW e \in i .. Len(cmd_buf), cmd_buf[e] \notin S, Len(cmd_buf) \in Nat
  PROVE  /\ FirstNotOf(i, S) \in i .. e /\ cmd_buf[FirstNotOf(i, S)] \notin S
         /\ \A k \in i .. FirstNotOf(i, S) - 1 : cmd_buf[k] \in S
<1> DEFINE T == {k \in i .. Len(cmd_buf) : cmd_buf[k] \notin S}
           F == FirstNotOf(i, S)
<1>1. T \subseteq Nat /\ e \in T
  OBVIOUS
<1>2. PICK x \in T : \A y \in T : x <= y
  BY <1>1, Least
<1>3. x <= e /\ x \in i .. Len(cmd_buf) /\ cmd_buf[x] \notin S
  BY <1>1, <1>2
<1>4. \A k \in i .. x - 1 : cmd_buf[k] \in S
  BY <1>2, <1>3
<1>5. /\ F \in i .. Len(cmd_buf) /\ cmd_buf[F] \notin S
      /\ \A k \in i .. F - 1 : cmd_buf[k] \in S
  BY <1>3, <1>4 DEF FirstNotOf
<1> HIDE DEF F
<1>6. F <= x
  <2>1. x < F => x \in i .. F - 1
    BY <1>3, <1>5
  <2> QED
    BY <1>3, <1>5, <2>1
<1> QED
  BY <1>3, <1>5, <1>6 DEF F

------------------------------------------------------------------------------
(* The console. *)

\* An offset of the text memory, from its line and its column.
LEMMA OffsetOf ==
  ASSUME NEW r \in 0 .. Height - 1, NEW c \in 0 .. Width - 1
  PROVE  /\ r * Width + c \in Offsets /\ (r + 1) * Width = r * Width + Width
         /\ r * Width \in Nat /\ r * Width + Width <= Height * Width
         /\ (Height - 1) * Width + Width = Height * Width
         /\ Width * Height = Height * Width /\ Height * Width \in Nat
         /\ (Height - 1) * Width \in Nat
<1>1. Width \in Nat /\ Height \in Nat /\ r \in Nat /\ c \in Nat /\ Width > 0 /\ Height > 0
  BY ScreenAssumption
<1>2. (r + 1) * Width = r * Width + Width /\ (Height - 1) * Width + Width = Height * Width
  BY <1>1
<1>3. Width * Height = Height * Width
  BY <1>1
<1>4. PICK d \in Nat : Height - 1 = r + d
  <2>1. Height - 1 - r \in Nat /\ Height - 1 = r + (Height - 1 - r)
    BY <1>1
  <2> QED
    BY <2>1
<1>5. (Height - 1) * Width = r * Width + d * Width
  BY <1>1, <1>4
<1>6. r * Width \in Nat /\ d * Width \in Nat /\ Height * Width \in Nat
  BY <1>1, <1>4
<1> DEFINE rw == r * Width
           dw == d * Width
           hw == Height * Width
           lw == (Height - 1) * Width
<1> HIDE DEF rw, dw, hw, lw
<1>7. lw + Width = hw /\ lw = rw + dw /\ rw \in Nat /\ dw \in Nat /\ hw \in Nat
  BY <1>2, <1>5, <1>6 DEF rw, dw, hw, lw
<1>8. rw + c \in 0 .. hw - 1 /\ rw + Width <= hw /\ lw \in Nat
  BY <1>1, <1>7
<1> QED
  BY <1>2, <1>3, <1>6, <1>8 DEF Offsets, rw, hw, lw

\* What vga_putchar does to the cursor.
LEMMA NextColRange ==
  ASSUME NEW c, CursorOnScreen
  PROVE  NextCol(c) \in Nat /\ (c = NL => NextCol(c) = 0) /\ (c # NL => NextRow(c) = row)
<1>1. Width \in Nat /\ TabStop \in Nat /\ TabStop > 0 /\ col \in Nat
  BY ScreenAssumption DEF CursorOnScreen
<1>2. ((col + TabStop) \div TabStop) * TabStop \in Nat
  <2>1. (col + TabStop) \div TabStop \in Nat
    BY <1>1
  <2> QED
    BY <1>1, <2>1
<1> QED
  BY <1>1, <1>2, ScreenAssumption DEF NextCol, NextRow, Controls

\* The character is written into the text memory, and the cursor is on the
\* screen again.
LEMMA PutcharOnScreen ==
  ASSUME NEW c, CursorOnScreen, Putchar(c)
  PROVE  CursorOnScreen'
<1>1. /\ Width \in Nat \ {0} /\ Height \in Nat \ {0}
      /\ col \in 0 .. Width - 1 /\ row \in 0 .. Height - 1
  BY ScreenAssumption DEF CursorOnScreen
<1>2. NextCol(c) \in Nat /\ NextRow(c) \in {row, row + 1}
  BY NextColRange DEF NextRow
<1>3. col' \in 0 .. Width - 1 /\ row' \in 0 .. Height - 1
  BY <1>1, <1>2 DEF Putchar
<1>4. DOMAIN Drawn(c) = Offsets
  BY DEF Drawn, CursorOnScreen
<1>5. DOMAIN cells' = Offsets
  BY <1>4 DEF Putchar, Scrolled
<1>6. hwcur' = row' * Width + col'
  BY DEF Putchar
<1> QED
  BY <1>3, <1>5, <1>6 DEF CursorOnScreen

\* Nothing is on the screen from the cursor on, unless a carriage return
\* takes the cursor back over what was printed.
Blank == \A i \in Offsets : i >= hwcur => cells[i] = Space

LEMMA PutcharBlank ==
  ASSUME NEW c, c # CR, CursorOnScreen, Blank, Putchar(c)
  PROVE  Blank'
<1>1. /\ Width \in Nat \ {0} /\ Height \in Nat \ {0} /\ hwcur = row * Width + col
      /\ col \in 0 .. Width - 1 /\ row \in 0 .. Height - 1 /\ DOMAIN cells = Offsets
  BY ScreenAssumption DEF CursorOnScreen
<1>2. /\ hwcur \in Offsets /\ (row + 1) * Width = row * Width + Width
      /\ row * Width \in Nat /\ (Height - 1) * Width + Width = Height * Width
      /\ (Height - 1) * Width \in Nat
      /\ \A i \in Offsets : i \in Nat /\ i < Height * Width
  BY <1>1, OffsetOf DEF Offsets
<1>3. NextCol(c) \in Nat /\ (c = NL => NextCol(c) = 0) /\ (c # NL => NextRow(c) = row)
  BY NextColRange
<1> DEFINE line == IF NextCol(c) >= Width THEN NextRow(c) + 1 ELSE NextRow(c)
           dc == IF NextCol(c) >= Width THEN 0 ELSE NextCol(c)
           cur == line * Width + dc
<1>4. /\ cells' = IF line >= Height THEN Scrolled(Drawn(c)) ELSE Drawn(c)
      /\ col' = dc /\ row' = IF line >= Height THEN Height - 1 ELSE line
      /\ hwcur' = row' * Width + col'
  BY DEF Putchar
<1>5. line \in {row, row + 1} /\ (line = row + 1 => dc = 0) /\ dc \in 0 .. Width - 1
  BY <1>1, <1>3 DEF NextRow
<1>6. line * Width \in Nat
  BY <1>1, <1>5
\* Where the cursor would be without scrolling.
<1>7. \A i \in Offsets : i >= cur => Drawn(c)[i] = Space
  <2> SUFFICES ASSUME NEW i \in Offsets, i >= cur PROVE Drawn(c)[i] = Space
    OBVIOUS
  <2>0. i \in Nat
    BY <1>2
  <2>1. CASE c = NL
    <3>1. line = row + 1 /\ dc = 0 /\ Drawn(c) = cells
      BY <2>1, <1>1, <1>3, ScreenAssumption DEF Drawn, NextRow
    <3>2. cur = row * Width + Width
      BY <3>1, <1>1, <1>2
    <3>3. i >= hwcur
      BY <3>2, <2>0, <1>1, <1>2
    <3> QED
      BY <3>1, <3>3 DEF Blank
  <2>2. CASE c = TAB
    <3>1. Drawn(c) = cells /\ NextCol(c) = ((col + TabStop) \div TabStop) * TabStop
      BY <2>2, ScreenAssumption DEF Drawn, NextCol, Controls
    <3>2. ((col + TabStop) \div TabStop) * TabStop > col
      <4>1. TabStop \in Nat \ {0} /\ col \in Nat
        BY <1>1, ScreenAssumption
      <4> DEFINE q == (col + TabStop) \div TabStop
      <4>2. col + TabStop = q * TabStop + ((col + TabStop) % TabStop) /\ q \in Nat
        BY <4>1
      <4>3. (col + TabStop) % TabStop \in 0 .. TabStop - 1
        BY <4>1
      <4>4. q * TabStop \in Nat
        BY <4>1, <4>2
      <4> QED
        BY <4>1, <4>2, <4>3, <4>4
    <3>3. NextCol(c) > col
      BY <3>1, <3>2
    <3>4. line = row => dc >= col
      BY <3>3, <1>1, <1>3
    <3>5. cur >= hwcur
      <4>1. CASE line = row
        BY <4>1, <3>4, <1>1, <1>2, <1>5
      <4>2. CASE line = row + 1
        BY <4>2, <1>1, <1>2, <1>5
      <4> QED
        BY <4>1, <4>2, <1>5
    <3> QED
      BY <3>1, <3>5, <2>0, <1>1, <1>2, <1>5, <1>6 DEF Blank
  <2>3. CASE c = BS
    <3>1. /\ NextCol(c) = IF col > 0 THEN col - 1 ELSE 0
          /\ Drawn(c) = IF col > 0 THEN [cells EXCEPT ![row * Width + col - 1] = Space] ELSE cells
      BY <2>3, ScreenAssumption DEF Drawn, NextCol, Controls
    <3>2. line = row /\ dc = IF col > 0 THEN col - 1 ELSE 0
      BY <3>1, <2>3, <1>1, <1>3, ScreenAssumption DEF Controls
    <3>3. CASE col > 0
      <4>1. cur = row * Width + col - 1
        BY <3>2, <3>3, <1>1, <1>2
      <4>2. CASE i = row * Width + col - 1
        BY <4>2, <3>1, <3>3, <1>1
      <4>3. CASE i # row * Width + col - 1
        <5>1. i >= hwcur
          BY <4>1, <4>3, <2>0, <1>1, <1>2
        <5> QED
          BY <5>1, <4>3, <3>1, <3>3, <1>1 DEF Blank
      <4> QED
        BY <4>2, <4>3
    <3>4. CASE ~(col > 0)
      <4>1. cur = hwcur /\ Drawn(c) = cells
        BY <3>1, <3>2, <3>4, <1>1, <1>2
      <4> QED
        BY <4>1 DEF Blank
    <3> QED
      BY <3>3, <3>4
  <2>4. CASE c \notin Controls
    <3>1. NextCol(c) = col + 1 /\ Drawn(c) = [cells EXCEPT ![row * Width + col] = c]
      BY <2>4 DEF Drawn, NextCol, Controls
    <3>2. cur = hwcur + 1
      <4>1. NextRow(c) = row
        BY <2>4, <1>3 DEF Controls
      <4>2. CASE col + 1 >= Width
        <5>1. line = row + 1 /\ dc = 0 /\ col = Width - 1
          BY <4>1, <4>2, <3>1, <1>1
        <5> QED
          BY <5>1, <1>1, <1>2
      <4>3. CASE ~(col + 1 >= Width)
        <5>1. line = row /\ dc = col + 1
          BY <4>1, <4>3, <3>1, <1>1
        <5> QED
          BY <5>1, <1>1, <1>2
      <4> QED
        BY <4>2, <4>3
    <3>3. i >= hwcur /\ i # hwcur
      BY <3>2, <2>0, <1>1, <1>2
    <3> QED
      BY <3>1, <3>3, <1>1 DEF Blank
  <2> QED
    BY <2>1, <2>2, <2>3, <2>4 DEF Controls
<1>8. CASE line < Height
  <2>1. cells' = Drawn(c) /\ hwcur' = cur
    BY <1>8, <1>4, <1>1, <1>5
  <2> QED
    BY <2>1, <1>7 DEF Blank, Offsets
<1>9. CASE ~(line < Height)
  <2>1. line = Height /\ dc = 0 /\ row = Height - 1
    BY <1>9, <1>1, <1>5
  <2>2. cells' = Scrolled(Drawn(c)) /\ hwcur' = (Height - 1) * Width
    BY <2>1, <1>2, <1>4, <1>1
  <2>3. \A i \in Offsets : i >= (Height - 1) * Width => Scrolled(Drawn(c))[i] = Space
    BY <1>2, <1>1 DEF Scrolled
  <2> QED
    BY <2>2, <2>3 DEF Blank, Offsets
<1> QED
  BY <1>8, <1>9, <1>1, <1>5

------------------------------------------------------------------------------
(* The inductive invariant of the session. *)

\* cmd_buf holds characters of lines and the console is given none that takes
\* the cursor back over the line.
SessionOK ==
  /\ cmd_buf \in Seq(LineChars) /\ cmd_len \in 0 .. CmdMaxLen - 1 /\ cmd_len <= Len(cmd_buf)
  /\ typed \in Seq(LineChars) /\ out \in Seq(Output) /\ odd \in Nat
  /\ at \in {"read", "split", "dispatch", "prompt"}
  /\ at = "prompt" => cmd_len = 0 /\ cmd_buf = <<>>

\* What the cursor's line shows while the user edits: the prompt and the line.
Edited == Prompt \o SubSeq(cmd_buf, 1, cmd_len)

\* The first k characters of it are there.
RowShows(k) == \A i \in 1 .. k : cells[row * Width + i - 1] = Edited[i]

\* While the user edits, what is still to print is a newline and the prompt, or
\* the end of the line that is shown, or the backspace that erases a character
\* the line no longer has.
EditOK ==
  at = "read" /\ odd = 0 =>
    /\ cmd_buf \in Seq(Letters \cup {Space})
    /\ \/ out = <<NL>> \o Prompt /\ cmd_len = 0
       \/ /\ col \in 0 .. Len(Edited) /\ out = SubSeq(Edited, col + 1, Len(Edited))
          /\ RowShows(col)
       \/ out = <<BS>> /\ col = Len(Edited) + 1 /\ RowShows(Len(Edited))

\* Where the tokenizer stops: at the first NUL of the line, or at its terminator.
IsEnd(e) ==
  /\ e \in 1 .. Len(typed) + 1 /\ \A k \in 1 .. e - 1 : typed[k] # NUL
  /\ e <= Len(typed) => typed[e] = NUL

\* A word in cmd_buf, from s to before the terminator at e.
IsWord(s, e) ==
  /\ s \in 1 .. e - 1 /\ (s > 1 => typed[s - 1] = Space)
  /\ \A k \in s .. e - 1 : cmd_buf[k] = typed[k] /\ typed[k] \notin {Space, NUL}
  /\ cmd_buf[e] = NUL

\* The tokenizer has cut the words before p, and all of them, at the space
\* behind them, and from p on the buffer is as it was typed.
SplitAt(e) ==
  /\ IsEnd(e) /\ p \in 1 .. e
  /\ Len(cmd_buf) = Len(typed) + 1 /\ cmd_buf[Len(typed) + 1] = NUL
  /\ \A k \in p .. Len(typed) : cmd_buf[k] = typed[k]
  /\ p > 1 => p = e \/ typed[p - 1] = Space
  /\ argv \in Seq(Nat) /\ Len(argv) <= MaxArgs
  /\ \A i, j \in 1 .. Len(argv) : i < j => argv[i] < argv[j]
  /\ \A i \in 1 .. Len(argv) : argv[i] < p
  /\ \A i \in 1 .. Len(argv) :
       \E w \in 1 .. e : /\ IsWord(argv[i], w) /\ w <= p /\ (w = p => p = e)
                         /\ w < e => typed[w] = Space
  /\ \A s \in 1 .. p - 1 :
       typed[s] # Space /\ (s > 1 => typed[s - 1] = Space) => \E i \in 1 .. Len(argv) : argv[i] = s
  /\ at = "dispatch" => p = e \/ Len(argv) = MaxArgs

SplitOK == at \in {"split", "dispatch"} => \E e : SplitAt(e)

ShellInv == CursorOnScreen /\ Blank /\ SessionOK /\ EditOK /\ SplitOK

LEMMA Characters ==
  /\ CR \notin Output /\ LineChars \subseteq Output /\ Letters \cup {Space} \subseteq LineChars
  /\ Printable \cap Controls = {} /\ Printable \subseteq Output
  /\ \A c \in LineChars : c \notin {TAB, NUL} => c \in Letters \cup {Space}
  /\ Letters \cup {Space} \subseteq Printable /\ NUL # Space
  /\ {NL, BS, NUL} \subseteq Output
BY ShellAssumption, ScreenAssumption DEF Output, LineChars, Printable, Controls

\* The line that is edited fits on the cursor's line of the screen.
LEMMA LineFits ==
  ASSUME NEW buf \in Seq(LineChars), NEW len \in 0 .. CmdMaxLen - 1, len <= Len(buf)
  PROVE  LET s == SubSeq(buf, 1, len)
             shown == Prompt \o s
         IN  /\ shown \in Seq(Output) /\ Len(shown) = Len(Prompt) + len
             /\ Len(shown) \in Nat /\ Len(shown) < Width
             /\ s \in Seq(LineChars) /\ Len(s) = len
             /\ \A i \in 1 .. len : s[i] = buf[i]
             /\ \A i \in 1 .. Len(shown) :
                  shown[i] = IF i <= Len(Prompt) THEN Prompt[i] ELSE buf[i - Len(Prompt)]
<1>1. /\ len \in Nat /\ len <= CmdMaxLen - 1 /\ Len(buf) \in Nat
      /\ CmdMaxLen \in Nat /\ Width \in Nat
  BY ShellAssumption, ScreenAssumption, LenProperties
<1>2. \A i \in 1 .. len : buf[i] \in LineChars
  BY <1>1, ElementOfSeq
<1> DEFINE s == SubSeq(buf, 1, len)
           shown == Prompt \o s
<1>3. /\ s \in Seq(LineChars) /\ Len(s) = len
      /\ \A i \in 1 .. len : s[i] = buf[i]
  BY <1>1, <1>2, SubSeqProperties
<1>4. s \in Seq(Output) /\ Prompt \in Seq(Output)
  BY <1>3, Characters, ShellAssumption, SeqMonotonic
<1>5. Len(Prompt) \in Nat
  BY <1>4, LenProperties
<1> HIDE DEF s
<1>6. /\ shown \in Seq(Output) /\ Len(shown) = Len(Prompt) + Len(s)
      /\ \A i \in 1 .. Len(Prompt) + Len(s) :
            shown[i] = IF i <= Len(Prompt) THEN Prompt[i] ELSE s[i - Len(Prompt)]
  BY <1>4, ConcatProperties
<1> HIDE DEF shown
<1>7. \A i \in 1 .. Len(Prompt) + Len(s) : ~(i <= Len(Prompt)) =>
         i - Len(Prompt) \in 1 .. len
  BY <1>3, <1>5, <1>1
<1>8. Len(shown) = Len(Prompt) + len /\ Len(shown) < Width /\ Len(shown) \in Nat
  BY <1>1, <1>3, <1>5, <1>6, ShellAssumption
<1>9. \A i \in 1 .. Len(shown) :
         shown[i] = IF i <= Len(Prompt) THEN Prompt[i] ELSE buf[i - Len(Prompt)]
  BY <1>3, <1>6, <1>7
<1> QED
  BY <1>3, <1>6, <1>8, <1>9 DEF s, shown

LEMMA EditedShape ==
  ASSUME SessionOK
  PROVE  /\ Edited \in Seq(Output) /\ Len(Edited) = Len(Prompt) + cmd_len
         /\ Len(Edited) \in Nat /\ Len(Edited) < Width
         /\ SubSeq(cmd_buf, 1, cmd_len) \in Seq(LineChars) /\ Len(SubSeq(cmd_buf, 1, cmd_len)) = cmd_len
         /\ \A i \in 1 .. cmd_len : SubSeq(cmd_buf, 1, cmd_len)[i] = cmd_buf[i]
         /\ \A i \in 1 .. Len(Edited) :
              Edited[i] = IF i <= Len(Prompt) THEN Prompt[i] ELSE cmd_buf[i - Len(Prompt)]
BY LineFits DEF Edited, SessionOK

\* A character of the line is drawn at the cursor, which does not wrap.
LEMMA DrawsNext ==
  ASSUME SessionOK, CursorOnScreen, NEW c, c \notin Controls, Putchar(c),
         col < Len(Edited)
  PROVE  /\ col' = col + 1 /\ row' = row
         /\ cells' = [cells EXCEPT ![row * Width + col] = c]
<1>1. /\ Width \in Nat \ {0} /\ Height \in Nat \ {0}
      /\ col \in 0 .. Width - 1 /\ row \in 0 .. Height - 1
  BY ScreenAssumption DEF CursorOnScreen
<1>2. NextCol(c) = col + 1 /\ NextRow(c) = row /\ Drawn(c) = [cells EXCEPT ![row * Width + col] = c]
  BY DEF NextCol, NextRow, Drawn, Controls
<1>3. ~(NextCol(c) >= Width)
  BY <1>1, <1>2, EditedShape
<1> QED
  BY <1>1, <1>2, <1>3 DEF Putchar

LEMMA PutNextEdits ==
  ASSUME SessionOK, CursorOnScreen, EditOK, PutNext
  PROVE  EditOK'
<1> SUFFICES ASSUME at = "read", odd = 0
             PROVE  EditOK'
  BY DEF EditOK, PutNext
<1>1. /\ Width \in Nat \ {0} /\ Height \in Nat \ {0} /\ DOMAIN cells = Offsets
      /\ col \in 0 .. Width - 1 /\ row \in 0 .. Height - 1
  BY ScreenAssumption DEF CursorOnScreen
<1>2. /\ UNCHANGED <<cmd_buf, cmd_len, at, odd>> /\ Edited' = Edited /\ out # <<>>
      /\ Putchar(Head(out)) /\ out' = Tail(out) /\ cmd_buf \in Seq(Letters \cup {Space})
  BY DEF PutNext, Edited, EditOK
<1>3. /\ Edited \in Seq(Output) /\ Len(Edited) \in Nat /\ Len(Edited) < Width
      /\ Len(Edited) = Len(Prompt) + cmd_len /\ cmd_len \in Nat /\ cmd_len <= Len(cmd_buf)
      /\ SubSeq(cmd_buf, 1, cmd_len) \in Seq(LineChars)
      /\ \A i \in 1 .. Len(Edited) :
           Edited[i] = IF i <= Len(Prompt) THEN Prompt[i] ELSE cmd_buf[i - Len(Prompt)]
  BY EditedShape DEF SessionOK
<1>4. Prompt \in Seq(Output) /\ Prompt \in Seq(Printable) /\ Len(Prompt) \in Nat
  BY ShellAssumption, Characters, SeqMonotonic, LenProperties
<1>5. CASE out = <<NL>> \o Prompt /\ cmd_len = 0
  <2>1. <<NL>> \in Seq(Output) /\ Len(<<NL>>) = 1 /\ <<NL>>[1] = NL
    BY Characters
  <2>2. /\ out \in Seq(Output) /\ Len(out) = 1 + Len(Prompt)
        /\ \A i \in 1 .. 1 + Len(Prompt) : out[i] = IF i <= 1 THEN NL ELSE Prompt[i - 1]
    BY <1>4, <1>5, <2>1, ConcatProperties
  <2>3. /\ Tail(out) \in Seq(Output) /\ Len(Tail(out)) = Len(Prompt)
        /\ \A i \in 1 .. Len(Prompt) : Tail(out)[i] = out[i + 1]
    BY <1>2, <1>4, <2>2, HeadTailProperties
  <2>4. \A i \in 1 .. Len(Prompt) : Tail(out)[i] = Prompt[i]
    <3> TAKE i \in 1 .. Len(Prompt)
    <3>1. i + 1 \in 1 .. 1 + Len(Prompt) /\ ~(i + 1 <= 1) /\ (i + 1) - 1 = i
      BY <1>4
    <3> QED
      BY <2>2, <2>3, <3>1
  <2>5. Tail(out) = Prompt
    BY <1>4, <2>3, <2>4, SeqEqual
  <2>6. Head(out) = NL
    <3>1. Head(out) = out[1] /\ 1 \in 1 .. 1 + Len(Prompt)
      BY <2>2, <1>4
    <3> QED
      BY <2>2, <3>1
  <2>7. col' = 0
    BY <1>1, <1>2, <2>6, ScreenAssumption DEF Putchar, NextCol, Controls
  <2>8. Edited = Prompt
    <3>1. SubSeq(cmd_buf, 1, cmd_len) = <<>>
      BY <1>5, SubSeqEmpty
    <3> QED
      BY <1>4, <3>1, ConcatEmptySeq DEF Edited
  <2>9. SubSeq(Edited, col' + 1, Len(Edited)) = Prompt
    BY <2>7, <2>8, <1>4, SubSeqFull
  <2>10. col' \in 0 .. Len(Edited) /\ RowShows(col)'
    BY <2>7, <1>3 DEF RowShows
  <2> QED
    BY <1>2, <2>5, <2>9, <2>10 DEF EditOK
<1>6. CASE col \in 0 .. Len(Edited) /\ out = SubSeq(Edited, col + 1, Len(Edited)) /\ RowShows(col)
  <2>1. col + 1 <= Len(Edited)
    <3>1. ~(col + 1 <= Len(Edited)) => Len(Edited) < col + 1
      BY <1>1, <1>3
    <3>2. Len(Edited) < col + 1 => SubSeq(Edited, col + 1, Len(Edited)) = <<>>
      BY <1>1, <1>3, SubSeqEmpty
    <3> QED
      BY <1>2, <1>6, <3>1, <3>2
  <2>2. col + 1 \in 1 .. Len(Edited) /\ Len(Edited) \in col + 1 .. Len(Edited)
    BY <1>1, <1>3, <2>1
  <2>3. Head(out) = Edited[col + 1] /\ Tail(out) = SubSeq(Edited, (col + 1) + 1, Len(Edited))
    BY <1>3, <1>6, <2>2, HeadTailOfSubSeq
  <2>4. Edited[col + 1] \notin Controls
    <3>1. CASE col + 1 <= Len(Prompt)
      <4>1. col + 1 \in 1 .. Len(Prompt)
        BY <3>1, <1>1, <1>4
      <4>2. Edited[col + 1] = Prompt[col + 1]
        BY <1>3, <2>2, <3>1
      <4> QED
        BY <4>1, <4>2, <1>4, ElementOfSeq, Characters
    <3>2. CASE ~(col + 1 <= Len(Prompt))
      <4>1. (col + 1) - Len(Prompt) \in 1 .. Len(cmd_buf)
        <5>1. Len(cmd_buf) \in Nat
          BY <1>2, LenProperties
        <5> QED
          BY <3>2, <1>1, <1>3, <1>4, <2>1, <5>1
      <4>2. Edited[col + 1] = cmd_buf[(col + 1) - Len(Prompt)]
        BY <1>3, <2>2, <3>2
      <4>3. cmd_buf[(col + 1) - Len(Prompt)] \in Letters \cup {Space}
        BY <1>2, <4>1, ElementOfSeq
      <4> QED
        BY <4>2, <4>3, Characters
    <3> QED
      BY <3>1, <3>2
  <2>5. /\ col' = col + 1 /\ row' = row
        /\ cells' = [cells EXCEPT ![row * Width + col] = Edited[col + 1]]
    BY <1>2, <1>1, <1>3, <2>1, <2>3, <2>4, DrawsNext
  <2>6. row * Width + col \in Offsets /\ row * Width \in Nat
    BY <1>1, OffsetOf
  <2>7. RowShows(col)'
    <3> SUFFICES ASSUME NEW i \in 1 .. col + 1
                 PROVE  cells'[row * Width + i - 1] = Edited[i]
      BY <1>2, <2>5 DEF RowShows
    <3>1. CASE i = col + 1
      <4>1. row * Width + i - 1 = row * Width + col
        BY <3>1, <1>1, <2>6
      <4> QED
        BY <3>1, <4>1, <2>5, <2>6, <1>1
    <3>2. CASE i # col + 1
      <4>1. i \in 1 .. col /\ row * Width + i - 1 # row * Width + col
        BY <3>2, <1>1, <2>6
      <4>2. i - 1 \in 0 .. Width - 1
        BY <4>1, <1>1
      <4>3. row * Width + (i - 1) \in Offsets
        BY <4>2, <1>1, OffsetOf
      <4>4. row * Width + i - 1 \in Offsets
        BY <4>3, <2>6, <4>1
      <4> QED
        BY <4>1, <4>4, <2>5, <1>1, <1>6 DEF RowShows
    <3> QED
      BY <3>1, <3>2
  <2>8. out' = SubSeq(Edited, col' + 1, Len(Edited)) /\ col' \in 0 .. Len(Edited)
    BY <1>2, <2>3, <2>5, <2>2, <1>1
  <2> QED
    BY <1>2, <2>7, <2>8 DEF EditOK
<1>7. CASE out = <<BS>> /\ col = Len(Edited) + 1 /\ RowShows(Len(Edited))
  <2>1. Head(out) = BS /\ Tail(out) = <<>>
    BY <1>7
  <2>2. NextCol(BS) = col - 1 /\ NextRow(BS) = row /\ col > 0
        /\ Drawn(BS) = [cells EXCEPT ![row * Width + col - 1] = Space]
    BY <1>1, <1>3, <1>7, ScreenAssumption DEF NextCol, NextRow, Drawn, Controls
  <2>3. /\ col' = Len(Edited) /\ row' = row
        /\ cells' = [cells EXCEPT ![row * Width + col - 1] = Space]
    <3>1. NextCol(BS) = Len(Edited) /\ ~(NextCol(BS) >= Width) /\ ~(NextRow(BS) >= Height)
      BY <1>1, <1>3, <1>7, <2>2
    <3>2. Putchar(BS)
      BY <1>2, <2>1
    <3> QED
      BY <2>2, <3>1, <3>2 DEF Putchar
  <2>4. row * Width \in Nat
    BY <1>1, OffsetOf
  <2>5. RowShows(col)'
    <3> SUFFICES ASSUME NEW i \in 1 .. Len(Edited)
                 PROVE  cells'[row * Width + i - 1] = Edited[i]
      BY <1>2, <2>3 DEF RowShows
    <3>1. row * Width + i - 1 # row * Width + col - 1
      BY <1>3, <1>7, <2>4
    <3>2. i - 1 \in 0 .. Width - 1
      BY <1>1, <1>3
    <3>3. row * Width + (i - 1) \in Offsets
      BY <3>2, <1>1, OffsetOf
    <3>4. row * Width + i - 1 \in Offsets
      BY <3>3, <2>4, <1>3
    <3> QED
      BY <3>1, <3>4, <2>3, <1>1, <1>7 DEF RowShows
  <2>6. out' = SubSeq(Edited, col' + 1, Len(Edited)) /\ col' \in 0 .. Len(Edited)
    <3>1. SubSeq(Edited, Len(Edited) + 1, Len(Edited)) = <<>>
      BY <1>3, SubSeqEmpty
    <3>2. SubSeq(Edited, col' + 1, Len(Edited)) = <<>>
      BY <2>3, <3>1
    <3>3. out' = <<>>
      BY <1>2, <2>1
    <3>4. col' \in 0 .. Len(Edited)
      BY <1>3, <2>3
    <3> QED
      BY <3>2, <3>3, <3>4
  <2> QED
    BY <1>2, <2>5, <2>6 DEF EditOK
<1> QED
  BY <1>5, <1>6, <1>7 DEF EditOK

------------------------------------------------------------------------------
(* The text of a command. *)

\* Flattening a sequence of words gives characters of the words.
LEMMA FlattenOver ==
  ASSUME NEW S, NEW ws \in Seq(Seq(S)), ws # <<>>
  PROVE  FlattenSeq(ws) \in Seq(S)
<1> DEFINE N == Len(ws)
           Joins(m, g) == g = [i \in 1 .. m |-> IF i = 1 THEN ws[i] ELSE g[i - 1] \o ws[i]]
           None == {m \in Nat : m <= N /\ ~ \E g : Joins(m, g)}
<1>1. N \in Nat \ {0}
  BY EmptySeq
<1>2. \A i \in 1 .. N : ws[i] \in Seq(S)
  BY ElementOfSeq
<1>3. None = {}
  <2> SUFFICES ASSUME None # {} PROVE FALSE
    OBVIOUS
  <2>1. None \subseteq Nat
    OBVIOUS
  <2>2. PICK m \in None : \A y \in None : m <= y
    <3> HIDE DEF None
    <3> QED
      BY <2>1, Least
  <2>3. m \in Nat /\ m <= N /\ ~ \E g : Joins(m, g)
    BY <2>2
  <2>4. CASE m = 0
    <3>1. Joins(0, [i \in 1 .. 0 |-> ws[i]])
      OBVIOUS
    <3> QED
      BY <2>3, <2>4, <3>1
  <2>5. CASE m # 0
    <3>1. m - 1 \in Nat /\ m - 1 <= N /\ ~(m <= m - 1)
      BY <2>3, <2>5, <1>1
    <3>2. m - 1 \notin None
      BY <2>2, <3>1
    <3>3. PICK g : Joins(m - 1, g)
      BY <3>1, <3>2
    <3> DEFINE h == [i \in 1 .. m |-> IF i = m THEN IF i = 1 THEN ws[i] ELSE g[i - 1] \o ws[i]
                                      ELSE g[i]]
    <3>4. \A i \in 1 .. m - 1 : h[i] = g[i]
      BY <2>3
    <3>5. \A i \in 1 .. m - 1 : g[i] = IF i = 1 THEN ws[i] ELSE g[i - 1] \o ws[i]
      BY <3>3
    <3>6. \A i \in 1 .. m : h[i] = IF i = 1 THEN ws[i] ELSE h[i - 1] \o ws[i]
      <4> TAKE i \in 1 .. m
      <4>0. i # 1 => i - 1 \in 1 .. m - 1
        BY <2>3
      <4>1. CASE i = m
        BY <4>0, <4>1, <3>4
      <4>2. CASE i # m
        <5>1. i \in 1 .. m - 1
          BY <4>2, <2>3
        <5> QED
          BY <4>0, <5>1, <3>4, <3>5
      <4> QED
        BY <4>1, <4>2
    <3>7. h = [i \in 1 .. m |-> h[i]]
      OBVIOUS
    <3>8. Joins(m, h)
      <4> HIDE DEF h
      <4> QED
        BY <3>6, <3>7
    <3> QED
      BY <2>3, <3>8
  <2> QED
    BY <2>4, <2>5
<1> DEFINE F == CHOOSE g : Joins(N, g)
<1>4. Joins(N, F)
  <2>1. N \notin None
    <3> HIDE DEF None
    <3> QED
      BY <1>3
  <2>2. \E g : Joins(N, g)
    <3>1. N \in Nat /\ N <= N
      BY <1>1
    <3> HIDE DEF Joins, N
    <3> QED
      BY <2>1, <3>1
  <2> QED
    BY <2>2
<1>5. FlattenSeq(ws) = F[N]
  BY <1>1 DEF FlattenSeq
<1> HIDE DEF F
<1>6. \A i \in 1 .. N : F[i] = IF i = 1 THEN ws[i] ELSE F[i - 1] \o ws[i]
  BY <1>4
<1> DEFINE Bad == {i \in 1 .. N : F[i] \notin Seq(S)}
<1>7. Bad = {}
  <2> SUFFICES ASSUME Bad # {} PROVE FALSE
    OBVIOUS
  <2>1. Bad \subseteq Nat
    BY <1>1
  <2>2. PICK m \in Bad : \A y \in Bad : m <= y
    <3> HIDE DEF Bad
    <3> QED
      BY <2>1, Least
  <2>3. m \in 1 .. N /\ F[m] \notin Seq(S)
    BY <2>2
  <2>4. m # 1
    BY <1>2, <1>6, <2>3
  <2>5. m - 1 \in 1 .. N /\ ~(m <= m - 1)
    BY <2>3, <2>4, <1>1
  <2>6. F[m - 1] \in Seq(S)
    BY <2>2, <2>5
  <2>7. F[m] = F[m - 1] \o ws[m]
    BY <1>6, <2>3, <2>4
  <2> QED
    BY <1>2, <2>3, <2>6, <2>7, ConcatProperties
<1> QED
  BY <1>1, <1>5, <1>7

\* What echo prints has no character that a line or a message cannot have.
LEMMA EchoOutput ==
  ASSUME NEW args \in Seq(Seq(LineChars)), args # <<>>
  PROVE  EchoText(args) \in Seq(Output)
<1> DEFINE Leading(n) == \A i \in 2 .. n : args[i] = NoNewline
           Final(n) == n = Len(args) \/ args[n + 1] # NoNewline
           T == {n \in 1 .. Len(args) : Final(n)}
           last == CHOOSE n \in 1 .. Len(args) : Leading(n) /\ Final(n)
           words == [i \in 1 .. Len(args) - last |->
                       IF i = Len(args) - last THEN args[last + i] ELSE Append(args[last + i], Space)]
<1>1. Len(args) \in Nat \ {0}
  BY EmptySeq
<1>2. last \in 1 .. Len(args)
  <2>1. T \subseteq Nat /\ Len(args) \in T
    BY <1>1
  <2>2. PICK n \in T : \A y \in T : n <= y
    <3> HIDE DEF T
    <3> QED
      BY <2>1, Least
  <2>3. n \in 1 .. Len(args) /\ Final(n)
    BY <2>2
  <2>4. Leading(n)
    <3> SUFFICES ASSUME NEW i \in 2 .. n PROVE args[i] = NoNewline
      OBVIOUS
    <3>1. i - 1 \in 1 .. Len(args) /\ ~(n <= i - 1) /\ i - 1 # Len(args) /\ (i - 1) + 1 = i
      BY <1>1, <2>3
    <3>2. i - 1 \notin T
      BY <2>2, <3>1
    <3> QED
      BY <3>1, <3>2
  <2> QED
    BY <2>3, <2>4
<1>3. EchoText(args) = IF last < Len(args) /\ args[last + 1] = Help THEN Text["echo"]
                       ELSE FlattenSeq(words) \o (IF last > 1 THEN <<>> ELSE <<NL>>)
  BY DEF EchoText
<1> HIDE DEF last
<1>4. Text["echo"] \in Seq(Output)
  <2>1. Text["echo"] \in Seq(Printable \cup {NL}) /\ Printable \cup {NL} \subseteq Output
    BY ShellAssumption, Characters
  <2> QED
    BY <2>1, SeqMonotonic
<1>5. (IF last > 1 THEN <<>> ELSE <<NL>>) \in Seq(Output)
  BY Characters, EmptySeq
<1>6. \A i \in 1 .. Len(args) - last : words[i] \in Seq(Output)
  <2> TAKE i \in 1 .. Len(args) - last
  <2>1. last + i \in 1 .. Len(args)
    BY <1>1, <1>2
  <2>2. args[last + i] \in Seq(LineChars)
    BY <2>1, ElementOfSeq
  <2>3. args[last + i] \in Seq(Output) /\ Space \in Output
    BY <2>2, SeqMonotonic, Characters DEF Output, Printable
  <2>4. Append(args[last + i], Space) \in Seq(Output)
    BY <2>3, AppendProperties
  <2> QED
    BY <2>3, <2>4
<1>7. words \in Seq(Seq(Output))
  <2>1. Len(args) - last \in Nat
    BY <1>1, <1>2
  <2>2. words \in [1 .. Len(args) - last -> Seq(Output)]
    BY <1>6
  <2> DEFINE n == Len(args) - last
  <2>3. n \in Nat /\ words \in [1 .. n -> Seq(Output)]
    BY <2>1, <2>2
  <2> HIDE DEF words, n
  <2> QED
    BY <2>3, SeqDef
<1>8. FlattenSeq(words) \in Seq(Output)
  <2> HIDE DEF words
  <2>1. CASE words = <<>>
    <3>1. Len(words) = 0
      BY <2>1
    <3>2. FlattenSeq(words) = <<>>
      BY <2>1, <3>1 DEF FlattenSeq
    <3> QED
      BY <3>2, EmptySeq
  <2>2. CASE words # <<>>
    BY <2>2, <1>7, FlattenOver
  <2> QED
    BY <2>1, <2>2
<1>9. FlattenSeq(words) \o (IF last > 1 THEN <<>> ELSE <<NL>>) \in Seq(Output)
  BY <1>5, <1>8, ConcatProperties
<1> QED
  BY <1>3, <1>4, <1>9

------------------------------------------------------------------------------
(* The tokenizer. *)

\* The line up to its first NUL.
LEMMA VisibleIs ==
  ASSUME SessionOK, NEW e, IsEnd(e)
  PROVE  /\ Visible(typed) \in Seq(LineChars) /\ Len(Visible(typed)) = e - 1
         /\ \A k \in 1 .. e - 1 : Visible(typed)[k] = typed[k]
<1>1. /\ typed \in Seq(LineChars) /\ Len(typed) \in Nat /\ e \in 1 .. Len(typed) + 1
      /\ DOMAIN typed = 1 .. Len(typed)
      /\ \A k \in 1 .. e - 1 : typed[k] # NUL
      /\ e <= Len(typed) => typed[e] = NUL
  BY LenProperties DEF SessionOK, IsEnd
<1>2. CASE e = Len(typed) + 1
  <2>1. NUL \notin ToSet(typed)
    BY <1>1, <1>2 DEF ToSet
  <2>2. Visible(typed) = typed
    BY <2>1 DEF Visible
  <2> QED
    BY <1>1, <1>2, <2>2
<1>3. CASE e # Len(typed) + 1
  <2> DEFINE I == {i \in 1 .. Len(typed) : typed[i] = NUL}
  <2>1. e \in 1 .. Len(typed) /\ typed[e] = NUL
    BY <1>1, <1>3
  <2>2. NUL \in ToSet(typed)
    BY <1>1, <2>1 DEF ToSet
  <2>3. e \in I /\ \A y \in I : e <= y
    BY <1>1, <2>1
  <2>4. Min(I) \in I /\ \A y \in I : Min(I) <= y
    <3> HIDE DEF I
    <3> QED
      BY <2>3 DEF Min
  <2>5. Min(I) = e
    <3>1. Min(I) <= e /\ e <= Min(I) /\ Min(I) \in Nat /\ e \in Nat
      BY <2>3, <2>4, <1>1
    <3> QED
      BY <3>1
  <2>6. SelectInSeq(typed, LAMBDA c : c = NUL) = e
    BY <2>3, <2>5 DEF SelectInSeq
  <2>7. Visible(typed) = SubSeq(typed, 1, e - 1)
    BY <2>2, <2>6 DEF Visible
  <2>8. \A i \in 1 .. e - 1 : typed[i] \in LineChars
    BY <1>1, ElementOfSeq
  <2>9. /\ SubSeq(typed, 1, e - 1) \in Seq(LineChars) /\ Len(SubSeq(typed, 1, e - 1)) = e - 1
        /\ \A i \in 1 .. e - 1 : SubSeq(typed, 1, e - 1)[i] = typed[i]
    <3>1. e - 1 \in Int /\ 1 \in Int /\ (1 <= e - 1 \/ e - 1 = 0) /\ (e - 1) - 1 + 1 = e - 1
          /\ \A i \in 1 .. e - 1 : 1 + i - 1 = i
      BY <1>1
    <3> HIDE DEF I
    <3>2. /\ SubSeq(typed, 1, e - 1) \in Seq(LineChars)
          /\ Len(SubSeq(typed, 1, e - 1)) = IF 1 <= e - 1 THEN (e - 1) - 1 + 1 ELSE 0
          /\ \A i \in 1 .. (e - 1) - 1 + 1 : SubSeq(typed, 1, e - 1)[i] = typed[1 + i - 1]
      BY <3>1, <2>8, SubSeqProperties
    <3> QED
      BY <3>1, <3>2
  <2> QED
    BY <2>7, <2>9
<1> QED
  BY <1>2, <1>3

\* The string that starts at a word's position ends where the word ends.
LEMMA WordIs ==
  ASSUME SessionOK, NEW e, SplitAt(e), NEW i \in 1 .. Len(argv), NEW w \in 1 .. e, IsWord(argv[i], w)
  PROVE  /\ Word(i) \in Seq(LineChars) /\ Len(Word(i)) = w - argv[i]
         /\ \A k \in 1 .. w - argv[i] : Word(i)[k] = typed[argv[i] + k - 1]
<1> DEFINE s == argv[i]
<1>1. /\ s \in 1 .. w - 1 /\ e \in 1 .. Len(typed) + 1 /\ Len(typed) \in Nat
      /\ Len(cmd_buf) = Len(typed) + 1 /\ cmd_buf[w] = NUL /\ cmd_buf \in Seq(LineChars)
      /\ \A k \in s .. w - 1 : cmd_buf[k] = typed[k] /\ typed[k] \notin {Space, NUL}
  BY LenProperties DEF SessionOK, SplitAt, IsEnd, IsWord
<1> HIDE DEF s
<1>2. /\ s \in Nat /\ w \in s .. Len(cmd_buf) /\ cmd_buf[w] \in {NUL} /\ Len(cmd_buf) \in Nat
      /\ \A k \in s .. w - 1 : cmd_buf[k] \notin {NUL}
  BY <1>1
<1>3. FirstOf(s, {NUL}) = w
  BY <1>2, FirstOfFound
<1>4. Word(i) = SubSeq(cmd_buf, s, w - 1)
  BY <1>3 DEF Word, s
<1>5. \A k \in s .. w - 1 : cmd_buf[k] \in LineChars
  <2> TAKE k \in s .. w - 1
  <2>1. k \in 1 .. Len(cmd_buf)
    BY <1>1, <1>2
  <2> QED
    BY <1>1, <2>1, ElementOfSeq
<1>6. /\ SubSeq(cmd_buf, s, w - 1) \in Seq(LineChars)
      /\ Len(SubSeq(cmd_buf, s, w - 1)) = IF s <= w - 1 THEN (w - 1) - s + 1 ELSE 0
      /\ \A k \in 1 .. (w - 1) - s + 1 : SubSeq(cmd_buf, s, w - 1)[k] = cmd_buf[s + k - 1]
  <2>1. s \in Int /\ w - 1 \in Int
    BY <1>1
  <2> QED
    BY <1>5, <2>1, SubSeqProperties
<1>7. s <= w - 1 /\ (w - 1) - s + 1 = w - s
  BY <1>1
<1>8. \A k \in 1 .. w - s : s + k - 1 \in s .. w - 1
  BY <1>1
<1> QED
  BY <1>1, <1>4, <1>6, <1>7, <1>8 DEF s

\* So the command's arguments are words of line characters.
LEMMA ArgsOver ==
  ASSUME SessionOK, SplitOK, at = "dispatch"
  PROVE  Args \in Seq(Seq(LineChars)) /\ Len(Args) = Len(argv) /\ Len(argv) \in Nat
<1>1. PICK e : SplitAt(e)
  BY DEF SplitOK
<1>2. \A i \in 1 .. Len(argv) : Word(i) \in Seq(LineChars)
  <2> TAKE i \in 1 .. Len(argv)
  <2>1. PICK w \in 1 .. e : IsWord(argv[i], w)
    BY <1>1 DEF SplitAt
  <2> QED
    BY <1>1, <2>1, WordIs
<1>3. Len(argv) \in Nat
  BY <1>1, LenProperties DEF SplitAt
<1>4. Args \in [1 .. Len(argv) -> Seq(LineChars)]
  BY <1>2 DEF Args
<1> DEFINE n == Len(argv)
<1>5. n \in Nat /\ Args \in [1 .. n -> Seq(LineChars)]
  BY <1>3, <1>4
<1> HIDE DEF n
<1>6. Args \in Seq(Seq(LineChars))
  BY <1>5, SeqDef
<1>7. Len(Args) = n
  <2>1. DOMAIN Args = 1 .. Len(Args) /\ Len(Args) \in Nat
    BY <1>6, LenProperties
  <2>2. DOMAIN Args = 1 .. n
    BY <1>5
  <2> QED
    BY <1>5, <2>1, <2>2
<1> QED
  BY <1>3, <1>6, <1>7 DEF n

\* What the tokenizer has noted when it stops are the words of the line.
LEMMA SplitMeans ==
  ASSUME SessionOK, SplitOK
  PROVE  ArgsAreWords
<1> SUFFICES ASSUME at = "dispatch"
             PROVE  LET line == Visible(typed) IN
                    /\ \A i, j \in DOMAIN argv : i < j => argv[i] < argv[j]
                    /\ \A i \in DOMAIN argv :
                         argv[i] \in Starts(line) /\ Word(i) = WordAt(line, argv[i])
                    /\ \A s \in Starts(line) \ ToSet(argv) :
                         Len(argv) = MaxArgs /\ \A i \in DOMAIN argv : argv[i] < s
  BY DEF ArgsAreWords
<1> DEFINE line == Visible(typed)
<1>1. PICK e : SplitAt(e)
  BY DEF SplitOK
<1>2. /\ line \in Seq(LineChars) /\ Len(line) = e - 1
      /\ \A k \in 1 .. e - 1 : line[k] = typed[k]
  BY <1>1, VisibleIs DEF SplitAt
<1>3. DOMAIN argv = 1 .. Len(argv) /\ e \in Nat /\ Len(typed) \in Nat /\ e <= Len(typed) + 1
  BY <1>1, LenProperties DEF SplitAt, IsEnd, SessionOK
<1> HIDE DEF line
<1>4. ASSUME NEW i \in 1 .. Len(argv)
      PROVE  argv[i] \in Starts(line) /\ Word(i) = WordAt(line, argv[i])
  <2> DEFINE s == argv[i]
  <2>1. PICK w \in 1 .. e : IsWord(s, w) /\ (w < e => typed[w] = Space)
    BY <1>1 DEF SplitAt
  <2>2. /\ s \in 1 .. w - 1 /\ (s > 1 => typed[s - 1] = Space)
        /\ \A k \in s .. w - 1 : typed[k] \notin {Space, NUL}
    BY <2>1 DEF IsWord
  <2>3. /\ Word(i) \in Seq(LineChars) /\ Len(Word(i)) = w - s
        /\ \A k \in 1 .. w - s : Word(i)[k] = typed[s + k - 1]
    BY <1>1, <2>1, WordIs
  <2> HIDE DEF s
  <2>4. w - 1 \in s .. Len(line) /\ s \in 1 .. Len(line) /\ s \in s .. w - 1
    BY <1>2, <1>3, <2>2
  <2>5. \A k \in s .. w - 1 : line[k] # Space
    <3> TAKE k \in s .. w - 1
    <3>1. k \in 1 .. e - 1
      BY <1>3, <2>2
    <3> QED
      BY <3>1, <1>2, <2>2
  <2>6. s \in Starts(line)
    <3>1. line[s] # Space
      BY <2>4, <2>5
    <3>2. s = 1 \/ line[s - 1] = Space
      <4>1. CASE s = 1
        BY <4>1
      <4>2. CASE s # 1
        <5>1. s > 1 /\ s - 1 \in 1 .. e - 1
          BY <4>2, <1>2, <2>4
        <5> QED
          BY <5>1, <1>2, <2>2
      <4> QED
        BY <4>1, <4>2
    <3> QED
      BY <2>4, <3>1, <3>2 DEF Starts
  <2>7. w - 1 = Len(line) \/ line[(w - 1) + 1] = Space
    <3>1. CASE w = e
      BY <3>1, <1>2
    <3>2. CASE w # e
      <4>1. w < e /\ w \in 1 .. e - 1 /\ (w - 1) + 1 = w
        BY <3>2, <1>3
      <4> QED
        BY <4>1, <1>2, <2>1
    <3> QED
      BY <3>1, <3>2
  <2> DEFINE Ends(j) == /\ \A k \in s .. j : line[k] # Space
                        /\ j = Len(line) \/ line[j + 1] = Space
             last == CHOOSE j \in s .. Len(line) : Ends(j)
  <2>8. WordAt(line, s) = SubSeq(line, s, last)
    BY DEF WordAt
  <2>9. last \in s .. Len(line) /\ Ends(last)
    BY <2>4, <2>5, <2>7
  <2> HIDE DEF last
  <2>10. last = w - 1
    <3>1. ~(last < w - 1)
      <4> SUFFICES ASSUME last < w - 1 PROVE FALSE
        OBVIOUS
      <4>1. last + 1 \in s .. w - 1 /\ last # Len(line)
        BY <2>4, <2>9, <1>2
      <4> QED
        BY <4>1, <2>5, <2>9
    <3>2. ~(w - 1 < last)
      <4> SUFFICES ASSUME w - 1 < last PROVE FALSE
        OBVIOUS
      <4>1. (w - 1) + 1 \in s .. last /\ w - 1 # Len(line)
        BY <2>4, <2>9, <1>2
      <4> QED
        BY <4>1, <2>7, <2>9
    <3> QED
      BY <3>1, <3>2, <2>4, <2>9, <1>2
  <2>11. \A k \in s .. w - 1 : line[k] \in LineChars
    <3> TAKE k \in s .. w - 1
    <3>1. k \in 1 .. Len(line)
      BY <1>2, <1>3, <2>2
    <3> QED
      BY <3>1, <1>2, ElementOfSeq
  <2>12. /\ SubSeq(line, s, w - 1) \in Seq(LineChars)
         /\ Len(SubSeq(line, s, w - 1)) = IF s <= w - 1 THEN (w - 1) - s + 1 ELSE 0
         /\ \A k \in 1 .. (w - 1) - s + 1 : SubSeq(line, s, w - 1)[k] = line[s + k - 1]
    <3>1. s \in Int /\ w - 1 \in Int
      BY <2>2
    <3> QED
      BY <3>1, <2>11, SubSeqProperties
  <2>13. s <= w - 1 /\ (w - 1) - s + 1 = w - s
    BY <2>2
  <2>14. \A k \in 1 .. w - s : SubSeq(line, s, w - 1)[k] = Word(i)[k]
    <3> TAKE k \in 1 .. w - s
    <3>1. s + k - 1 \in 1 .. e - 1
      BY <1>3, <2>2
    <3> QED
      BY <3>1, <1>2, <2>3, <2>12, <2>13
  <2>15. Word(i) = SubSeq(line, s, w - 1)
    BY <2>3, <2>12, <2>13, <2>14, SeqEqual
  <2> QED
    BY <2>6, <2>8, <2>10, <2>15 DEF s
<1>5. ASSUME NEW s \in Starts(line), s \notin ToSet(argv)
      PROVE  Len(argv) = MaxArgs /\ \A i \in 1 .. Len(argv) : argv[i] < s
  <2>1. s \in 1 .. e - 1 /\ line[s] # Space /\ (s = 1 \/ line[s - 1] = Space)
    BY <1>2 DEF Starts
  <2>2. typed[s] # Space /\ (s > 1 => typed[s - 1] = Space)
    <3>1. s > 1 => s - 1 \in 1 .. e - 1
      BY <1>3, <2>1
    <3>2. typed[s] # Space
      BY <1>2, <2>1
    <3>3. s > 1 => s # 1
      BY <2>1
    <3> QED
      BY <3>1, <3>2, <3>3, <1>2, <2>1
  <2>3. \A i \in 1 .. Len(argv) : argv[i] # s
    BY <1>3, <1>5 DEF ToSet
  <2>4. s \notin 1 .. p - 1
    BY <1>1, <2>2, <2>3 DEF SplitAt
  <2>5. p \in 1 .. e /\ p <= s /\ p # e
    <3>1. p \in 1 .. e
      BY <1>1 DEF SplitAt
    <3> QED
      BY <3>1, <1>3, <2>1, <2>4
  <2>6. \A i \in 1 .. Len(argv) : argv[i] < p /\ argv[i] \in Nat
    <3> TAKE i \in 1 .. Len(argv)
    <3>1. argv \in Seq(Nat) /\ argv[i] < p
      BY <1>1 DEF SplitAt
    <3> QED
      BY <3>1, ElementOfSeq
  <2>7. Len(argv) = MaxArgs
    BY <1>1, <2>5 DEF SplitAt
  <2> QED
    BY <2>1, <2>5, <2>6, <2>7
<1>6. \A i, j \in 1 .. Len(argv) : i < j => argv[i] < argv[j]
  BY <1>1 DEF SplitAt
<1> QED
  BY <1>3, <1>4, <1>5, <1>6 DEF line

\* Enter starts the tokenizer at the first character of the line.
LEMMA EnterSplits ==
  ASSUME SessionOK, Enter
  PROVE  SplitOK' /\ cmd_buf' \in Seq(LineChars) /\ typed' \in Seq(LineChars)
         /\ Len(cmd_buf') = cmd_len + 1
<1> DEFINE s == SubSeq(cmd_buf, 1, cmd_len)
<1>1. s \in Seq(LineChars) /\ Len(s) = cmd_len /\ cmd_len \in Nat
  BY EditedShape DEF SessionOK
<1>2. cmd_buf' = Append(s, NUL) /\ typed' = s /\ argv' = <<>> /\ p' = 1 /\ at' = "split"
  BY DEF Enter
<1> HIDE DEF s
<1>3. NUL \in LineChars
  BY DEF LineChars
<1>4. /\ Append(s, NUL) \in Seq(LineChars) /\ Len(Append(s, NUL)) = cmd_len + 1
      /\ \A k \in 1 .. cmd_len : Append(s, NUL)[k] = s[k]
      /\ Append(s, NUL)[cmd_len + 1] = NUL
  BY <1>1, <1>3, AppendProperties
<1> DEFINE T == {k \in 1 .. cmd_len + 1 : Append(s, NUL)[k] = NUL}
<1>5. T \subseteq Nat /\ cmd_len + 1 \in T
  BY <1>1, <1>4
<1>6. PICK e \in T : \A y \in T : e <= y
  <2> HIDE DEF T
  <2> QED
    BY <1>5, Least
<1>7. e \in 1 .. cmd_len + 1 /\ Append(s, NUL)[e] = NUL
  BY <1>6
<1>8. \A k \in 1 .. e - 1 : s[k] # NUL
  <2> TAKE k \in 1 .. e - 1
  <2>1. k \in 1 .. cmd_len /\ k \in 1 .. cmd_len + 1 /\ ~(e <= k)
    BY <1>1, <1>7
  <2>2. k \notin T
    BY <1>6, <2>1
  <2> QED
    BY <1>4, <2>1, <2>2
<1>9. e <= cmd_len => s[e] = NUL
  <2>1. e <= cmd_len => e \in 1 .. cmd_len
    BY <1>7, <1>1
  <2> QED
    BY <2>1, <1>4, <1>7
<1>10. IsEnd(e)'
  BY <1>1, <1>2, <1>7, <1>8, <1>9 DEF IsEnd
<1>11. /\ p' \in 1 .. e /\ Len(cmd_buf') = Len(typed') + 1 /\ cmd_buf'[Len(typed') + 1] = NUL
       /\ \A k \in p' .. Len(typed') : cmd_buf'[k] = typed'[k]
       /\ ~(p' > 1)
  BY <1>1, <1>2, <1>4, <1>7
<1>12. /\ argv' \in Seq(Nat) /\ Len(argv') = 0 /\ 0 <= MaxArgs
       /\ \A i \in 1 .. 0 : FALSE
       /\ \A i \in 1 .. p' - 1 : FALSE
  BY <1>2, EmptySeq, ShellAssumption
<1>13. SplitAt(e)'
  BY <1>2, <1>10, <1>11, <1>12 DEF SplitAt
<1>14. SplitOK'
  BY <1>13 DEF SplitOK
<1> QED
  BY <1>1, <1>2, <1>4, <1>14

\* One turn of the tokenizer cuts the next word, if there is one.
LEMMA SplitWordSplits ==
  ASSUME SessionOK, SplitOK, SplitWord
  PROVE  SplitOK' /\ cmd_buf' \in Seq(LineChars) /\ Len(cmd_buf') = Len(cmd_buf)
<1>1. PICK e : SplitAt(e)
  BY DEF SplitOK, SplitWord, Splitting
<1>2. /\ cmd_buf \in Seq(LineChars) /\ typed \in Seq(LineChars) /\ Len(typed) \in Nat
      /\ Len(cmd_buf) = Len(typed) + 1 /\ cmd_buf[Len(typed) + 1] = NUL
      /\ e \in 1 .. Len(typed) + 1 /\ p \in 1 .. e
      /\ \A k \in 1 .. e - 1 : typed[k] # NUL
      /\ e <= Len(typed) => typed[e] = NUL
      /\ \A k \in p .. Len(typed) : cmd_buf[k] = typed[k]
      /\ p > 1 => p = e \/ typed[p - 1] = Space
  BY <1>1, LenProperties DEF SessionOK, SplitAt, IsEnd
<1>3. /\ argv \in Seq(Nat) /\ Len(argv) \in Nat
      /\ \A i, j \in 1 .. Len(argv) : i < j => argv[i] < argv[j]
      /\ \A i \in 1 .. Len(argv) : argv[i] < p /\ argv[i] \in Nat
  BY <1>1, LenProperties, ElementOfSeq DEF SplitAt
<1>4. /\ cmd_buf[p] # NUL /\ Len(argv) < MaxArgs /\ at = "split"
      /\ UNCHANGED <<typed, at>> /\ NUL # Space /\ MaxArgs \in Nat
  BY Characters, ShellAssumption DEF SplitWord, Splitting
<1>5. cmd_buf[e] = NUL /\ e \in Nat /\ p \in Nat
  <2>1. CASE e = Len(typed) + 1
    BY <2>1, <1>2
  <2>2. CASE e # Len(typed) + 1
    <3>1. e <= Len(typed) /\ e \in p .. Len(typed)
      BY <2>2, <1>2
    <3> QED
      BY <3>1, <1>2
  <2> QED
    BY <2>1, <2>2, <1>2
<1>6. p < e
  BY <1>2, <1>4, <1>5
<1>7. \A k \in p .. e - 1 : cmd_buf[k] = typed[k] /\ typed[k] # NUL
  <2> TAKE k \in p .. e - 1
  <2>1. k \in p .. Len(typed) /\ k \in 1 .. e - 1
    BY <1>2
  <2> QED
    BY <2>1, <1>2
<1> DEFINE from == FirstNotOf(p, {Space})
           to == FirstOf(from, {Space, NUL})
<1>20. /\ from \in p .. e /\ cmd_buf[from] # Space
      /\ \A k \in p .. from - 1 : cmd_buf[k] = Space
  <2>1. e \in p .. Len(cmd_buf) /\ cmd_buf[e] \notin {Space} /\ Len(cmd_buf) \in Nat
    BY <1>2, <1>4, <1>5
  <2>2. /\ from \in p .. e /\ cmd_buf[from] \notin {Space}
        /\ \A k \in p .. from - 1 : cmd_buf[k] \in {Space}
    BY <1>5, <2>1, FirstNotOfExists
  <2> HIDE DEF from
  <2> QED
    BY <2>2
<1>21. /\ to \in from .. e /\ cmd_buf[to] \in {Space, NUL}
      /\ \A k \in from .. to - 1 : cmd_buf[k] \notin {Space, NUL}
  <2> HIDE DEF from
  <2>1. e \in from .. Len(cmd_buf) /\ cmd_buf[e] \in {Space, NUL} /\ Len(cmd_buf) \in Nat
        /\ from \in Nat
    BY <1>2, <1>5, <1>20
  <2> QED
    BY <2>1, FirstOfExists
<1>22. IF cmd_buf[from] = NUL
       THEN p' = from /\ UNCHANGED <<argv, cmd_buf>>
       ELSE /\ argv' = Append(argv, from)
            /\ cmd_buf' = [cmd_buf EXCEPT ![to] = NUL]
            /\ p' = IF cmd_buf[to] = Space THEN to + 1 ELSE to
  BY DEF SplitWord
<1> HIDE DEF from, to
<1>23. PICK start \in Nat, end \in Nat : start = from /\ end = to
  BY <1>5, <1>20, <1>21
<1>8. /\ start \in p .. e /\ cmd_buf[start] # Space
      /\ \A k \in p .. start - 1 : cmd_buf[k] = Space
  BY <1>20, <1>23
<1>9. /\ end \in start .. e /\ cmd_buf[end] \in {Space, NUL}
      /\ \A k \in start .. end - 1 : cmd_buf[k] \notin {Space, NUL}
  BY <1>21, <1>23
<1>10. IF cmd_buf[start] = NUL
       THEN p' = start /\ UNCHANGED <<argv, cmd_buf>>
       ELSE /\ argv' = Append(argv, start)
            /\ cmd_buf' = [cmd_buf EXCEPT ![end] = NUL]
            /\ p' = IF cmd_buf[end] = Space THEN end + 1 ELSE end
  BY <1>22, <1>23
<1>11. IsEnd(e)' /\ ~(at' = "dispatch") /\ at' \in {"split", "dispatch"}
  BY <1>1, <1>4 DEF SplitAt, IsEnd
\* There is no word any more.
<1>12. CASE cmd_buf[start] = NUL
  <2>1. start = e
    <3>1. start # e => start \in p .. e - 1
      BY <1>2, <1>8
    <3> QED
      BY <1>7, <1>12, <3>1
  <2>2. p' = e /\ UNCHANGED <<argv, cmd_buf, typed>>
    BY <1>4, <1>10, <1>12, <2>1
  <2>3. \A k \in e .. Len(typed) : cmd_buf[k] = typed[k]
    BY <1>2
  <2>4. ASSUME NEW s \in 1 .. e - 1, typed[s] # Space, s > 1 => typed[s - 1] = Space
        PROVE  \E i \in 1 .. Len(argv) : argv[i] = s
    <3>1. s \notin p .. e - 1
      BY <1>7, <1>8, <2>1, <2>4
    <3>2. s \in 1 .. p - 1
      BY <1>2, <2>4, <3>1
    <3> QED
      BY <1>1, <2>4, <3>2 DEF SplitAt
  <2>5. \A i \in 1 .. Len(argv) : argv[i] < e
    BY <1>2, <1>3
  <2>6. ASSUME NEW i \in 1 .. Len(argv)
        PROVE  \E w \in 1 .. e : /\ IsWord(argv[i], w)' /\ w <= e /\ (w = e => e = e)
                                 /\ w < e => typed[w] = Space
    <3>1. PICK w \in 1 .. e : IsWord(argv[i], w) /\ w <= p /\ (w < e => typed[w] = Space)
      BY <1>1 DEF SplitAt
    <3>2. IsWord(argv[i], w)'
      BY <2>2, <3>1 DEF IsWord
    <3> QED
      BY <3>1, <3>2, <1>2
  <2>7. SplitAt(e)'
    BY <1>2, <1>3, <1>4, <1>5, <1>11, <2>2, <2>3, <2>4, <2>5, <2>6 DEF SplitAt
  <2> QED
    BY <1>2, <2>2, <2>7 DEF SplitOK
\* The next word.
<1>13. CASE cmd_buf[start] # NUL
  <2>1. start < e /\ start \in p .. e - 1
    BY <1>2, <1>5, <1>8, <1>13
  <2>2. start < end
    <3>1. start # end
      BY <1>8, <1>9, <1>13
    <3> QED
      BY <1>9, <2>1, <3>1
  <2>3. /\ argv' = Append(argv, start) /\ cmd_buf' = [cmd_buf EXCEPT ![end] = NUL]
        /\ p' = IF cmd_buf[end] = Space THEN end + 1 ELSE end
    BY <1>10, <1>13
  <2>4. /\ end \in 1 .. Len(cmd_buf) /\ start \in Nat /\ end \in Nat /\ end <= e
    BY <1>2, <1>8, <1>9, <2>1
  <2>5. /\ cmd_buf' \in Seq(LineChars) /\ Len(cmd_buf') = Len(cmd_buf)
        /\ \A k \in 1 .. Len(cmd_buf) : cmd_buf'[k] = IF k = end THEN NUL ELSE cmd_buf[k]
    <3>1. NUL \in LineChars
      BY DEF LineChars
    <3> QED
      BY <1>2, <2>3, <2>4, <3>1, ExceptSeq
  <2>6. /\ argv' \in Seq(Nat) /\ Len(argv') = Len(argv) + 1
        /\ \A i \in 1 .. Len(argv) : argv'[i] = argv[i]
        /\ argv'[Len(argv) + 1] = start
    BY <1>3, <2>3, <2>4, AppendProperties
  <2>7. \/ end < e /\ typed[end] = Space /\ p' = end + 1
        \/ end = e /\ p' = e
    <3>1. end < e => end \in p .. e - 1
      BY <1>5, <1>8, <2>2, <2>4
    <3>2. CASE cmd_buf[end] = Space
      <4>1. end < e
        BY <3>2, <1>4, <1>5, <2>4
      <4> QED
        BY <4>1, <3>1, <3>2, <1>7, <2>3
    <3>3. CASE cmd_buf[end] # Space
      <4>1. cmd_buf[end] = NUL
        BY <3>3, <1>9
      <4>2. ~(end < e)
        BY <4>1, <3>1, <1>7
      <4> QED
        BY <4>2, <1>5, <2>3, <2>4, <3>3
    <3> QED
      BY <3>2, <3>3
  <2>8. /\ p' \in 1 .. e /\ end <= p' /\ p' \in Nat /\ (p' > 1 => p' = e \/ typed[p' - 1] = Space)
        /\ p <= start /\ start < end /\ (end = p' => p' = e)
    <3>1. CASE end < e
      <4>1. p' - 1 = end
        BY <3>1, <2>4, <2>7
      <4> QED
        BY <3>1, <4>1, <1>2, <1>5, <1>8, <2>2, <2>4, <2>7
    <3>2. CASE ~(end < e)
      BY <3>2, <1>2, <1>5, <1>8, <2>2, <2>4, <2>7
    <3> QED
      BY <3>1, <3>2
  <2>9. \A k \in p' .. Len(typed) : cmd_buf'[k] = typed[k]
    <3> TAKE k \in p' .. Len(typed)
    <3>1. k \in 1 .. Len(cmd_buf) /\ k \in p .. Len(typed)
      BY <1>2, <2>8, <2>4
    <3>2. CASE k = end
      <4>1. end = e /\ e <= Len(typed)
        BY <3>2, <2>4, <2>7, <2>8
      <4> QED
        BY <3>1, <3>2, <4>1, <1>2, <2>5
    <3>3. CASE k # end
      BY <3>1, <3>3, <1>2, <2>5
    <3> QED
      BY <3>2, <3>3
  <2>10. cmd_buf'[Len(typed) + 1] = NUL
    <3>1. Len(typed) + 1 \in 1 .. Len(cmd_buf)
      BY <1>2
    <3> QED
      BY <3>1, <1>2, <2>5
  <2>11. ASSUME NEW s, NEW w \in 1 .. p, IsWord(s, w)
         PROVE  IsWord(s, w)'
    <3>1. \A k \in 1 .. w : k \in 1 .. Len(cmd_buf) /\ k # end
      BY <1>2, <2>2, <2>4, <2>8
    <3>2. \A k \in 1 .. w : cmd_buf'[k] = cmd_buf[k]
      BY <3>1, <2>5
    <3>3. s \in 1 .. w - 1 /\ \A k \in s .. w - 1 : k \in 1 .. w
      BY <1>2, <2>11 DEF IsWord
    <3>4. w \in 1 .. w
      BY <1>2
    <3> QED
      BY <1>4, <2>11, <3>2, <3>3, <3>4 DEF IsWord
  <2>12. IsWord(start, end)'
    <3>1. start \in 1 .. end - 1
      BY <1>2, <2>4, <2>8
    <3>2. start > 1 => typed[start - 1] = Space
      <4>1. CASE start = p
        BY <4>1, <1>2, <1>6, <1>5
      <4>2. CASE start # p
        <5>1. start - 1 \in p .. start - 1 /\ start - 1 \in p .. e - 1
          BY <4>2, <1>5, <2>1, <2>4
        <5> QED
          BY <5>1, <1>7, <1>8
      <4> QED
        BY <4>1, <4>2
    <3>3. ASSUME NEW k \in start .. end - 1
          PROVE  cmd_buf'[k] = typed[k] /\ typed[k] \notin {Space, NUL}
      <4>1. k \in p .. e - 1 /\ k \in 1 .. Len(cmd_buf) /\ k # end
        BY <1>2, <1>5, <2>4, <2>8
      <4>2. cmd_buf[k] = typed[k]
        BY <4>1, <1>7
      <4>3. cmd_buf'[k] = cmd_buf[k]
        BY <4>1, <2>5
      <4> QED
        BY <4>2, <4>3, <1>9
    <3>4. cmd_buf'[end] = NUL
      BY <2>4, <2>5
    <3> QED
      BY <1>4, <3>1, <3>2, <3>3, <3>4 DEF IsWord
  <2>13. ASSUME NEW i \in 1 .. Len(argv')
         PROVE  /\ argv'[i] < p'
                /\ \E w \in 1 .. e : /\ IsWord(argv[i], w)' /\ w <= p' /\ (w = p' => p' = e)
                                     /\ w < e => typed[w] = Space
    <3>1. CASE i = Len(argv) + 1
      <4>1. argv'[i] = start /\ end \in 1 .. e /\ (end < e => typed[end] = Space)
        BY <3>1, <1>2, <1>5, <2>4, <2>6, <2>7, <2>8
      <4> QED
        BY <4>1, <2>4, <2>8, <2>12
    <3>2. CASE i # Len(argv) + 1
      <4>1. i \in 1 .. Len(argv) /\ argv'[i] = argv[i]
        BY <3>2, <1>3, <2>6
      <4>2. PICK w \in 1 .. e : IsWord(argv[i], w) /\ w <= p /\ (w < e => typed[w] = Space)
        BY <1>1, <4>1 DEF SplitAt
      <4>3. w \in 1 .. p /\ w <= p' /\ w # p'
        BY <4>2, <1>5, <2>4, <2>8
      <4>4. IsWord(argv[i], w)'
        <5> DEFINE a == argv[i]
        <5>1. IsWord(a, w)
          BY <4>2
        <5> HIDE DEF a
        <5>2. /\ a \in 1 .. w - 1 /\ (a > 1 => typed'[a - 1] = Space) /\ cmd_buf'[w] = NUL
              /\ \A k \in a .. w - 1 : cmd_buf'[k] = typed'[k] /\ typed'[k] \notin {Space, NUL}
          BY <5>1, <4>3, <2>11 DEF IsWord
        <5>3. a = argv'[i]
          BY <4>1 DEF a
        <5> HIDE DEF a
        <5> QED
          BY <5>2, <5>3 DEF IsWord
      <4>5. argv'[i] < p'
        BY <4>1, <1>3, <1>5, <2>4, <2>8
      <4> QED
        BY <4>2, <4>3, <4>4, <4>5
    <3> QED
      BY <3>1, <3>2
  <2>14. ASSUME NEW s \in 1 .. p' - 1, typed[s] # Space, s > 1 => typed[s - 1] = Space
         PROVE  \E i \in 1 .. Len(argv') : argv'[i] = s
    <3>1. CASE s < p
      <4>1. s \in 1 .. p - 1
        BY <3>1, <1>5, <2>8
      <4>2. PICK i \in 1 .. Len(argv) : argv[i] = s
        BY <1>1, <2>14, <4>1 DEF SplitAt
      <4>3. i \in 1 .. Len(argv')
        BY <1>3, <2>6
      <4> QED
        BY <2>6, <4>2, <4>3
    <3>2. CASE ~(s < p) /\ s < start
      <4>1. s \in p .. start - 1 /\ s \in p .. e - 1
        BY <3>2, <1>5, <2>4, <2>8
      <4> QED
        BY <4>1, <1>7, <1>8, <2>14
    <3>3. CASE s = start
      <4>1. Len(argv) + 1 \in 1 .. Len(argv')
        BY <1>3, <2>6
      <4> QED
        BY <3>3, <4>1, <2>6
    <3>4. CASE start < s /\ s <= end
      <4>1. s - 1 \in start .. end - 1 /\ s - 1 \in p .. e - 1 /\ s > 1
        BY <3>4, <1>2, <1>5, <2>4, <2>8
      <4>2. typed[s - 1] # Space
        BY <4>1, <1>7, <1>9
      <4> QED
        BY <4>1, <4>2, <2>14
    <3>5. s < p \/ (~(s < p) /\ s < start) \/ s = start \/ (start < s /\ s <= end)
      <4>1. p' <= end + 1
        BY <1>5, <2>4, <2>7
      <4>2. s \in Nat /\ s < p'
        <5>1. PICK q \in Nat : q = p'
          BY <2>8
        <5>2. s \in 1 .. q - 1
          BY <5>1
        <5>3. s \in Nat /\ s < q
          BY <5>2
        <5> QED
          BY <5>1, <5>3
      <4>3. s <= end
        BY <2>4, <2>8, <4>1, <4>2
      <4> QED
        BY <4>2, <4>3, <1>5, <2>4
    <3> QED
      BY <3>1, <3>2, <3>3, <3>4, <3>5
  <2>15. ASSUME NEW i \in 1 .. Len(argv'), NEW j \in 1 .. Len(argv'), i < j
         PROVE  argv'[i] < argv'[j]
    <3>1. i \in 1 .. Len(argv) /\ argv'[i] = argv[i]
      BY <1>3, <2>6, <2>15
    <3>2. CASE j = Len(argv) + 1
      <4>1. argv'[j] = start
        BY <3>2, <2>6
      <4> QED
        BY <3>1, <4>1, <1>3, <1>5, <2>4, <2>8
    <3>3. CASE j # Len(argv) + 1
      <4>1. j \in 1 .. Len(argv) /\ argv'[j] = argv[j]
        BY <3>3, <1>3, <2>6
      <4> QED
        BY <3>1, <4>1, <1>3, <2>15
    <3> QED
      BY <3>2, <3>3
  <2>16. Len(argv') <= MaxArgs
    BY <1>3, <1>4, <2>6
  <2>17. SplitAt(e)'
    <3>1. Len(cmd_buf') = Len(typed') + 1 /\ cmd_buf'[Len(typed') + 1] = NUL
          /\ \A k \in p' .. Len(typed') : cmd_buf'[k] = typed'[k]
      BY <1>2, <1>4, <2>5, <2>9, <2>10
    <3>2. p' > 1 => p' = e \/ typed'[p' - 1] = Space
      BY <1>4, <2>8
    <3>3. /\ \A i, j \in 1 .. Len(argv') : i < j => argv'[i] < argv'[j]
          /\ \A i \in 1 .. Len(argv') : argv'[i] < p'
      BY <2>13, <2>15
    <3>4. \A i \in 1 .. Len(argv') :
            \E w \in 1 .. e : /\ IsWord(argv[i], w)' /\ w <= p' /\ (w = p' => p' = e)
                              /\ w < e => typed'[w] = Space
      BY <1>4, <2>13
    <3>5. \A s \in 1 .. p' - 1 : typed'[s] # Space /\ (s > 1 => typed'[s - 1] = Space)
             => \E i \in 1 .. Len(argv') : argv'[i] = s
      BY <1>4, <2>14
    <3>6. p' \in 1 .. e
      BY <2>8
    <3> QED
      BY <1>11, <2>6, <2>16, <3>1, <3>2, <3>3, <3>4, <3>5, <3>6 DEF SplitAt
  <2> QED
    BY <2>5, <2>17 DEF SplitOK
<1> QED
  BY <1>12, <1>13

------------------------------------------------------------------------------
(* The line editor. *)

\* When the console has printed everything, the line is shown.
LEMMA ReadyShown ==
  ASSUME SessionOK, CursorOnScreen, EditOK, Reading, odd = 0
  PROVE  col = Len(Edited) /\ RowShows(Len(Edited)) /\ cmd_buf \in Seq(Letters \cup {Space})
<1>1. /\ Edited \in Seq(Output) /\ Len(Edited) \in Nat /\ col \in Nat
      /\ at = "read" /\ out = <<>>
  BY EditedShape, ScreenAssumption DEF CursorOnScreen, Reading
<1>2. <<NL>> \o Prompt # <<>>
  <2>1. <<NL>> \in Seq(Output) /\ Prompt \in Seq(Output) /\ <<NL>> # <<>>
    BY Characters, ShellAssumption, SeqMonotonic
  <2> QED
    BY <2>1, ConcatEqualIffEmpty
<1>3. col \in 0 .. Len(Edited) /\ SubSeq(Edited, col + 1, Len(Edited)) = <<>> /\ RowShows(col)
      /\ cmd_buf \in Seq(Letters \cup {Space})
  BY <1>1, <1>2 DEF EditOK
<1>4. ~(col + 1 <= Len(Edited))
  <2> SUFFICES ASSUME col + 1 <= Len(Edited) PROVE FALSE
    OBVIOUS
  <2>1. \A i \in col + 1 .. Len(Edited) : Edited[i] \in Output
    <3> TAKE i \in col + 1 .. Len(Edited)
    <3>1. i \in 1 .. Len(Edited)
      BY <1>1
    <3> QED
      BY <1>1, <3>1, ElementOfSeq
  <2>2. Len(SubSeq(Edited, col + 1, Len(Edited))) = Len(Edited) - (col + 1) + 1
    <3>1. col + 1 \in Int /\ Len(Edited) \in Int
      BY <1>1
    <3> QED
      BY <2>1, <3>1, SubSeqProperties
  <2>3. Len(SubSeq(Edited, col + 1, Len(Edited))) = 0
    BY <1>3
  <2> QED
    BY <1>1, <2>2, <2>3
<1>5. col = Len(Edited)
  BY <1>1, <1>3, <1>4
<1> QED
  BY <1>3, <1>5

\* What is on the screen is what Enter runs, and nothing is behind it.
LEMMA ShownMeans ==
  ASSUME ShellInv
  PROVE  LineShown
<1> SUFFICES ASSUME Reading, odd = 0
             PROVE  /\ col = Len(Edited)
                    /\ \A i \in 1 .. Len(Edited) : cells[row * Width + i - 1] = Edited[i]
                    /\ Blank
  BY DEF LineShown, Blank, Edited
<1> QED
  BY ReadyShown DEF ShellInv, RowShows

LEMMA EnterEdits ==
  ASSUME ShellInv, Reading, Enter, UNCHANGED vgaVars
  PROVE  SessionOK' /\ EditOK' /\ SplitOK'
<1>1. SplitOK' /\ cmd_buf' \in Seq(LineChars) /\ typed' \in Seq(LineChars)
         /\ Len(cmd_buf') = cmd_len + 1
  BY EnterSplits DEF ShellInv
<1>2. cmd_len' = cmd_len /\ cmd_len \in 0 .. CmdMaxLen - 1 /\ odd' \in Nat /\ at' = "split"
      /\ out' = <<NL>> /\ CmdMaxLen \in Nat
  BY ShellAssumption DEF Enter, ShellInv, SessionOK
<1>3. out' \in Seq(Output)
  BY <1>2, Characters
<1>4. cmd_len' <= Len(cmd_buf')
  BY <1>1, <1>2
<1> QED
  BY <1>1, <1>2, <1>3, <1>4 DEF SessionOK, EditOK

LEMMA EraseEdits ==
  ASSUME ShellInv, Reading, Erase, UNCHANGED vgaVars
  PROVE  SessionOK' /\ EditOK' /\ SplitOK'
<1>1. /\ cmd_buf \in Seq(LineChars) /\ cmd_len \in 0 .. CmdMaxLen - 1 /\ cmd_len <= Len(cmd_buf)
      /\ SessionOK /\ EditOK /\ CursorOnScreen /\ CmdMaxLen \in Nat /\ Len(cmd_buf) \in Nat
      /\ UNCHANGED <<cmd_buf, argv, p, at, typed, odd, cells, col, row>> /\ at = "read"
  BY ShellAssumption, LenProperties DEF ShellInv, SessionOK, Erase, vgaVars, Reading
<1>2. SplitOK'
  BY <1>1 DEF SplitOK
<1>3. CASE ~(cmd_len > 0)
  <2>1. UNCHANGED <<cmd_len, out>>
    BY <1>3 DEF Erase
  <2>2. SessionOK'
    BY <1>1, <2>1 DEF SessionOK
  <2>3. EditOK'
    <3>1. Edited' = Edited /\ \A k : RowShows(k)' <=> RowShows(k)
      BY <1>1, <2>1 DEF Edited, RowShows
    <3> QED
      BY <1>1, <2>1, <3>1 DEF EditOK
  <2> QED
    BY <1>2, <2>2, <2>3
<1>4. CASE cmd_len > 0
  <2>1. cmd_len' = cmd_len - 1 /\ out' = <<BS>>
    BY <1>4 DEF Erase
  <2>2. out' \in Seq(Output) /\ cmd_len' \in 0 .. CmdMaxLen - 1 /\ cmd_len' <= Len(cmd_buf')
    BY <1>1, <1>4, <2>1, Characters
  <2>3. SessionOK'
    BY <1>1, <2>2 DEF SessionOK
  <2>4. ASSUME odd = 0
        PROVE  /\ cmd_buf' \in Seq(Letters \cup {Space}) /\ col' = Len(Edited') + 1
               /\ \A i \in 1 .. Len(Edited') : cells'[row' * Width + i - 1] = Edited'[i]
    <3>1. col = Len(Edited) /\ RowShows(Len(Edited)) /\ cmd_buf \in Seq(Letters \cup {Space})
      BY <1>1, <2>4, ReadyShown
    <3>2. /\ Len(Edited) = Len(Prompt) + cmd_len
          /\ \A i \in 1 .. Len(Edited) :
               Edited[i] = IF i <= Len(Prompt) THEN Prompt[i] ELSE cmd_buf[i - Len(Prompt)]
      BY <1>1, EditedShape
    <3>3. /\ Len(Edited') = Len(Prompt) + cmd_len' /\ Len(Edited') \in Nat
          /\ \A i \in 1 .. Len(Edited') :
               Edited'[i] = IF i <= Len(Prompt) THEN Prompt[i] ELSE cmd_buf'[i - Len(Prompt)]
      BY <1>1, <2>2, LineFits DEF Edited
    <3>4. Len(Prompt) \in Nat
      BY ShellAssumption, LenProperties
    <3>5. Len(Edited) = Len(Edited') + 1 /\ 1 .. Len(Edited') \subseteq 1 .. Len(Edited)
      BY <1>1, <2>1, <3>2, <3>3, <3>4
    <3>6. \A i \in 1 .. Len(Edited') : Edited'[i] = Edited[i]
      BY <1>1, <3>2, <3>3, <3>5
    <3> QED
      BY <1>1, <3>1, <3>5, <3>6 DEF RowShows
  <2>5. EditOK'
    BY <1>1, <2>1, <2>4 DEF EditOK, RowShows
  <2> QED
    BY <1>2, <2>3, <2>5
<1> QED
  BY <1>3, <1>4

LEMMA StoreEdits ==
  ASSUME ShellInv, Reading, NEW c \in LineChars, Store(c), UNCHANGED vgaVars
  PROVE  SessionOK' /\ EditOK' /\ SplitOK'
<1>1. /\ cmd_buf \in Seq(LineChars) /\ cmd_len \in 0 .. CmdMaxLen - 1 /\ cmd_len <= Len(cmd_buf)
      /\ SessionOK /\ EditOK /\ CursorOnScreen /\ CmdMaxLen \in Nat /\ odd \in Nat
      /\ UNCHANGED <<argv, p, at, typed, cells, col, row>> /\ at = "read" /\ typed \in Seq(LineChars)
  BY ShellAssumption DEF ShellInv, SessionOK, Store, vgaVars, Reading
<1>2. SplitOK'
  BY <1>1 DEF SplitOK
<1>3. CASE ~(cmd_len < CmdMaxLen - 1)
  <2>1. UNCHANGED <<cmd_buf, cmd_len, out, odd>>
    BY <1>3 DEF Store
  <2>2. SessionOK'
    BY <1>1, <2>1 DEF SessionOK
  <2>3. EditOK'
    <3>1. Edited' = Edited /\ \A k : RowShows(k)' <=> RowShows(k)
      BY <1>1, <2>1 DEF Edited, RowShows
    <3> QED
      BY <1>1, <2>1, <3>1 DEF EditOK
  <2> QED
    BY <1>2, <2>2, <2>3
<1>4. CASE cmd_len < CmdMaxLen - 1
  <2> DEFINE s == SubSeq(cmd_buf, 1, cmd_len)
  <2>1. /\ cmd_buf' = Append(s, c) /\ cmd_len' = cmd_len + 1 /\ out' = <<c>>
        /\ odd' = IF c \in {TAB, NUL} THEN odd + 1 ELSE odd
    BY <1>4 DEF Store
  <2>2. /\ s \in Seq(LineChars) /\ Len(s) = cmd_len /\ \A i \in 1 .. cmd_len : s[i] = cmd_buf[i]
        /\ Edited \in Seq(Output) /\ Len(Edited) = Len(Prompt) + cmd_len /\ Len(Edited) \in Nat
        /\ \A i \in 1 .. Len(Edited) :
             Edited[i] = IF i <= Len(Prompt) THEN Prompt[i] ELSE cmd_buf[i - Len(Prompt)]
    BY <1>1, EditedShape
  <2> HIDE DEF s
  <2>3. /\ cmd_buf' \in Seq(LineChars) /\ Len(cmd_buf') = cmd_len + 1
        /\ \A i \in 1 .. cmd_len : cmd_buf'[i] = cmd_buf[i]
        /\ cmd_buf'[cmd_len + 1] = c
    BY <2>1, <2>2, AppendProperties
  <2>4. /\ cmd_len' \in 0 .. CmdMaxLen - 1 /\ cmd_len' <= Len(cmd_buf') /\ odd' \in Nat
        /\ out' \in Seq(Output)
    BY <1>1, <1>4, <2>1, <2>3, Characters
  <2>5. SessionOK'
    BY <1>1, <2>3, <2>4 DEF SessionOK
  <2>6. ASSUME odd' = 0
        PROVE  /\ cmd_buf' \in Seq(Letters \cup {Space}) /\ col' \in 0 .. Len(Edited')
               /\ out' = SubSeq(Edited', col' + 1, Len(Edited'))
               /\ \A i \in 1 .. col' : cells'[row' * Width + i - 1] = Edited'[i]
    <3>1. odd = 0 /\ c \in Letters \cup {Space}
      BY <1>1, <2>1, <2>6, Characters
    <3>2. col = Len(Edited) /\ RowShows(Len(Edited)) /\ cmd_buf \in Seq(Letters \cup {Space})
      BY <1>1, <3>1, ReadyShown
    <3>3. Len(Prompt) \in Nat
      BY ShellAssumption, LenProperties
    <3>4. cmd_buf' \in Seq(Letters \cup {Space})
      <4>1. Len(cmd_buf) \in Nat
        BY <1>1, LenProperties
      <4>2. \A i \in 1 .. cmd_len : cmd_buf[i] \in Letters \cup {Space}
        BY <1>1, <3>2, <4>1, ElementOfSeq
      <4>3. s \in Seq(Letters \cup {Space})
        BY <1>1, <4>2, SubSeqProperties DEF s
      <4> QED
        BY <2>1, <3>1, <4>3, AppendProperties
    <3>5. /\ Edited' \in Seq(Output) /\ Len(Edited') = Len(Prompt) + cmd_len'
          /\ Len(Edited') \in Nat
          /\ \A i \in 1 .. Len(Edited') :
               Edited'[i] = IF i <= Len(Prompt) THEN Prompt[i] ELSE cmd_buf'[i - Len(Prompt)]
      BY <2>3, <2>4, LineFits DEF Edited
    <3>6. Len(Edited') = Len(Edited) + 1
      BY <1>1, <2>1, <2>2, <3>3, <3>5
    <3>7. \A i \in 1 .. Len(Edited) : Edited'[i] = Edited[i]
      <4> TAKE i \in 1 .. Len(Edited)
      <4>1. i \in 1 .. Len(Edited') /\ (~(i <= Len(Prompt)) => i - Len(Prompt) \in 1 .. cmd_len)
        BY <1>1, <2>2, <3>3, <3>6
      <4> QED
        BY <4>1, <2>2, <2>3, <3>5
    <3>8. Edited'[Len(Edited')] = c
      <4>1. /\ Len(Edited') \in 1 .. Len(Edited') /\ ~(Len(Edited') <= Len(Prompt))
            /\ Len(Edited') - Len(Prompt) = cmd_len + 1
        BY <1>1, <2>1, <2>2, <3>3, <3>5, <3>6, SMTT(30)
      <4> QED
        BY <4>1, <2>3, <3>5
    <3>9. SubSeq(Edited', col + 1, Len(Edited')) = <<c>>
      <4> DEFINE n == Len(Edited')
                 t == SubSeq(Edited', n, n)
      <4>1. n \in Int /\ n \in 1 .. n
        BY <2>2, <3>5, <3>6
      <4>2. \A i \in n .. n : Edited'[i] \in Output
        <5>1. Edited'[n] \in Output
          BY <4>1, <3>5, ElementOfSeq
        <5> QED
          BY <4>1, <5>1
      <4> HIDE DEF n
      <4>3. t \in Seq(Output) /\ Len(t) = (IF n <= n THEN n - n + 1 ELSE 0)
            /\ \A i \in 1 .. n - n + 1 : t[i] = Edited'[n + i - 1]
        BY <4>1, <4>2, SubSeqProperties
      <4>4. n <= n /\ n - n + 1 = 1 /\ n + 1 - 1 = n
        BY <4>1
      <4>5. Len(t) = 1 /\ t[1] = Edited'[n]
        BY <4>3, <4>4
      <4>6. <<c>> \in Seq(Output) /\ Len(<<c>>) = 1 /\ <<c>>[1] = c
        BY Characters
      <4>7. t[1] = c
        BY <4>5, <3>8 DEF n
      <4>8. t = <<c>>
        <5> HIDE DEF t
        <5>1. \A i \in 1 .. 1 : t[i] = <<c>>[i]
          BY <4>6, <4>7
        <5> QED
          BY <4>3, <4>5, <4>6, <5>1, SeqEqual
      <4>9. col + 1 = n
        BY <3>2, <3>6 DEF n
      <4> QED
        BY <4>8, <4>9 DEF n
    <3>10. out' = SubSeq(Edited', col' + 1, Len(Edited'))
      BY <1>1, <2>1, <3>9
    <3>11. col' \in 0 .. Len(Edited') /\ col' = Len(Edited)
      BY <1>1, <2>2, <3>2, <3>5, <3>6
    <3>12. \A i \in 1 .. col' : cells'[row' * Width + i - 1] = Edited'[i]
      BY <1>1, <3>2, <3>7, <3>11 DEF RowShows
    <3> QED
      BY <3>4, <3>10, <3>11, <3>12
  <2>7. EditOK'
    BY <2>6 DEF EditOK, RowShows
  <2> QED
    BY <1>2, <2>5, <2>7
<1> QED
  BY <1>3, <1>4

------------------------------------------------------------------------------
(* The session. *)

LEMMA InitShellInv == InitShell => ShellInv
<1> SUFFICES ASSUME InitShell PROVE ShellInv
  OBVIOUS
<1>1. /\ cells = [i \in Offsets |-> Space] /\ col = 0 /\ row \in 0 .. Height - 1
      /\ hwcur = row * Width /\ Width \in Nat \ {0} /\ Height \in Nat \ {0}
  BY ScreenAssumption DEF InitShell, InitVga
<1>2. /\ cmd_buf = <<>> /\ cmd_len = 0 /\ at = "read" /\ out = Prompt /\ typed = <<>> /\ odd = 0
  BY DEF InitShell
<1>3. CursorOnScreen
  <2>1. row * Width \in Nat
    BY <1>1, OffsetOf
  <2>2. row * Width + 0 = row * Width /\ 0 \in 0 .. Width - 1
    BY <1>1, <2>1
  <2>3. DOMAIN cells = Offsets
    BY <1>1
  <2> QED
    BY <1>1, <2>2, <2>3 DEF CursorOnScreen
<1>4. Blank
  BY <1>1 DEF Blank
<1>5. Prompt \in Seq(Output)
  BY ShellAssumption, Characters, SeqMonotonic
<1>6. SessionOK
  <2>1. cmd_len \in 0 .. CmdMaxLen - 1 /\ cmd_len <= Len(cmd_buf)
    BY <1>2, ShellAssumption, EmptySeq
  <2>2. cmd_buf \in Seq(LineChars) /\ typed \in Seq(LineChars)
    BY <1>2, EmptySeq
  <2> QED
    BY <1>2, <1>5, <2>1, <2>2 DEF SessionOK
<1>7. EditOK
  <2>1. SubSeq(cmd_buf, 1, cmd_len) = <<>>
    BY <1>2, SubSeqEmpty
  <2>2. Edited = Prompt
    BY <1>5, <2>1, ConcatEmptySeq DEF Edited
  <2>3. SubSeq(Edited, col + 1, Len(Edited)) = out
    BY <1>1, <1>2, <1>5, <2>2, SubSeqFull
  <2>4. cmd_buf \in Seq(Letters \cup {Space})
    BY <1>2, EmptySeq
  <2>5. col \in 0 .. Len(Edited)
    BY <1>1, <1>5, <2>2, LenProperties
  <2>6. RowShows(col)
    BY <1>1 DEF RowShows
  <2> QED
    BY <2>3, <2>4, <2>5, <2>6 DEF EditOK
<1>8. SplitOK
  BY <1>2 DEF SplitOK
<1> QED
  BY <1>3, <1>4, <1>6, <1>7, <1>8 DEF ShellInv

\* The words stay as they are when the buffer does.
LEMMA SplitKept ==
  ASSUME UNCHANGED <<cmd_buf, argv, p, typed>>, NEW e, SplitAt(e),
         at' = "dispatch" => p = e \/ Len(argv) = MaxArgs
  PROVE  SplitAt(e)'
<1>0. cmd_buf' = cmd_buf /\ argv' = argv /\ p' = p /\ typed' = typed
  OBVIOUS
<1>1. IsEnd(e)'
  BY <1>0 DEF SplitAt, IsEnd
<1>2. \A i \in 1 .. Len(argv) :
        \E w \in 1 .. e : /\ IsWord(argv[i], w)' /\ w <= p /\ (w = p => p = e)
                          /\ w < e => typed[w] = Space
  <2> TAKE i \in 1 .. Len(argv)
  <2>1. PICK w \in 1 .. e : /\ IsWord(argv[i], w) /\ w <= p /\ (w = p => p = e)
                            /\ w < e => typed[w] = Space
    BY DEF SplitAt
  <2>2. IsWord(argv[i], w)'
    BY <1>0, <2>1 DEF IsWord
  <2> QED
    BY <2>1, <2>2
<1> QED
  BY <1>0, <1>1, <1>2 DEF SplitAt

\* A character is printed.
LEMMA PutNextInv ==
  ASSUME ShellInv, PutNext
  PROVE  ShellInv'
<1>1. /\ CursorOnScreen /\ Blank /\ SessionOK /\ EditOK /\ SplitOK
  BY DEF ShellInv
<1>2. /\ Putchar(Head(out)) /\ out # <<>> /\ out' = Tail(out)
      /\ UNCHANGED <<cmd_buf, cmd_len, argv, p, at, typed, odd>> /\ out \in Seq(Output)
  BY DEF PutNext, ShellInv, SessionOK
<1>3. Head(out) \in Output /\ Tail(out) \in Seq(Output)
  BY <1>2, HeadTailProperties
<1>4. CursorOnScreen'
  BY <1>1, <1>2, PutcharOnScreen
<1>5. Blank'
  <2>1. Head(out) # CR
    BY <1>3, Characters
  <2> QED
    BY <1>1, <1>2, <2>1, PutcharBlank
<1>6. SessionOK'
  BY <1>1, <1>2, <1>3 DEF SessionOK
<1>7. EditOK'
  BY <1>1, PutNextEdits
<1>8. SplitOK'
  <2> SUFFICES ASSUME at \in {"split", "dispatch"} PROVE \E e : SplitAt(e)'
    BY <1>2 DEF SplitOK
  <2>1. PICK e : SplitAt(e)
    BY <1>1 DEF SplitOK
  <2>2. at' = "dispatch" => p = e \/ Len(argv) = MaxArgs
    BY <1>2, <2>1 DEF SplitAt
  <2> QED
    BY <1>2, <2>1, <2>2, SplitKept
<1> QED
  BY <1>4, <1>5, <1>6, <1>7, <1>8 DEF ShellInv

\* A step that leaves the console alone.
LEMMA ConsoleKept ==
  ASSUME CursorOnScreen, Blank, UNCHANGED vgaVars
  PROVE  CursorOnScreen' /\ Blank'
BY DEF CursorOnScreen, Blank, vgaVars

LEMMA GotInv ==
  ASSUME ShellInv, NEW c \in LineChars \cup {NL, BS}, Got(c)
  PROVE  ShellInv'
<1>1. Reading /\ UNCHANGED vgaVars
  BY DEF Got
<1>2. CursorOnScreen' /\ Blank'
  BY <1>1, ConsoleKept DEF ShellInv
<1>3. NL # BS
  BY ScreenAssumption
<1>4. CASE c = NL
  <2>1. Enter
    BY <1>3, <1>4 DEF Got
  <2> QED
    BY <1>1, <1>2, <2>1, EnterEdits DEF ShellInv
<1>5. CASE c = BS
  <2>1. Erase
    BY <1>3, <1>5 DEF Got
  <2> QED
    BY <1>1, <1>2, <2>1, EraseEdits DEF ShellInv
<1>6. CASE c \notin {NL, BS}
  <2>1. Store(c) /\ c \in LineChars
    BY <1>6 DEF Got
  <2> QED
    BY <1>1, <1>2, <2>1, StoreEdits DEF ShellInv
<1> QED
  BY <1>4, <1>5, <1>6

LEMMA SplitInvs ==
  ASSUME ShellInv, SplitWord \/ SplitDone
  PROVE  ShellInv'
<1>1. SessionOK /\ SplitOK /\ UNCHANGED <<vgaVars, cmd_len, out, typed, odd>> /\ at = "split"
      /\ cmd_buf \in Seq(LineChars)
  BY DEF ShellInv, SplitWord, SplitDone, SessionOK, Splitting
<1>2. CursorOnScreen' /\ Blank'
  BY <1>1, ConsoleKept DEF ShellInv
<1>3. CASE SplitWord
  <2>1. SplitOK' /\ cmd_buf' \in Seq(LineChars) /\ Len(cmd_buf') = Len(cmd_buf)
    BY <1>1, <1>3, SplitWordSplits
  <2>2. at' = "split"
    BY <1>1, <1>3 DEF SplitWord
  <2> QED
    BY <1>1, <1>2, <2>1, <2>2 DEF ShellInv, SessionOK, EditOK
<1>4. CASE SplitDone
  <2>1. /\ at' = "dispatch" /\ UNCHANGED <<cmd_buf, argv, p>>
        /\ cmd_buf[p] = NUL \/ Len(argv) = MaxArgs
    BY <1>4 DEF SplitDone
  <2>2. PICK e : SplitAt(e)
    BY <1>1 DEF SplitOK
  <2>3. p = e \/ Len(argv) = MaxArgs
    <3>1. /\ p \in 1 .. e /\ e \in 1 .. Len(typed) + 1 /\ Len(typed) \in Nat
          /\ \A k \in p .. Len(typed) : cmd_buf[k] = typed[k]
          /\ \A k \in 1 .. e - 1 : typed[k] # NUL
      BY <1>1, <2>2, LenProperties DEF SplitAt, IsEnd, SessionOK
    <3>2. p # e => p \in 1 .. e - 1 /\ p \in p .. Len(typed)
      BY <3>1
    <3> QED
      BY <2>1, <3>1, <3>2
  <2>4. SplitAt(e)'
    BY <1>1, <2>1, <2>2, <2>3, SplitKept
  <2>5. SplitOK'
    BY <2>4 DEF SplitOK
  <2> QED
    BY <1>1, <1>2, <2>1, <2>5 DEF ShellInv, SessionOK, EditOK
<1> QED
  BY <1>3, <1>4

\* The command prints characters of the console, or clears it.
LEMMA DispatchInv ==
  ASSUME ShellInv, Dispatch
  PROVE  ShellInv'
<1>1. /\ at = "dispatch" /\ at' = "prompt" /\ cmd_len' = 0 /\ cmd_buf' = <<>> /\ typed' = <<>>
      /\ UNCHANGED odd /\ SessionOK /\ SplitOK /\ odd \in Nat
  BY DEF ShellInv, SessionOK, Dispatch
<1>2. out' \in Seq(Output) /\ (UNCHANGED vgaVars \/ Clear)
  <2>1. CASE argv = <<>>
    BY <2>1, EmptySeq DEF Dispatch
  <2>2. CASE argv # <<>>
    <3>1. Args \in Seq(Seq(LineChars)) /\ Len(Args) = Len(argv) /\ Len(argv) \in Nat
      BY <1>1, ArgsOver
    <3>2. argv \in Seq(Nat)
      BY <1>1 DEF SplitOK, SplitAt
    <3>3. Len(argv) # 0
      BY <2>2, <3>2, EmptySeq
    <3>4. 1 \in 1 .. Len(Args) /\ Args # <<>>
      BY <3>1, <3>3, EmptySeq
    <3>5. Args[1] \in Seq(LineChars)
      BY <3>1, <3>4, ElementOfSeq
    <3>6. Unknown(Args[1]) \in Seq(Output)
      <4>1. Args[1] \in Seq(Output) /\ <<NL>> \in Seq(Output)
        BY <3>5, Characters, SeqMonotonic
      <4> QED
        BY <4>1, ConcatProperties DEF Unknown
    <3>7. CASE Args[1] \notin DOMAIN Command
      BY <2>2, <3>6, <3>7 DEF Dispatch
    <3>8. CASE Args[1] \in DOMAIN Command
      <4> DEFINE name == Command[Args[1]]
      <4>1. name \in DOMAIN Text \cup {"clear"}
        BY <3>8, ShellAssumption
      <4>2. CASE name = "clear"
        BY <2>2, <3>8, <4>2, EmptySeq DEF Dispatch
      <4>3. CASE name # "clear"
        <5>1. Text[name] \in Seq(Output)
          <6>1. Text[name] \in Seq(Printable \cup {NL}) /\ Printable \cup {NL} \subseteq Output
            BY <4>1, <4>3, ShellAssumption, Characters
          <6> QED
            BY <6>1, SeqMonotonic
        <5>2. EchoText(Args) \in Seq(Output)
          BY <3>1, <3>4, EchoOutput
        <5>3. /\ out' = IF name = "echo" THEN EchoText(Args) ELSE Text[name]
              /\ UNCHANGED vgaVars
          BY <2>2, <3>8, <4>3 DEF Dispatch
        <5> QED
          BY <5>1, <5>2, <5>3
      <4> QED
        BY <4>2, <4>3
    <3> QED
      BY <3>7, <3>8
  <2> QED
    BY <2>1, <2>2
<1>3. CursorOnScreen' /\ Blank'
  <2>1. CASE UNCHANGED vgaVars
    BY <2>1, ConsoleKept DEF ShellInv
  <2>2. CASE Clear
    <3>1. 0 * Width + 0 = 0 /\ 0 \in 0 .. Width - 1 /\ 0 \in 0 .. Height - 1
      BY ScreenAssumption
    <3> QED
      BY <2>2, <3>1 DEF Clear, CursorOnScreen, Blank, Offsets
  <2> QED
    BY <1>2, <2>1, <2>2
<1>4. SessionOK'
  <2>1. 0 \in 0 .. CmdMaxLen - 1 /\ 0 <= Len(<<>>)
    BY ShellAssumption, EmptySeq
  <2> QED
    BY <1>1, <1>2, <2>1, EmptySeq DEF SessionOK
<1>5. EditOK' /\ SplitOK'
  BY <1>1 DEF EditOK, SplitOK
<1> QED
  BY <1>3, <1>4, <1>5 DEF ShellInv

\* The prompt is printed at the start of a line.
LEMMA ShowPromptInv ==
  ASSUME ShellInv, ShowPrompt
  PROVE  ShellInv'
<1>1. /\ SessionOK /\ cmd_len = 0 /\ cmd_buf = <<>> /\ at' = "read"
      /\ out' = (IF col # 0 THEN <<NL>> ELSE <<>>) \o Prompt
      /\ UNCHANGED <<cells, col, row, hwcur, cmd_buf, cmd_len, argv, p, typed, odd>>
  BY DEF ShellInv, SessionOK, ShowPrompt, vgaVars
<1>2. CursorOnScreen' /\ Blank'
  BY <1>1, ConsoleKept DEF ShellInv, vgaVars
<1>3. Prompt \in Seq(Output) /\ <<NL>> \in Seq(Output) /\ <<>> \in Seq(Output)
  BY ShellAssumption, Characters, SeqMonotonic, EmptySeq
<1>4. <<NL>> \o Prompt \in Seq(Output) /\ <<>> \o Prompt = Prompt
  BY <1>3, ConcatProperties, ConcatEmptySeq
<1>5. out' \in Seq(Output)
  BY <1>1, <1>3, <1>4
<1>6. SessionOK'
  BY <1>1, <1>5 DEF SessionOK
<1>7. EditOK'
  <2>1. cmd_buf' \in Seq(Letters \cup {Space})
    BY <1>1, EmptySeq
  <2>2. CASE col # 0
    <3>1. out' = <<NL>> \o Prompt /\ cmd_len' = 0
      BY <1>1, <2>2
    <3> QED
      BY <2>1, <3>1 DEF EditOK
  <2>3. CASE col = 0
    <3>1. out' = Prompt /\ col' = 0
      BY <1>1, <1>4, <2>3
    <3>2. SubSeq(cmd_buf', 1, cmd_len') = <<>>
      BY <1>1, SubSeqEmpty
    <3>3. Edited' = Prompt
      BY <1>3, <3>2, ConcatEmptySeq DEF Edited
    <3>4. SubSeq(Edited', 0 + 1, Len(Edited')) = Prompt
      BY <1>3, <3>3, SubSeqFull
    <3>5. Len(Edited') \in Nat
      BY <1>3, <3>3, LenProperties
    <3>6. col' \in 0 .. Len(Edited') /\ out' = SubSeq(Edited', col' + 1, Len(Edited'))
      BY <3>1, <3>4, <3>5
    <3>7. RowShows(col)'
      BY <3>1 DEF RowShows
    <3> QED
      BY <2>1, <3>6, <3>7 DEF EditOK
  <2> QED
    BY <2>2, <2>3
<1>8. SplitOK'
  BY <1>1 DEF SplitOK
<1> QED
  BY <1>2, <1>6, <1>7, <1>8 DEF ShellInv

LEMMA ShellStep == ShellInv /\ [NextShell]_allVars => ShellInv'
<1> SUFFICES ASSUME ShellInv, [NextShell]_allVars PROVE ShellInv'
  OBVIOUS
<1>1. CASE PutNext
  BY <1>1, PutNextInv
<1>2. CASE ReadKeyboard
  <2>1. PICK c \in KeyboardChars : Got(c)
    BY <1>2 DEF ReadKeyboard
  <2>2. c \in LineChars \cup {NL, BS}
    BY DEF KeyboardChars, LineChars
  <2> QED
    BY <2>1, <2>2, GotInv
<1>3. CASE ReadSerial
  <2>1. PICK c \in SerialChars : Got(FromSerial(c))
    BY <1>3 DEF ReadSerial
  <2>2. FromSerial(c) \in LineChars \cup {NL, BS}
    <3>1. CR # DEL
      BY ShellAssumption DEF Controls
    <3>2. CASE c = CR
      BY <3>2 DEF FromSerial
    <3>3. CASE c = DEL
      BY <3>1, <3>3 DEF FromSerial
    <3>4. CASE c \notin {CR, DEL}
      <4>1. FromSerial(c) = c
        BY <3>4 DEF FromSerial
      <4>2. c \in LineChars \cup {NL, BS}
        BY <3>4 DEF SerialChars, KeyboardChars, LineChars
      <4> QED
        BY <4>1, <4>2
    <3> QED
      BY <3>2, <3>3, <3>4
  <2> QED
    BY <2>1, <2>2, GotInv
<1>4. CASE SplitWord \/ SplitDone
  BY <1>4, SplitInvs
<1>5. CASE Dispatch
  BY <1>5, DispatchInv
<1>6. CASE ShowPrompt
  BY <1>6, ShowPromptInv
<1>7. CASE UNCHANGED allVars
  <2>1. UNCHANGED vgaVars /\ UNCHANGED <<cmd_buf, cmd_len, argv, p, at, out, typed, odd>>
    BY <1>7 DEF allVars, shellVars
  <2>2. CursorOnScreen' /\ Blank' /\ SessionOK'
    BY <2>1, ConsoleKept DEF ShellInv, SessionOK
  <2>3. EditOK'
    BY <2>1 DEF ShellInv, EditOK, Edited, RowShows, vgaVars
  <2>4. SplitOK'
    <3> SUFFICES ASSUME at \in {"split", "dispatch"} PROVE \E e : SplitAt(e)'
      BY <2>1 DEF SplitOK
    <3>1. PICK e : SplitAt(e)
      BY DEF ShellInv, SplitOK
    <3>2. at' = "dispatch" => p = e \/ Len(argv) = MaxArgs
      BY <2>1, <3>1 DEF SplitAt
    <3> QED
      BY <2>1, <3>1, <3>2, SplitKept
  <2> QED
    BY <2>2, <2>3, <2>4 DEF ShellInv
<1> QED
  BY <1>1, <1>2, <1>3, <1>4, <1>5, <1>6, <1>7 DEF NextShell

THEOREM ShellInvariant == SpecShell => []ShellInv
<1>1. InitShell => ShellInv
  BY InitShellInv
<1>2. ShellInv /\ [NextShell]_allVars => ShellInv'
  BY ShellStep
<1> QED
  BY <1>1, <1>2, PTL DEF SpecShell

\* The cursor stays on the screen whatever is typed and printed, tabs and
\* backspaces included, so that vga_putchar writes into the text memory.
THEOREM CursorStays == SpecShell => []CursorOnScreen
<1>1. ShellInv => CursorOnScreen
  BY DEF ShellInv
<1> QED
  BY <1>1, ShellInvariant, PTL

\* While the user edits, the cursor's line shows the prompt and the characters
\* that Enter would run, and nothing is behind them.
THEOREM LineIsShown == SpecShell => []LineShown
<1>1. ShellInv => LineShown
  BY ShownMeans
<1> QED
  BY <1>1, ShellInvariant, PTL

\* A command is given the words of the line, in order, up to the length of argv.
THEOREM WordsAreGiven == SpecShell => []ArgsAreWords
<1>1. ShellInv => ArgsAreWords
  BY SplitMeans DEF ShellInv
<1> QED
  BY <1>1, ShellInvariant, PTL

------------------------------------------------------------------------------
(* The numbers printf shows. *)

Bases == {10, 16}

\* The digits of k when those of smaller numbers are the function h.
Below(base, h, k) == IF k = 0 THEN <<>> ELSE <<Digit[(k % base) + 1]>> \o h[k \div base]

\* The digits of the numbers up to n.
DigitsTo(base, h, n) == h = [k \in 0 .. n |-> Below(base, h, k)]

LEMMA DivMod ==
  ASSUME NEW a \in Nat, NEW b \in Nat \ {0}
  PROVE  /\ a = b * (a \div b) + (a % b)
         /\ a \div b \in Nat /\ a % b \in 0 .. b - 1
OBVIOUS

LEMMA QuotientSmaller ==
  ASSUME NEW base \in Bases, NEW k \in Nat, k # 0
  PROVE  /\ k \div base \in Nat /\ k \div base < k /\ k % base \in 0 .. base - 1
         /\ k = (k \div base) * base + (k % base)
<1> DEFINE q == k \div base  r == k % base
<1>1. base \in Nat \ {0} /\ base \in {10, 16}
  BY DEF Bases
<1>2. k = base * q + r /\ q \in Nat /\ r \in 0 .. base - 1
  BY <1>1, DivMod
<1> HIDE DEF q, r
<1>3. q < k /\ k = q * base + r
  <2>1. CASE base = 10
    <3>1. k = 10 * q + r
      BY <1>2, <2>1
    <3>2. q < k /\ k = q * 10 + r
      BY <1>2, <3>1
    <3> QED
      BY <2>1, <3>2
  <2>2. CASE base = 16
    <3>1. k = 16 * q + r
      BY <1>2, <2>2
    <3>2. q < k /\ k = q * 16 + r
      BY <1>2, <3>1
    <3> QED
      BY <2>2, <3>2
  <2> QED
    BY <1>1, <2>1, <2>2
<1>4. q \in Nat /\ q < k /\ r \in 0 .. base - 1 /\ k = q * base + r
  BY <1>2, <1>3
<1> QED
  BY <1>4 DEF q, r

\* Two such functions agree where both are defined.
LEMMA DigitsAgree ==
  ASSUME NEW base \in Bases, NEW m \in Nat, NEW n \in Nat, NEW g, NEW h,
         DigitsTo(base, g, m), DigitsTo(base, h, n)
  PROVE  \A k \in 0 .. m : k <= n => g[k] = h[k]
<1> DEFINE T == {k \in Nat : k <= m /\ k <= n /\ g[k] # h[k]}
<1>1. \A k \in 0 .. m : g[k] = Below(base, g, k)
  BY DEF DigitsTo
<1>2. \A k \in 0 .. n : h[k] = Below(base, h, k)
  BY DEF DigitsTo
<1>3. SUFFICES ASSUME T # {} PROVE FALSE
  OBVIOUS
<1>4. PICK x \in T : \A y \in T : x <= y
  <2>1. T \subseteq Nat
    OBVIOUS
  <2> QED
    BY <1>3, <2>1, Least
<1>5. g[x] = Below(base, g, x) /\ h[x] = Below(base, h, x)
  BY <1>1, <1>2, <1>4
<1>6. x # 0
  BY <1>4, <1>5 DEF Below
<1> DEFINE q == x \div base
<1>7. q \in Nat /\ q < x
  BY <1>4, <1>6, QuotientSmaller
<1> HIDE DEF q
<1>8. g[q] = h[q]
  BY <1>4, <1>7
<1>9. g[x] = h[x]
  BY <1>5, <1>8 DEF Below, q
<1> QED
  BY <1>4, <1>9

\* There is one up to every number.
LEMMA DigitsExist ==
  ASSUME NEW base \in Bases
  PROVE  \A n \in Nat : \E h : DigitsTo(base, h, n)
<1> DEFINE T == {n \in Nat : ~ \E h : DigitsTo(base, h, n)}
<1>1. SUFFICES ASSUME T # {} PROVE FALSE
  OBVIOUS
<1>2. PICK x \in T : \A y \in T : x <= y
  <2>1. T \subseteq Nat
    OBVIOUS
  <2> QED
    BY <1>1, <2>1, Least
<1>3. x # 0
  <2> DEFINE h == [k \in 0 .. 0 |-> <<>>]
  <2>1. \A k \in 0 .. 0 : Below(base, h, k) = <<>>
    BY DEF Below
  <2>2. h = [k \in 0 .. 0 |-> Below(base, h, k)]
    BY <2>1
  <2> QED
    BY <1>2, <2>2 DEF DigitsTo
<1>4. PICK g : DigitsTo(base, g, x - 1)
  <2>1. x - 1 \in Nat /\ ~(x <= x - 1)
    BY <1>2, <1>3
  <2> QED
    BY <1>2, <2>1
<1> DEFINE h == [k \in 0 .. x |-> Below(base, g, k)]
<1>5. \A k \in 0 .. x - 1 : h[k] = g[k]
  BY <1>2, <1>4 DEF DigitsTo
<1>6. \A k \in 0 .. x : Below(base, h, k) = Below(base, g, k)
  <2>1. TAKE k \in 0 .. x
  <2> DEFINE q == k \div base
  <2>2. k # 0 => q \in 0 .. x - 1
    <3>1. k # 0 => q \in Nat /\ q < k
      BY QuotientSmaller
    <3> HIDE DEF q
    <3> QED
      BY <1>2, <3>1
  <2> HIDE DEF h, q
  <2>3. k # 0 => h[q] = g[q]
    BY <1>5, <2>2
  <2> QED
    BY <2>3 DEF Below, q
<1>7. h = [k \in 0 .. x |-> Below(base, h, k)]
  BY <1>6
<1> HIDE DEF h
<1>8. DigitsTo(base, h, x)
  BY <1>7 DEF DigitsTo
<1> QED
  BY <1>2, <1>8

\* The least digit, and the digits of the quotient.
LEMMA DigitsStep ==
  ASSUME NEW base \in Bases, NEW v \in Nat
  PROVE  DigitsUp(v, base) =
           IF v = 0 THEN <<>> ELSE <<Digit[(v % base) + 1]>> \o DigitsUp(v \div base, base)
<1> DEFINE Part(m) == CHOOSE h : DigitsTo(base, h, m)
           all == [m \in Nat |-> Part(m)[m]]
           Recursive(r) == r = [k \in Nat |-> IF k = 0 THEN <<>>
                                              ELSE <<Digit[(k % base) + 1]>> \o r[k \div base]]
           up == CHOOSE r : Recursive(r)
<1>1. \A m \in Nat : DigitsTo(base, Part(m), m)
  BY DigitsExist
<1> HIDE DEF Part
<1>2. \A k \in Nat : all[k] = Below(base, all, k)
  <2>1. TAKE k \in Nat
  <2>2. Part(k)[k] = Below(base, Part(k), k)
    <3>1. DigitsTo(base, Part(k), k) /\ k \in 0 .. k
      BY <1>1
    <3> QED
      BY <3>1 DEF DigitsTo
  <2> DEFINE q == k \div base
  <2>3. k # 0 => q \in Nat /\ q < k
    BY QuotientSmaller
  <2> HIDE DEF q
  <2>4. k # 0 => Part(k)[q] = Part(q)[q]
    <3>1. SUFFICES ASSUME k # 0 PROVE Part(k)[q] = Part(q)[q]
      OBVIOUS
    <3>2. DigitsTo(base, Part(q), q) /\ DigitsTo(base, Part(k), k) /\ q \in 0 .. q /\ q <= k
      BY <1>1, <2>3, <3>1
    <3>3. \A j \in 0 .. q : j <= k => Part(q)[j] = Part(k)[j]
      BY <2>3, <3>1, <3>2, DigitsAgree
    <3> QED
      BY <3>2, <3>3
  <2>5. k # 0 => all[q] = Part(q)[q]
    BY <2>3
  <2>6. all[k] = Part(k)[k]
    OBVIOUS
  <2> HIDE DEF all
  <2> QED
    BY <2>2, <2>4, <2>5, <2>6 DEF Below, q
<1>3. all = [k \in Nat |-> IF k = 0 THEN <<>> ELSE <<Digit[(k % base) + 1]>> \o all[k \div base]]
  <2>1. \A k \in Nat : all[k] = IF k = 0 THEN <<>> ELSE <<Digit[(k % base) + 1]>> \o all[k \div base]
    BY <1>2 DEF Below
  <2>2. all = [k \in Nat |-> all[k]]
    OBVIOUS
  <2> HIDE DEF all
  <2> QED
    BY <2>1, <2>2
<1> HIDE DEF all
<1>4. Recursive(up)
  <2>1. Recursive(all)
    BY <1>3
  <2> HIDE DEF Recursive
  <2> QED
    BY <2>1
<1>5. \A k \in Nat : DigitsUp(k, base) = up[k]
  BY DEF DigitsUp
<1> HIDE DEF up
<1>6. \A k \in Nat : up[k] = IF k = 0 THEN <<>> ELSE <<Digit[(k % base) + 1]>> \o up[k \div base]
  BY <1>4
<1>7. v # 0 => v \div base \in Nat
  BY QuotientSmaller
<1> QED
  BY <1>5, <1>6, <1>7

\* The value of the first n digits, from the value of one less.
Horner(s, base, h, n) ==
  h = [k \in 0 .. n |-> IF k = 0 THEN 0 ELSE h[k - 1] * base + DigitValue(s[k])]

LEMMA HornerExists ==
  ASSUME NEW s, NEW base
  PROVE  \A n \in Nat : \E h : Horner(s, base, h, n)
<1> DEFINE T == {n \in Nat : ~ \E h : Horner(s, base, h, n)}
           On(h, k) == IF k = 0 THEN 0 ELSE h[k - 1] * base + DigitValue(s[k])
<1>1. SUFFICES ASSUME T # {} PROVE FALSE
  OBVIOUS
<1>2. PICK x \in T : \A y \in T : x <= y
  <2>1. T \subseteq Nat
    OBVIOUS
  <2> QED
    BY <1>1, <2>1, Least
<1>3. x # 0
  <2> DEFINE h == [k \in 0 .. 0 |-> 0]
  <2>1. \A k \in 0 .. 0 : On(h, k) = 0
    OBVIOUS
  <2>2. h = [k \in 0 .. 0 |-> On(h, k)]
    BY <2>1
  <2> QED
    BY <1>2, <2>2 DEF Horner
<1>4. PICK g : Horner(s, base, g, x - 1)
  <2>1. x - 1 \in Nat /\ ~(x <= x - 1)
    BY <1>2, <1>3
  <2> QED
    BY <1>2, <2>1
<1> DEFINE h == [k \in 0 .. x |-> On(g, k)]
<1>5. \A k \in 0 .. x - 1 : h[k] = g[k]
  BY <1>2, <1>4 DEF Horner
<1>6. \A k \in 0 .. x : On(h, k) = On(g, k)
  <2>1. TAKE k \in 0 .. x
  <2>2. k # 0 => k - 1 \in 0 .. x - 1
    BY <1>2
  <2>3. k # 0 => h[k - 1] = g[k - 1]
    BY <1>5, <2>2
  <2> HIDE DEF h
  <2> QED
    BY <2>3
<1>7. h = [k \in 0 .. x |-> On(h, k)]
  BY <1>6
<1> HIDE DEF h
<1>8. Horner(s, base, h, x)
  BY <1>7 DEF Horner
<1> QED
  BY <1>2, <1>8

\* ValueOf is one.
LEMMA ValueIsHorner ==
  ASSUME NEW s, NEW base, Len(s) \in Nat
  PROVE  \E h : Horner(s, base, h, Len(s)) /\ ValueOf(s, base) = h[Len(s)]
<1> DEFINE h == CHOOSE r : Horner(s, base, r, Len(s))
<1>1. Horner(s, base, h, Len(s))
  BY HornerExists
<1>2. ValueOf(s, base) = h[Len(s)]
  BY DEF ValueOf, Horner
<1> QED
  BY <1>1, <1>2

\* A digit more.
LEMMA ValueOneMore ==
  ASSUME NEW S, NEW s \in Seq(S), NEW c \in S, NEW base
  PROVE  ValueOf(Append(s, c), base) = ValueOf(s, base) * base + DigitValue(c)
<1> DEFINE t == Append(s, c)  n == Len(s)
<1>1. Len(t) = n + 1 /\ n \in Nat /\ t[n + 1] = c /\ \A k \in 1 .. n : t[k] = s[k]
  OBVIOUS
<1> HIDE DEF t, n
<1>2. PICK g : Horner(s, base, g, n) /\ ValueOf(s, base) = g[n]
  BY <1>1, ValueIsHorner DEF n
<1>3. PICK h : Horner(t, base, h, n + 1) /\ ValueOf(t, base) = h[n + 1]
  <2>1. Len(t) \in Nat
    BY <1>1
  <2> QED
    BY <1>1, <2>1, ValueIsHorner
<1>4. \A k \in 0 .. n : g[k] = h[k]
  <2> DEFINE T == {k \in Nat : k <= n /\ g[k] # h[k]}
  <2>1. SUFFICES ASSUME T # {} PROVE FALSE
    BY <1>1
  <2>2. PICK x \in T : \A y \in T : x <= y
    <3>1. T \subseteq Nat
      OBVIOUS
    <3> QED
      BY <2>1, <3>1, Least
  <2>3. x \in Nat /\ x <= n /\ g[x] # h[x] /\ x \in 0 .. n /\ x \in 0 .. n + 1
    BY <1>1, <2>2
  <2>4. g[x] = IF x = 0 THEN 0 ELSE g[x - 1] * base + DigitValue(s[x])
    BY <1>2, <2>3 DEF Horner
  <2>5. h[x] = IF x = 0 THEN 0 ELSE h[x - 1] * base + DigitValue(t[x])
    BY <1>3, <2>3 DEF Horner
  <2>6. x # 0
    BY <2>3, <2>4, <2>5
  <2>7. x - 1 \in Nat /\ x - 1 <= n /\ ~(x <= x - 1) /\ x \in 1 .. n
    BY <1>1, <2>3, <2>6
  <2>8. g[x - 1] = h[x - 1]
    BY <2>2, <2>7
  <2>9. s[x] = t[x]
    BY <1>1, <2>7
  <2> QED
    BY <2>3, <2>4, <2>5, <2>6, <2>8, <2>9
<1>5. h[n + 1] = h[n] * base + DigitValue(t[n + 1])
  <2>1. n + 1 \in 0 .. n + 1 /\ n + 1 # 0 /\ (n + 1) - 1 = n
    BY <1>1
  <2>2. h[n + 1] = IF n + 1 = 0 THEN 0 ELSE h[(n + 1) - 1] * base + DigitValue(t[n + 1])
    BY <1>3, <2>1 DEF Horner
  <2> QED
    BY <2>1, <2>2
<1>6. h[n] = g[n]
  BY <1>1, <1>4
<1> QED
  BY <1>1, <1>2, <1>3, <1>5, <1>6 DEF t

\* No digits.
LEMMA ValueOfNone ==
  ASSUME NEW base
  PROVE  ValueOf(<<>>, base) = 0
<1>1. PICK h : Horner(<<>>, base, h, 0) /\ ValueOf(<<>>, base) = h[0]
  <2>1. Len(<<>>) = 0 /\ Len(<<>>) \in Nat
    OBVIOUS
  <2> QED
    BY <2>1, ValueIsHorner
<1>2. 0 \in 0 .. 0
  OBVIOUS
<1>3. h[0] = IF 0 = 0 THEN 0 ELSE h[0 - 1] * base + DigitValue(<<>>[0])
  BY <1>1, <1>2 DEF Horner
<1> QED
  BY <1>1, <1>3

\* A digit is read as what it was written for.
LEMMA DigitsApart ==
  ASSUME NEW d \in 0 .. 15
  PROVE  DigitValue(Digit[d + 1]) = d /\ (d # 0 => Digit[d + 1] # "0") /\ Digit[1] = "0"
<1>1. \A a \in 0 .. 15 : Digit[a + 1] = Digit[d + 1] => a = d
  BY DEF Digit
<1>2. \A a \in 0 .. 15 : (Digit[a + 1] = Digit[d + 1]) <=> (a = d)
  BY <1>1
<1>3. DigitValue(Digit[d + 1]) = d
  BY <1>2 DEF DigitValue
<1>4. Digit[1] = "0"
  BY DEF Digit
<1>5. d # 0 => Digit[d + 1] # Digit[0 + 1]
  <2>1. \A a, b \in 0 .. 15 : Digit[a + 1] = Digit[b + 1] => a = b
    BY DEF Digit
  <2> QED
    BY <2>1
<1> QED
  BY <1>3, <1>4, <1>5

\* What is put in front comes last.
LEMMA ReverseFirst ==
  ASSUME NEW S, NEW s \in Seq(S), NEW c \in S
  PROVE  Reverse(<<c>> \o s) = Append(Reverse(s), c) /\ Reverse(s) \in Seq(S) /\ Len(Reverse(s)) = Len(s)
<1> DEFINE t == <<c>> \o s  r == Reverse(s)  n == Len(s)
<1>1. n \in Nat /\ Len(t) = n + 1 /\ t[1] = c /\ \A k \in 1 .. n : t[k + 1] = s[k]
  OBVIOUS
<1>2. r = [k \in 1 .. n |-> s[(n - k) + 1]] /\ Reverse(t) = [k \in 1 .. n + 1 |-> t[((n + 1) - k) + 1]]
  BY <1>1 DEF Reverse
<1>3. r \in Seq(S) /\ Len(r) = n /\ \A k \in 1 .. n : r[k] = s[(n - k) + 1]
  <2>1. \A k \in 1 .. n : s[(n - k) + 1] \in S
    BY <1>1
  <2> HIDE DEF n, r
  <2> QED
    BY <1>1, <1>2, <2>1
<1>4. Append(r, c) = [k \in 1 .. n + 1 |-> IF k = n + 1 THEN c ELSE r[k]]
  <2> DEFINE a == Append(r, c)
  <2> HIDE DEF r, n
  <2>1. a \in Seq(S) /\ Len(a) = n + 1 /\ \A k \in 1 .. n + 1 : a[k] = IF k = n + 1 THEN c ELSE r[k]
    BY <1>1, <1>3
  <2> HIDE DEF a
  <2>2. a = [k \in 1 .. Len(a) |-> a[k]]
    <3>1. a \in [1 .. Len(a) -> S]
      BY <2>1, LenProperties
    <3> QED
      BY <3>1
  <2>3. a = [k \in 1 .. n + 1 |-> IF k = n + 1 THEN c ELSE r[k]]
    BY <2>1, <2>2
  <2> QED
    BY <2>3 DEF a
<1> HIDE DEF t, r, n
<1>5. \A k \in 1 .. n + 1 : t[((n + 1) - k) + 1] = IF k = n + 1 THEN c ELSE r[k]
  <2>1. TAKE k \in 1 .. n + 1
  <2>2. CASE k = n + 1
    BY <1>1, <2>2
  <2>3. CASE k # n + 1
    <3>1. k \in 1 .. n /\ (n - k) + 1 \in 1 .. n /\ ((n + 1) - k) + 1 = ((n - k) + 1) + 1
      BY <1>1, <2>3
    <3> QED
      BY <1>1, <1>3, <2>3, <3>1
  <2> QED
    BY <2>2, <2>3
<1> QED
  BY <1>2, <1>3, <1>4, <1>5 DEF t, r, n

DigitSet == {Digit[j + 1] : j \in 0 .. 15}

\* The digits of a number turned round: they stand for it, and the first is not 0.
Written(v, base) ==
  /\ DigitsUp(v, base) \in Seq(DigitSet)
  /\ LET d == Reverse(DigitsUp(v, base)) IN
     /\ \A i \in 1 .. Len(d) : \E j \in 0 .. base - 1 : d[i] = Digit[j + 1]
     /\ ValueOf(d, base) = v
     /\ v # 0 => d # <<>> /\ d[1] # "0"

\* One digit more.
LEMMA WrittenMore ==
  ASSUME NEW base \in Bases, NEW v \in Nat, v # 0, Written(v \div base, base)
  PROVE  Written(v, base)
<1> DEFINE q == v \div base  r == v % base  s == DigitsUp(q, base)  u == Reverse(s)  c == Digit[r + 1]
<1>1. q \in Nat /\ r \in 0 .. base - 1 /\ v = q * base + r /\ base \in {10, 16}
  BY QuotientSmaller DEF Bases
<1>2. DigitsUp(v, base) = <<c>> \o s
  BY DigitsStep
<1>3. s \in Seq(DigitSet) /\ (\A i \in 1 .. Len(u) : \E j \in 0 .. base - 1 : u[i] = Digit[j + 1])
      /\ ValueOf(u, base) = q /\ (q # 0 => u # <<>> /\ u[1] # "0")
  BY DEF Written
<1> HIDE DEF q, r, s, u
<1>4. r \in 0 .. 15
  BY <1>1
<1>5. c \in DigitSet /\ DigitValue(c) = r /\ (r # 0 => c # "0")
  BY <1>4, DigitsApart DEF DigitSet
<1> HIDE DEF c
<1> DEFINE d == Append(u, c)
<1>6. Reverse(<<c>> \o s) = d /\ u \in Seq(DigitSet)
  BY <1>3, <1>5, ReverseFirst DEF u
<1>7. <<c>> \o s \in Seq(DigitSet)
  BY <1>3, <1>5
<1>8. ValueOf(d, base) = v
  <2>1. ValueOf(d, base) = ValueOf(u, base) * base + DigitValue(c)
    BY <1>5, <1>6, ValueOneMore
  <2> QED
    BY <1>1, <1>3, <1>5, <2>1
<1>9. \A i \in 1 .. Len(d) : \E j \in 0 .. base - 1 : d[i] = Digit[j + 1]
  <2>1. TAKE i \in 1 .. Len(d)
  <2>2. CASE i = Len(u) + 1
    <3>1. d[i] = Digit[r + 1]
      BY <1>6, <2>2 DEF c
    <3> QED
      BY <1>1, <3>1
  <2>3. CASE i # Len(u) + 1
    <3>1. i \in 1 .. Len(u) /\ d[i] = u[i]
      BY <1>6, <2>3
    <3> HIDE DEF d
    <3> QED
      BY <1>3, <3>1
  <2> QED
    BY <2>2, <2>3
<1>10. d # <<>> /\ d[1] # "0"
  <2>1. CASE u = <<>>
    <3>1. q = 0
      BY <1>3, <2>1, ValueOfNone
    <3>2. r # 0
      <4>1. v = 0 * base + r
        BY <1>1, <3>1
      <4> QED
        BY <1>1, <4>1
    <3>3. d = <<c>>
      BY <2>1
    <3> QED
      BY <1>5, <3>2, <3>3
  <2>2. CASE u # <<>>
    <3>1. q # 0
      <4>1. SUFFICES ASSUME q = 0 PROVE FALSE
        OBVIOUS
      <4>2. u = <<>>
        <5>1. s = <<>>
          BY <1>1, <4>1, DigitsStep DEF s
        <5> QED
          BY <5>1 DEF u, Reverse
      <4> QED
        BY <2>2, <4>2
    <3>2. d[1] = u[1] /\ d # <<>>
      BY <1>6, <2>2
    <3> HIDE DEF d
    <3> QED
      BY <1>3, <3>1, <3>2
  <2> QED
    BY <2>1, <2>2
<1> HIDE DEF d
<1>11. DigitsUp(v, base) \in Seq(DigitSet) /\ Reverse(DigitsUp(v, base)) = d
  BY <1>2, <1>6, <1>7
<1> QED
  BY <1>8, <1>9, <1>10, <1>11 DEF Written

LEMMA AllWritten ==
  ASSUME NEW base \in Bases
  PROVE  \A v \in Nat : Written(v, base)
<1> DEFINE T == {v \in Nat : ~Written(v, base)}
<1>1. SUFFICES ASSUME T # {} PROVE FALSE
  OBVIOUS
<1>2. PICK x \in T : \A y \in T : x <= y
  <2>1. T \subseteq Nat
    OBVIOUS
  <2> QED
    BY <1>1, <2>1, Least
<1>3. Written(0, base)
  <2>1. DigitsUp(0, base) = <<>>
    BY DigitsStep
  <2>2. Reverse(<<>>) = <<>>
    BY DEF Reverse
  <2>3. DigitsUp(0, base) \in Seq(DigitSet) /\ Reverse(DigitsUp(0, base)) = <<>>
    <3>1. <<>> \in Seq(DigitSet)
      OBVIOUS
    <3> HIDE DEF Reverse
    <3> QED
      BY <2>1, <2>2, <3>1, Zenon
  <2> DEFINE d == Reverse(DigitsUp(0, base))
  <2>4. Len(d) = 0 /\ ValueOf(d, base) = 0
    BY <2>3, ValueOfNone
  <2> HIDE DEF d
  <2>5. \A i \in 1 .. Len(d) : \E j \in 0 .. base - 1 : d[i] = Digit[j + 1]
    BY <2>4
  <2> QED
    BY <2>3, <2>4, <2>5 DEF Written, d
<1>4. x # 0
  BY <1>2, <1>3
<1>5. x \div base \in Nat /\ x \div base < x
  BY <1>2, <1>4, QuotientSmaller
<1>6. Written(x \div base, base)
  <2> DEFINE q == x \div base
  <2>1. q \in Nat /\ ~(x <= q)
    BY <1>2, <1>5
  <2> HIDE DEF q
  <2>2. Written(q, base)
    BY <1>2, <2>1
  <2> QED
    BY <2>2 DEF q
<1> QED
  BY <1>2, <1>4, <1>6, WrittenMore

\* The digits print_uint has before it pads.
Unpadded(v, base) == IF v = 0 THEN <<"0">> ELSE DigitsUp(v, base)

LEMMA UnpaddedNumeral ==
  ASSUME NEW base \in Bases, NEW v \in Nat
  PROVE  /\ Unpadded(v, base) \in Seq(DigitSet) /\ Unpadded(v, base) # <<>>
         /\ IsNumeral(Reverse(Unpadded(v, base)), v, base)
<1>1. CASE v # 0
  <2>1. Written(v, base)
    BY AllWritten
  <2>2. DigitsUp(v, base) # <<>>
    BY <1>1, DigitsStep, <2>1 DEF Written, Reverse
  <2> QED
    BY <1>1, <2>1, <2>2 DEF Unpadded, Written, IsNumeral
<1>2. CASE v = 0
  <2>1. "0" \in DigitSet /\ DigitValue("0") = 0 /\ "0" = Digit[0 + 1]
    BY DigitsApart DEF DigitSet
  <2>2. <<"0">> = Append(<<>>, "0") /\ <<>> \in Seq(DigitSet)
    OBVIOUS
  <2>3. ValueOf(<<"0">>, base) = ValueOf(<<>>, base) * base + DigitValue("0")
    BY <2>1, <2>2, ValueOneMore
  <2>4. ValueOf(<<"0">>, base) = 0
    BY <2>1, <2>3, ValueOfNone DEF Bases
  <2>5. Reverse(<<"0">>) = <<"0">>
    <3>1. Reverse(<<"0">> \o <<>>) = Append(Reverse(<<>>), "0")
      BY <2>1, <2>2, ReverseFirst
    <3>2. <<"0">> \o <<>> = <<"0">> /\ Reverse(<<>>) = <<>>
      BY DEF Reverse
    <3> QED
      BY <2>2, <3>1, <3>2
  <2>6. \A i \in 1 .. Len(<<"0">>) : \E j \in 0 .. base - 1 : <<"0">>[i] = Digit[j + 1]
    <3>1. 0 \in 0 .. base - 1
      BY DEF Bases
    <3> QED
      BY <2>1, <3>1
  <2>7. <<"0">> # <<>> /\ Len(<<"0">>) = 1 /\ <<"0">> \in Seq(DigitSet)
    BY <2>1
  <2> DEFINE z == <<"0">>
  <2>8. Unpadded(v, base) = z /\ Reverse(z) = z
    BY <1>2, <2>5 DEF Unpadded
  <2> HIDE DEF z
  <2>9. IsNumeral(z, v, base)
    BY <1>2, <2>4, <2>6, <2>7 DEF IsNumeral, z
  <2> QED
    BY <2>7, <2>8, <2>9 DEF z
<1> QED
  BY <1>1, <1>2

\* Padding put behind the digits comes out in front of them.
LEMMA PaddedReverse ==
  ASSUME NEW S, NEW s \in Seq(S), NEW m \in Nat, NEW pad
  PROVE  LET t == Reverse(s \o [i \in 1 .. m |-> pad]) IN
         /\ Len(t) = m + Len(s) /\ \A i \in 1 .. m : t[i] = pad
         /\ SubSeq(t, m + 1, Len(t)) = Reverse(s)
<1> DEFINE spaces == [i \in 1 .. m |-> pad]  w == s \o spaces  t == Reverse(w)  n == Len(s)  r == Reverse(s)
<1>1. n \in Nat /\ spaces \in Seq({pad}) /\ Len(spaces) = m
  OBVIOUS
<1>2. Len(w) = n + m /\ (\A i \in 1 .. n : w[i] = s[i]) /\ \A i \in n + 1 .. n + m : w[i] = pad
  <2>1. s \in Seq(S \cup {pad}) /\ spaces \in Seq(S \cup {pad})
    BY <1>1
  <2>2. \A i \in 1 .. m : spaces[i] = pad
    OBVIOUS
  <2> HIDE DEF spaces
  <2>3. Len(w) = n + m /\ (\A i \in 1 .. n : w[i] = s[i]) /\ \A i \in n + 1 .. n + m : w[i] = spaces[i - n]
    BY <1>1, <2>1
  <2>4. \A i \in n + 1 .. n + m : i - n \in 1 .. m
    BY <1>1
  <2> QED
    BY <2>2, <2>3, <2>4
<1> HIDE DEF spaces, w, n
<1>3. t = [i \in 1 .. n + m |-> w[((n + m) - i) + 1]] /\ r = [i \in 1 .. n |-> s[(n - i) + 1]]
  BY <1>1, <1>2 DEF Reverse, n
<1>4. Len(t) = n + m /\ \A i \in 1 .. n + m : t[i] = w[((n + m) - i) + 1]
  <2> HIDE DEF t
  <2> QED
    BY <1>1, <1>3
<1> HIDE DEF t, r
<1>5. \A i \in 1 .. m : t[i] = pad
  <2>1. TAKE i \in 1 .. m
  <2>2. i \in 1 .. n + m /\ ((n + m) - i) + 1 \in n + 1 .. n + m
    BY <1>1
  <2> QED
    BY <1>2, <1>4, <2>2
<1>6. \A i \in 1 .. n : t[i + m] = s[(n - i) + 1]
  <2>1. TAKE i \in 1 .. n
  <2>2. i + m \in 1 .. n + m /\ ((n + m) - (i + m)) + 1 = (n - i) + 1 /\ (n - i) + 1 \in 1 .. n
    BY <1>1
  <2> QED
    BY <1>2, <1>4, <2>2
<1>7. SubSeq(t, m + 1, n + m) = [i \in 1 .. n |-> t[i + m]]
  <2> DEFINE U == S \cup {pad}  z == SubSeq(t, m + 1, n + m)
  <2>1. \A i \in m + 1 .. n + m : t[i] \in U
    <3>1. TAKE i \in m + 1 .. n + m
    <3>2. i \in 1 .. n + m /\ ((n + m) - i) + 1 \in 1 .. n
      BY <1>1
    <3>3. s[((n + m) - i) + 1] \in S
      BY <3>2 DEF n
    <3> QED
      BY <1>2, <1>4, <3>2, <3>3
  <2>2. m + 1 \in Int /\ n + m \in Int /\ ((n + m) - (m + 1)) + 1 = n
        /\ (IF m + 1 <= n + m THEN ((n + m) - (m + 1)) + 1 ELSE 0) = n
        /\ \A i \in 1 .. n : ((m + 1) + i) - 1 = i + m
    BY <1>1
  <2> HIDE DEF U
  <2>3. z \in Seq(U) /\ Len(z) = (IF m + 1 <= n + m THEN ((n + m) - (m + 1)) + 1 ELSE 0)
        /\ \A i \in 1 .. ((n + m) - (m + 1)) + 1 : z[i] = t[((m + 1) + i) - 1]
    <3> DEFINE lo == m + 1  hi == n + m
    <3>1. lo \in Int /\ hi \in Int /\ \A i \in lo .. hi : t[i] \in U
      BY <2>1, <2>2
    <3> HIDE DEF lo, hi
    <3>2. SubSeq(t, lo, hi) \in Seq(U) /\ Len(SubSeq(t, lo, hi)) = (IF lo <= hi THEN (hi - lo) + 1 ELSE 0)
          /\ \A i \in 1 .. (hi - lo) + 1 : SubSeq(t, lo, hi)[i] = t[(lo + i) - 1]
      BY <3>1, SubSeqProperties
    <3> QED
      BY <3>2 DEF lo, hi
  <2> HIDE DEF z
  <2>4. z \in [1 .. n -> U]
    BY <2>2, <2>3, LenProperties
  <2>5. \A i \in 1 .. n : z[i] = t[i + m]
    BY <2>2, <2>3
  <2> QED
    BY <2>4, <2>5 DEF z
<1>8. SubSeq(t, m + 1, n + m) = r
  BY <1>3, <1>6, <1>7
<1>9. n + m = m + n
  BY <1>1
<1> QED
  BY <1>4, <1>5, <1>8, <1>9 DEF t, w, spaces, n, r

LEMMA PaddingCount ==
  ASSUME NEW w \in Nat, NEW n \in Nat
  PROVE  Max({0, w - n}) = IF w > n THEN w - n ELSE 0
<1>1. \A x \in {0, w - n} : (\A y \in {0, w - n} : x >= y) <=> x = (IF w > n THEN w - n ELSE 0)
  OBVIOUS
<1>2. (IF w > n THEN w - n ELSE 0) \in {0, w - n}
  OBVIOUS
<1> QED
  BY <1>1, <1>2 DEF Max

\* Every number comes out as digits that stand for it, in either base and with
\* any width and padding (vga.c:108-122).
THEOREM NumberShown ==
  ASSUME NEW base \in {10, 16}, NEW v \in Nat, NEW width \in Nat, NEW pad
  PROVE  ShowsNumber(PrintUint(v, base, width, pad), v, base, width, pad)
<1> DEFINE d == Unpadded(v, base)  n == Len(d)  m == IF width > n THEN width - n ELSE 0
           s == PrintUint(v, base, width, pad)
<1>1. d \in Seq(DigitSet) /\ n \in Nat \ {0} /\ IsNumeral(Reverse(d), v, base)
  <2>1. base \in Bases
    BY DEF Bases
  <2>2. d \in Seq(DigitSet) /\ d # <<>> /\ IsNumeral(Reverse(d), v, base)
    BY <2>1, UnpaddedNumeral
  <2> HIDE DEF d
  <2>3. Len(d) \in Nat \ {0}
    BY <2>2
  <2> QED
    BY <2>2, <2>3
<1>2. s = Reverse(d \o [i \in 1 .. Max({0, width - n}) |-> pad])
  BY DEF PrintUint, Unpadded
<1> HIDE DEF d, s
<1>3. s = Reverse(d \o [i \in 1 .. m |-> pad])
  BY <1>1, <1>2, PaddingCount
<1>4. m \in Nat /\ (m > 0 => m + n = width) /\ m + n >= width
  BY <1>1
<1> HIDE DEF m
<1>5. Len(s) = m + n /\ (\A i \in 1 .. m : s[i] = pad) /\ SubSeq(s, m + 1, Len(s)) = Reverse(d)
  <2>1. LET t == Reverse(d \o [i \in 1 .. m |-> pad]) IN
        /\ Len(t) = m + Len(d) /\ \A i \in 1 .. m : t[i] = pad
        /\ SubSeq(t, m + 1, Len(t)) = Reverse(d)
    BY <1>1, <1>4, PaddedReverse
  <2> QED
    BY <1>3, <2>1
<1> HIDE DEF n
<1>6. m \in 0 .. Len(s) /\ Len(s) >= width /\ (m > 0 => Len(s) = width)
  BY <1>1, <1>4, <1>5
<1> QED
  BY <1>1, <1>5, <1>6 DEF ShowsNumber, s

LEMMA ReverseSeq ==
  ASSUME NEW S, NEW s \in Seq(S)
  PROVE  Reverse(s) \in Seq(S)
<1> DEFINE n == Len(s)
<1>1. n \in Nat /\ \A k \in 1 .. n : (n - k) + 1 \in 1 .. n /\ s[(n - k) + 1] \in S
  OBVIOUS
<1>2. Reverse(s) = [k \in 1 .. n |-> s[(n - k) + 1]]
  BY DEF Reverse
<1> HIDE DEF n
<1> QED
  BY <1>1, <1>2

\* A bound a base times higher costs one digit more.
LEMMA DigitMore ==
  ASSUME NEW base \in Bases, NEW b \in Nat, NEW n \in Nat,
         \A v \in Nat : v < b => Len(DigitsUp(v, base)) <= n
  PROVE  \A v \in Nat : v < base * b => Len(DigitsUp(v, base)) <= n + 1
<1> SUFFICES ASSUME NEW v \in Nat, v < base * b PROVE Len(DigitsUp(v, base)) <= n + 1
  OBVIOUS
<1>1. CASE v = 0
  <2>1. DigitsUp(v, base) = <<>>
    BY <1>1, DigitsStep
  <2> QED
    BY <2>1
<1>2. CASE v # 0
  <2> DEFINE q == v \div base  s == DigitsUp(q, base)  c == Digit[(v % base) + 1]
  <2>1. q \in Nat /\ q < b
    <3>1. q \in Nat /\ v % base \in 0 .. base - 1 /\ v = q * base + (v % base)
      BY <1>2, QuotientSmaller
    <3>2. base \in Nat \ {0}
      BY DEF Bases
    <3> HIDE DEF q
    <3>3. SUFFICES ASSUME q >= b PROVE FALSE
      BY <3>1
    <3>4. q * base >= b * base
      BY <3>1, <3>2, <3>3
    <3> QED
      BY <3>1, <3>2, <3>4
  <2>2. DigitsUp(v, base) = <<c>> \o s
    BY <1>2, DigitsStep
  <2> HIDE DEF q
  <2>3. Len(s) <= n /\ s \in Seq(DigitSet)
    BY <2>1, AllWritten DEF Written
  <2> HIDE DEF s
  <2>4. Len(<<c>> \o s) = 1 + Len(s) /\ Len(s) \in Nat
    BY <2>3
  <2> QED
    BY <2>2, <2>3, <2>4
<1> QED
  BY <1>1, <1>2

\* The numbers of 32 bits.
Words == {v \in Nat : v < 4 * 1024 * 1024 * 1024}

\* A 32-bit number has at most ten digits.
LEMMA TenDigits ==
  ASSUME NEW base \in Bases, NEW v \in Words
  PROVE  Len(Unpadded(v, base)) <= 10
<1> DEFINE Fits(b, n) == \A u \in Nat : u < b => Len(DigitsUp(u, base)) <= n
<1>1. Fits(1, 0)
  <2>1. DigitsUp(0, base) = <<>>
    BY DigitsStep
  <2> QED
    BY <2>1
<1>2. \A b \in Nat, n \in Nat : Fits(b, n) => Fits(base * b, n + 1)
  BY DigitMore
<1> HIDE DEF Fits
<1>3. \A b \in Nat, n \in Nat : Fits(b, n) => Fits(base * (base * b), n + 2)
  <2>1. SUFFICES ASSUME NEW b \in Nat, NEW n \in Nat, Fits(b, n)
                 PROVE  Fits(base * (base * b), n + 2)
    OBVIOUS
  <2>2. base * b \in Nat /\ (n + 1) + 1 = n + 2
    BY DEF Bases
  <2>3. Fits(base * b, n + 1)
    BY <1>2, <2>1
  <2>4. Fits(base * (base * b), (n + 1) + 1)
    BY <1>2, <2>2, <2>3
  <2> QED
    BY <2>2, <2>4
<1>4. CASE base = 10
  <2>1. Fits(10 * 10, 2)
    BY <1>1, <1>3, <1>4, SMT
  <2>2. Fits(10 * 10 * 10 * 10, 4)
    BY <2>1, <1>3, <1>4, SMT
  <2>3. Fits(100 * 100 * 100, 6)
    BY <2>2, <1>3, <1>4, SMT
  <2>4. Fits(100 * 100 * 100 * 100, 8)
    BY <2>3, <1>3, <1>4, SMT
  <2>5. Fits(100 * 100 * 100 * 100 * 100, 10)
    BY <2>4, <1>3, <1>4, SMT
  <2>6. v \in Nat /\ v < 100 * 100 * 100 * 100 * 100
    BY SMT DEF Words
  <2>7. Len(DigitsUp(v, base)) <= 10
    BY <2>5, <2>6, SMT DEF Fits
  <2> QED
    BY <2>7 DEF Unpadded
<1>5. CASE base = 16
  <2>1. Fits(16 * 16, 2)
    BY <1>1, <1>3, <1>5, SMT
  <2>2. Fits(16 * 16 * 16 * 16, 4)
    BY <2>1, <1>3, <1>5, SMT
  <2>3. Fits(256 * 256 * 256, 6)
    BY <2>2, <1>3, <1>5, SMT
  <2>4. Fits(256 * 256 * 256 * 256, 8)
    BY <2>3, <1>3, <1>5, SMT
  <2>5. v \in Nat /\ v < 256 * 256 * 256 * 256
    BY SMT DEF Words
  <2>6. Len(DigitsUp(v, base)) <= 8
    BY <2>4, <2>5, SMT DEF Fits
  <2>7. Len(DigitsUp(v, base)) \in Nat
    BY <2>5, AllWritten DEF Written
  <2>8. Len(DigitsUp(v, base)) <= 10
    BY <2>6, <2>7
  <2> QED
    BY <2>8 DEF Unpadded
<1> QED
  BY <1>4, <1>5 DEF Bases

\* The characters are digits and padding.
LEMMA PrintsCharacters ==
  ASSUME NEW base \in {10, 16}, NEW v \in Nat, NEW width \in Nat, NEW pad
  PROVE  PrintUint(v, base, width, pad) \in Seq(DigitSet \cup {pad})
<1> DEFINE d == Unpadded(v, base)  n == Len(d)  m == Max({0, width - n})  t == d \o [i \in 1 .. m |-> pad]
<1>1. d \in Seq(DigitSet) /\ n \in Nat
  <2>1. base \in Bases
    BY DEF Bases
  <2>2. d \in Seq(DigitSet)
    BY <2>1, UnpaddedNumeral
  <2> HIDE DEF d
  <2> QED
    BY <2>2
<1>2. m \in Nat
  <2> HIDE DEF n
  <2>1. m = IF width > n THEN width - n ELSE 0
    BY <1>1, PaddingCount
  <2> HIDE DEF m
  <2> QED
    BY <1>1, <2>1
<1>3. PrintUint(v, base, width, pad) = Reverse(t)
  BY DEF PrintUint, Unpadded
<1> HIDE DEF d, m
<1>4. t \in Seq(DigitSet \cup {pad})
  <2>1. d \in Seq(DigitSet \cup {pad}) /\ [i \in 1 .. m |-> pad] \in Seq(DigitSet \cup {pad})
    BY <1>1, <1>2
  <2> QED
    BY <2>1
<1> HIDE DEF t
<1>5. Reverse(t) \in Seq(DigitSet \cup {pad})
  BY <1>4, ReverseSeq
<1> QED
  BY <1>3, <1>5

\* The digits of a 32-bit number and the padding of a width of up to twelve
\* stay inside buf (vga.c:109, 111-120).
THEOREM NumberFitsBuffer ==
  ASSUME NEW base \in {10, 16}, NEW v \in Words, NEW width \in 0 .. 12, NEW pad
  PROVE  Len(PrintUint(v, base, width, pad)) <= 12
<1> DEFINE d == Unpadded(v, base)  n == Len(d)  m == IF width > n THEN width - n ELSE 0
           s == PrintUint(v, base, width, pad)
<1>1. d \in Seq(DigitSet) /\ n \in Nat /\ n <= 10 /\ width \in Nat
  <2>1. base \in Bases /\ v \in Nat /\ width \in Nat
    BY DEF Bases, Words
  <2>2. d \in Seq(DigitSet) /\ Len(d) <= 10
    BY <2>1, UnpaddedNumeral, TenDigits
  <2> HIDE DEF d
  <2> QED
    BY <2>1, <2>2
<1>2. s = Reverse(d \o [i \in 1 .. Max({0, width - n}) |-> pad])
  BY DEF PrintUint, Unpadded
<1> HIDE DEF d, s
<1>3. s = Reverse(d \o [i \in 1 .. m |-> pad])
  BY <1>1, <1>2, PaddingCount
<1>4. m \in Nat /\ m + n <= 12
  BY <1>1
<1> HIDE DEF m
<1>5. LET t == Reverse(d \o [i \in 1 .. m |-> pad]) IN
      /\ Len(t) = m + Len(d) /\ \A i \in 1 .. m : t[i] = pad
      /\ SubSeq(t, m + 1, Len(t)) = Reverse(d)
  BY <1>1, <1>4, PaddedReverse
<1> QED
  BY <1>3, <1>4, <1>5 DEF s

\* So does every int: a sign in front of the magnitude, also of the most
\* negative one, whose negation does not fit an int (vga.c:124-131).
THEOREM IntShown ==
  ASSUME NEW v \in 0 .. IntMod - 1, NEW width \in Nat, NEW pad
  PROVE  ShowsInt(PrintInt(v, width, pad), v, width, pad)
<1>1. IntMod \in Nat /\ IntMod \div 2 \in Nat
  BY IntAssumption, DivMod
<1>2. CASE v >= IntMod \div 2
  <2> DEFINE w == IF width > 0 THEN width - 1 ELSE 0  s == PrintUint(IntMod - v, 10, w, pad)
  <2>1. w \in Nat /\ IntMod - v \in Nat
    BY <1>1
  <2>2. ShowsNumber(s, IntMod - v, 10, w, pad)
    BY <2>1, NumberShown
  <2>3. PrintInt(v, width, pad) = <<"-">> \o s
    BY <1>2 DEF PrintInt
  <2>4. Max({0, width - 1}) = w
    <3>1. Max({0, width - 1}) = IF width > 1 THEN width - 1 ELSE 0
      BY PaddingCount
    <3>2. w = IF width > 1 THEN width - 1 ELSE 0
      OBVIOUS
    <3> QED
      BY <3>1, <3>2
  <2>5. s \in Seq(DigitSet \cup {pad})
    BY <2>1, PrintsCharacters
  <2> HIDE DEF s, w
  <2>6. <<"-">> \o s # <<>> /\ (<<"-">> \o s)[1] = "-" /\ Tail(<<"-">> \o s) = s
    BY <2>5
  <2> QED
    BY <1>2, <2>2, <2>3, <2>4, <2>6 DEF ShowsInt
<1>3. CASE ~(v >= IntMod \div 2)
  <2>1. PrintInt(v, width, pad) = PrintUint(v, 10, width, pad)
    BY <1>3 DEF PrintInt
  <2> QED
    BY <1>1, <1>3, <2>1, NumberShown DEF ShowsInt
<1> QED
  BY <1>2, <1>3

------------------------------------------------------------------------------
(* The lines printf makes of a format. *)

\* What the first n items print, from what those before them do, up to n.
PrintedTo(fmt, args, h, n) ==
  h = [k \in 0 .. n |-> IF k = 0 THEN [text |-> <<>>, rest |-> args] ELSE PrintItem(h[k - 1], fmt[k])]

\* Two such functions agree where both are defined.
LEMMA PrintedAgree ==
  ASSUME NEW fmt, NEW args, NEW m \in Nat, NEW n \in Nat, NEW g, NEW h,
         PrintedTo(fmt, args, g, m), PrintedTo(fmt, args, h, n)
  PROVE  \A k \in 0 .. m : k <= n => g[k] = h[k]
<1> DEFINE T == {k \in Nat : k <= m /\ k <= n /\ g[k] # h[k]}
<1>1. SUFFICES ASSUME T # {} PROVE FALSE
  OBVIOUS
<1>2. PICK x \in T : \A y \in T : x <= y
  <2>1. T \subseteq Nat
    OBVIOUS
  <2> QED
    BY <1>1, <2>1, Least
<1>3. x \in 0 .. m /\ x \in 0 .. n /\ g[x] # h[x]
  BY <1>2
<1>4. /\ g[x] = IF x = 0 THEN [text |-> <<>>, rest |-> args] ELSE PrintItem(g[x - 1], fmt[x])
      /\ h[x] = IF x = 0 THEN [text |-> <<>>, rest |-> args] ELSE PrintItem(h[x - 1], fmt[x])
  BY <1>3 DEF PrintedTo
<1>5. x # 0
  BY <1>3, <1>4
<1>6. g[x - 1] = h[x - 1]
  <2>1. x - 1 \in Nat /\ x - 1 <= m /\ x - 1 <= n /\ ~(x <= x - 1)
    BY <1>3, <1>5
  <2> QED
    BY <1>2, <2>1
<1> QED
  BY <1>3, <1>4, <1>5, <1>6

\* There is one up to every number.
LEMMA PrintedExists ==
  ASSUME NEW fmt, NEW args
  PROVE  \A n \in Nat : \E h : PrintedTo(fmt, args, h, n)
<1> DEFINE T == {n \in Nat : ~ \E h : PrintedTo(fmt, args, h, n)}
           none == [text |-> <<>>, rest |-> args]
           On(h, k) == IF k = 0 THEN none ELSE PrintItem(h[k - 1], fmt[k])
<1> HIDE DEF none
<1>1. SUFFICES ASSUME T # {} PROVE FALSE
  OBVIOUS
<1>2. PICK x \in T : \A y \in T : x <= y
  <2>1. T \subseteq Nat
    OBVIOUS
  <2> QED
    BY <1>1, <2>1, Least
<1>3. x # 0
  <2> DEFINE h == [k \in 0 .. 0 |-> none]
  <2>1. \A k \in 0 .. 0 : On(h, k) = none
    OBVIOUS
  <2>2. h = [k \in 0 .. 0 |-> On(h, k)]
    BY <2>1
  <2> QED
    BY <1>2, <2>2 DEF PrintedTo, none
<1>4. PICK g : PrintedTo(fmt, args, g, x - 1)
  <2>1. x - 1 \in Nat /\ ~(x <= x - 1)
    BY <1>2, <1>3
  <2> QED
    BY <1>2, <2>1
<1> DEFINE h == [k \in 0 .. x |-> On(g, k)]
<1>5. \A k \in 0 .. x - 1 : h[k] = g[k]
  BY <1>2, <1>4 DEF PrintedTo, none
<1>6. \A k \in 0 .. x : On(h, k) = On(g, k)
  <2>1. TAKE k \in 0 .. x
  <2>2. k # 0 => k - 1 \in 0 .. x - 1
    BY <1>2
  <2>3. k # 0 => h[k - 1] = g[k - 1]
    BY <1>5, <2>2
  <2> HIDE DEF h
  <2> QED
    BY <2>3
<1>7. h = [k \in 0 .. x |-> On(h, k)]
  BY <1>6
<1> HIDE DEF h
<1>8. PrintedTo(fmt, args, h, x)
  BY <1>7 DEF PrintedTo, none
<1> QED
  BY <1>2, <1>8

\* Nothing at first, and each item after those before it.
LEMMA PrintedStep ==
  ASSUME NEW fmt, NEW args
  PROVE  /\ Printed(fmt, args, 0) = [text |-> <<>>, rest |-> args]
         /\ \A k \in Nat : Printed(fmt, args, k + 1) = PrintItem(Printed(fmt, args, k), fmt[k + 1])
<1> DEFINE none == [text |-> <<>>, rest |-> args]
           On(h, k) == IF k = 0 THEN none ELSE PrintItem(h[k - 1], fmt[k])
           Part(m) == CHOOSE h : PrintedTo(fmt, args, h, m)
           all == [m \in Nat |-> Part(m)[m]]
           Recursive(r) == r = [k \in Nat |-> IF k = 0 THEN [text |-> <<>>, rest |-> args]
                                              ELSE PrintItem(r[k - 1], fmt[k])]
           upTo == CHOOSE r : Recursive(r)
<1> HIDE DEF none
<1>1. \A m \in Nat : PrintedTo(fmt, args, Part(m), m)
  BY PrintedExists
<1> HIDE DEF Part
<1>2. \A k \in Nat : all[k] = On(all, k)
  <2>1. TAKE k \in Nat
  <2>2. Part(k)[k] = On(Part(k), k)
    <3>1. PrintedTo(fmt, args, Part(k), k) /\ k \in 0 .. k
      BY <1>1
    <3> QED
      BY <3>1 DEF PrintedTo, none
  <2>3. k # 0 => Part(k)[k - 1] = Part(k - 1)[k - 1]
    <3>1. SUFFICES ASSUME k # 0 PROVE Part(k)[k - 1] = Part(k - 1)[k - 1]
      OBVIOUS
    <3> DEFINE j == k - 1
    <3>2. j \in Nat /\ j \in 0 .. j /\ j <= k
      BY <3>1
    <3> HIDE DEF j
    <3>3. PrintedTo(fmt, args, Part(j), j) /\ PrintedTo(fmt, args, Part(k), k)
      BY <1>1, <3>2
    <3>4. \A i \in 0 .. j : i <= k => Part(j)[i] = Part(k)[i]
      BY <3>2, <3>3, PrintedAgree
    <3>5. Part(k)[j] = Part(j)[j]
      BY <3>2, <3>4
    <3> QED
      BY <3>5 DEF j
  <2>4. k # 0 => all[k - 1] = Part(k - 1)[k - 1]
    OBVIOUS
  <2>5. all[k] = Part(k)[k]
    OBVIOUS
  <2> HIDE DEF all
  <2> QED
    BY <2>2, <2>3, <2>4, <2>5
<1>3. Recursive(all)
  <2>1. all = [k \in Nat |-> all[k]]
    OBVIOUS
  <2> HIDE DEF all
  <2>2. all = [k \in Nat |-> On(all, k)]
    BY <1>2, <2>1
  <2> QED
    BY <2>2 DEF none
<1> HIDE DEF all
<1>4. Recursive(upTo)
  <2> HIDE DEF Recursive
  <2> QED
    BY <1>3
<1>5. \A k \in Nat : Printed(fmt, args, k) = upTo[k]
  BY DEF Printed
<1> HIDE DEF upTo
<1>6. \A k \in Nat : upTo[k] = On(upTo, k)
  BY <1>4 DEF none
<1>7. Printed(fmt, args, 0) = none
  BY <1>5, <1>6
<1>8. ASSUME NEW k \in Nat
      PROVE  Printed(fmt, args, k + 1) = PrintItem(Printed(fmt, args, k), fmt[k + 1])
  <2>1. k + 1 \in Nat /\ k + 1 # 0 /\ (k + 1) - 1 = k
    OBVIOUS
  <2>2. upTo[k + 1] = PrintItem(upTo[(k + 1) - 1], fmt[k + 1])
    BY <1>6, <2>1
  <2> QED
    BY <1>5, <2>1, <2>2
<1> QED
  BY <1>7, <1>8 DEF none

\* What is printed and what is left.
Out(t, r) == [text |-> t, rest |-> r]

\* An item more of fixed text.
LEMMA PlainMore ==
  ASSUME NEW t, NEW r, NEW c
  PROVE  PrintItem(Out(t, r), Plain(c)) = Out(t \o <<c>>, r)
<1> DEFINE f == Plain(c)
<1>1. f.conv = "plain" /\ f.text = c
  BY DEF Plain
<1> HIDE DEF f
<1>2. f.conv \notin TakesArgument /\ Converted(f, 0) = <<c>>
  BY <1>1 DEF TakesArgument, Converted
<1>3. PrintItem(Out(t, r), f) = Out(t \o <<c>>, r)
  BY <1>2 DEF PrintItem, Out
<1> QED
  BY <1>3 DEF f

\* A directive more.
LEMMA DirectiveMore ==
  ASSUME NEW t, NEW r, NEW f, f.conv \in TakesArgument
  PROVE  PrintItem(Out(t, r), f) = Out(t \o Converted(f, Head(r)), Tail(r))
BY DEF PrintItem, Out

\* The conversions the commands use.
LEMMA Conversions ==
  ASSUME NEW x, NEW w, NEW q
  PROVE  /\ Converted(Conv("u"), x) = PrintUint(x, 10, 0, Space)
         /\ Converted(Field("x", w, q), x) = PrintUint(x, 16, w, q)
         /\ Converted(Conv("s"), {<<x>>}) = <<x>>
         /\ Conv("u").conv \in TakesArgument /\ Conv("s").conv \in TakesArgument
         /\ Field("x", w, q).conv \in TakesArgument
<1>1. /\ Conv("u").conv = "u" /\ Conv("u").width = 0 /\ Conv("u").pad = Space
      /\ Conv("s").conv = "s" /\ Field("x", w, q).conv = "x"
      /\ Field("x", w, q).width = w /\ Field("x", w, q).pad = q
  BY DEF Conv, Field
<1> DEFINE fu == Conv("u")  fs == Conv("s")  fx == Field("x", w, q)
<1> HIDE DEF fu, fs, fx
<1>2. fu.conv = "u" /\ fu.width = 0 /\ fu.pad = Space /\ fs.conv = "s"
      /\ fx.conv = "x" /\ fx.width = w /\ fx.pad = q
  BY <1>1 DEF fu, fs, fx
<1>3. Converted(fu, x) = PrintUint(x, 10, 0, Space)
  BY <1>2 DEF Converted
<1>4. Converted(fx, x) = PrintUint(x, 16, w, q)
  BY <1>2 DEF Converted
<1>5. Converted(fs, {<<x>>}) = <<x>>
  <2>1. (CHOOSE s \in {<<x>>} : TRUE) = <<x>>
    OBVIOUS
  <2>2. Converted(fs, {<<x>>}) = CHOOSE s \in {<<x>>} : TRUE
    BY <1>2 DEF Converted
  <2> QED
    BY <2>1, <2>2
<1> QED
  BY <1>2, <1>3, <1>4, <1>5 DEF TakesArgument, fu, fs, fx

\* ticks prints the whole number of ticks, as digits without padding
\* (shell.c:84-88, vga.c:133-196).
THEOREM TicksShown ==
  ASSUME NEW ticks \in Nat
  PROVE  \E d : /\ TicksText(ticks) = <<"System ticks: ">> \o d \o <<NL>>
                /\ ShowsNumber(d, ticks, 10, 0, Space)
<1> DEFINE f1 == Plain("System ticks: ")  f2 == Conv("u")  f3 == Plain(NL)
           fmt == <<f1, f2, f3>>  args == <<ticks>>  d == PrintUint(ticks, 10, 0, Space)
<1> HIDE DEF f1, f2, f3
<1>1. fmt[1] = f1 /\ fmt[2] = f2 /\ fmt[3] = f3 /\ Len(fmt) = 3 /\ Head(args) = ticks
  OBVIOUS
<1>2. TicksText(ticks) = Printed(fmt, args, Len(fmt)).text
  BY DEF TicksText, VPrintf, f1, f2, f3
<1> HIDE DEF fmt, args, d
<1> DEFINE did(k) == Printed(fmt, args, k)
<1>3. did(0) = Out(<<>>, args) /\ \A k \in Nat : did(k + 1) = PrintItem(did(k), fmt[k + 1])
  BY PrintedStep DEF Out
<1> HIDE DEF did
<1>4. did(1) = PrintItem(did(0), f1) /\ did(2) = PrintItem(did(1), f2) /\ did(3) = PrintItem(did(2), f3)
  <2>1. did(0 + 1) = PrintItem(did(0), fmt[0 + 1]) /\ did(1 + 1) = PrintItem(did(1), fmt[1 + 1])
        /\ did(2 + 1) = PrintItem(did(2), fmt[2 + 1])
    BY <1>3
  <2> QED
    BY <1>1, <2>1
<1>5. did(1) = Out(<<"System ticks: ">>, args)
  <2>1. did(1) = Out(<<>> \o <<"System ticks: ">>, args)
    BY <1>3, <1>4, PlainMore DEF f1
  <2>2. <<>> \o <<"System ticks: ">> = <<"System ticks: ">>
    OBVIOUS
  <2> QED
    BY <2>1, <2>2
<1>6. did(2) = Out(<<"System ticks: ">> \o d, Tail(args))
  <2>1. f2.conv \in TakesArgument /\ Converted(f2, Head(args)) = d
    BY <1>1, Conversions DEF f2, d
  <2>2. PrintItem(did(1), f2) = Out(<<"System ticks: ">> \o Converted(f2, Head(args)), Tail(args))
    BY <1>5, <2>1, DirectiveMore
  <2> QED
    BY <1>4, <2>1, <2>2
<1>7. did(3) = Out(<<"System ticks: ">> \o d \o <<NL>>, Tail(args))
  BY <1>4, <1>6, PlainMore DEF f3
<1>8. TicksText(ticks) = <<"System ticks: ">> \o d \o <<NL>>
  <2> DEFINE t == <<"System ticks: ">> \o d \o <<NL>>
  <2>1. Printed(fmt, args, 3) = Out(t, Tail(args))
    BY <1>7 DEF did
  <2> HIDE DEF t
  <2>2. TicksText(ticks) = t
    BY <1>1, <1>2, <2>1 DEF Out
  <2> QED
    BY <2>2 DEF t
<1>9. ShowsNumber(d, ticks, 10, 0, Space)
  BY NumberShown DEF d
<1> QED
  BY <1>8, <1>9

\* The line mem prints of a region: from a to b, so called, c bytes.
LineOfRegion(a, b, kind, c) ==
  <<"  0x">> \o a \o <<" - 0x">> \o b \o <<": ">> \o <<kind>> \o <<" (">> \o c \o <<" bytes)">> \o <<NL>>

\* The ten items of that line, one after the other.
LEMMA EntryIsLine ==
  ASSUME NEW base, NEW end, NEW kind, NEW size
  PROVE  VPrintf(<<Plain("  0x"), Field("x", 8, "0"), Plain(" - 0x"), Field("x", 8, "0"), Plain(": "), Conv("s"),
                   Plain(" ("), Conv("u"), Plain(" bytes)"), Plain(NL)>>, <<base, end, {<<kind>>}, size>>)
           = LineOfRegion(PrintUint(base, 16, 8, "0"), PrintUint(end, 16, 8, "0"), kind,
                        PrintUint(size, 10, 0, Space))
<1> DEFINE hex == Field("x", 8, "0")  str == Conv("s")  num == Conv("u")
           f1 == Plain("  0x")  f3 == Plain(" - 0x")  f5 == Plain(": ")  f7 == Plain(" (")
           f9 == Plain(" bytes)")  f10 == Plain(NL)
           fmt == <<f1, hex, f3, hex, f5, str, f7, num, f9, f10>>
           r0 == <<base, end, {<<kind>>}, size>>  r1 == <<end, {<<kind>>}, size>>
           r2 == <<{<<kind>>}, size>>  r3 == <<size>>  r4 == <<>>
           a == PrintUint(base, 16, 8, "0")  b == PrintUint(end, 16, 8, "0")
           c == PrintUint(size, 10, 0, Space)
           t1 == <<"  0x">>        t2 == t1 \o a          t3 == t2 \o <<" - 0x">>
           t4 == t3 \o b           t5 == t4 \o <<": ">>   t6 == t5 \o <<kind>>
           t7 == t6 \o <<" (">>    t8 == t7 \o c          t9 == t8 \o <<" bytes)">>
           t10 == t9 \o <<NL>>
           did(k) == Printed(fmt, r0, k)
<1>1. /\ Head(r0) = base /\ Tail(r0) = r1 /\ Head(r1) = end /\ Tail(r1) = r2
      /\ Head(r2) = {<<kind>>} /\ Tail(r2) = r3 /\ Head(r3) = size /\ Tail(r3) = r4
  OBVIOUS
<1>2. /\ hex.conv \in TakesArgument /\ str.conv \in TakesArgument /\ num.conv \in TakesArgument
      /\ Converted(hex, base) = a /\ Converted(hex, end) = b
      /\ Converted(str, {<<kind>>}) = <<kind>> /\ Converted(num, size) = c
  BY Conversions
<1> HIDE DEF hex, str, num, f1, f3, f5, f7, f9, f10
<1>3. /\ Len(fmt) = 10 /\ fmt[1] = f1 /\ fmt[2] = hex /\ fmt[3] = f3 /\ fmt[4] = hex /\ fmt[5] = f5
      /\ fmt[6] = str /\ fmt[7] = f7 /\ fmt[8] = num /\ fmt[9] = f9 /\ fmt[10] = f10
  OBVIOUS
<1> HIDE DEF fmt, r0, r1, r2, r3, r4, a, b, c
<1>4. did(0) = Out(<<>>, r0) /\ \A k \in Nat : did(k + 1) = PrintItem(did(k), fmt[k + 1])
  BY PrintedStep DEF Out
<1> HIDE DEF did
<1>5. /\ did(1) = PrintItem(did(0), f1)   /\ did(2) = PrintItem(did(1), hex)
      /\ did(3) = PrintItem(did(2), f3)   /\ did(4) = PrintItem(did(3), hex)
      /\ did(5) = PrintItem(did(4), f5)   /\ did(6) = PrintItem(did(5), str)
      /\ did(7) = PrintItem(did(6), f7)   /\ did(8) = PrintItem(did(7), num)
      /\ did(9) = PrintItem(did(8), f9)   /\ did(10) = PrintItem(did(9), f10)
  <2>1. /\ did(0 + 1) = PrintItem(did(0), fmt[0 + 1]) /\ did(1 + 1) = PrintItem(did(1), fmt[1 + 1])
        /\ did(2 + 1) = PrintItem(did(2), fmt[2 + 1]) /\ did(3 + 1) = PrintItem(did(3), fmt[3 + 1])
        /\ did(4 + 1) = PrintItem(did(4), fmt[4 + 1]) /\ did(5 + 1) = PrintItem(did(5), fmt[5 + 1])
        /\ did(6 + 1) = PrintItem(did(6), fmt[6 + 1]) /\ did(7 + 1) = PrintItem(did(7), fmt[7 + 1])
        /\ did(8 + 1) = PrintItem(did(8), fmt[8 + 1]) /\ did(9 + 1) = PrintItem(did(9), fmt[9 + 1])
    BY <1>4
  <2> QED
    BY <1>3, <2>1
<1>6. did(1) = Out(t1, r0)
  <2>1. did(1) = Out(<<>> \o <<"  0x">>, r0)
    BY <1>4, <1>5, PlainMore DEF f1
  <2>2. <<>> \o <<"  0x">> = <<"  0x">>
    OBVIOUS
  <2> QED
    BY <2>1, <2>2
<1> HIDE DEF t1
<1>7. did(2) = Out(t2, r1)
  <2>1. PrintItem(did(1), hex) = Out(t1 \o Converted(hex, Head(r0)), Tail(r0))
    BY <1>2, <1>6, DirectiveMore
  <2> QED
    BY <1>1, <1>2, <1>5, <2>1
<1> HIDE DEF t2
<1>8. did(3) = Out(t3, r1)
  BY <1>5, <1>7, PlainMore DEF f3
<1> HIDE DEF t3
<1>9. did(4) = Out(t4, r2)
  <2>1. PrintItem(did(3), hex) = Out(t3 \o Converted(hex, Head(r1)), Tail(r1))
    BY <1>2, <1>8, DirectiveMore
  <2> QED
    BY <1>1, <1>2, <1>5, <2>1
<1> HIDE DEF t4
<1>10. did(5) = Out(t5, r2)
  BY <1>5, <1>9, PlainMore DEF f5
<1> HIDE DEF t5
<1>11. did(6) = Out(t6, r3)
  <2>1. PrintItem(did(5), str) = Out(t5 \o Converted(str, Head(r2)), Tail(r2))
    BY <1>2, <1>10, DirectiveMore
  <2> QED
    BY <1>1, <1>2, <1>5, <2>1
<1> HIDE DEF t6
<1>12. did(7) = Out(t7, r3)
  BY <1>5, <1>11, PlainMore DEF f7
<1> HIDE DEF t7
<1>13. did(8) = Out(t8, r4)
  <2>1. PrintItem(did(7), num) = Out(t7 \o Converted(num, Head(r3)), Tail(r3))
    BY <1>2, <1>12, DirectiveMore
  <2> QED
    BY <1>1, <1>2, <1>5, <2>1
<1> HIDE DEF t8
<1>14. did(9) = Out(t9, r4)
  BY <1>5, <1>13, PlainMore DEF f9
<1> HIDE DEF t9
<1>15. did(10) = Out(t10, r4)
  BY <1>5, <1>14, PlainMore DEF f10
<1> HIDE DEF t10
<1>16. VPrintf(fmt, r0) = t10
  <2>1. Printed(fmt, r0, 10) = Out(t10, r4)
    BY <1>15 DEF did
  <2> QED
    BY <1>3, <2>1 DEF VPrintf, Out
<1>17. t10 = LineOfRegion(a, b, kind, c)
  BY DEF LineOfRegion, t1, t2, t3, t4, t5, t6, t7, t8, t9, t10
<1> QED
  BY <1>16, <1>17 DEF fmt, r0, hex, str, num, f1, f3, f5, f7, f9, f10, a, b, c

\* mem names the first and the last byte of a region, its kind and its size,
\* where the low words it prints can (shell.c:71-77).
THEOREM RegionShown ==
  ASSUME NEW e, e.base \in Nat, e.length \in 1 .. IntMod - 1, e.base + e.length <= IntMod
  PROVE  \E a, b, c : /\ EntryText(e) = LineOfRegion(a, b, E820TypeStr(e.type), c)
                      /\ ShowsNumber(a, e.base, 16, 8, "0")
                      /\ ShowsNumber(b, e.base + e.length - 1, 16, 8, "0")
                      /\ ShowsNumber(c, e.length, 10, 0, Space)
<1> DEFINE base == e.base  size == e.length  end == base + size - 1  kind == E820TypeStr(e.type)
           a == PrintUint(base, 16, 8, "0")  b == PrintUint(end, 16, 8, "0")
           c == PrintUint(size, 10, 0, Space)
<1>1. IntMod \in Nat \ {0} /\ base \in 0 .. IntMod - 1 /\ size \in 0 .. IntMod - 1 /\ end \in 0 .. IntMod - 1
  BY IntAssumption
<1>2. base % IntMod = base /\ size % IntMod = size /\ end % IntMod = end
  <2> HIDE DEF base, size, end
  <2>1. \A x \in 0 .. IntMod - 1 : x % IntMod = x
    BY <1>1
  <2> QED
    BY <1>1, <2>1
<1>3. EntryText(e) = LineOfRegion(a, b, kind, c)
  <2>1. EntryText(e) = VPrintf(<<Plain("  0x"), Field("x", 8, "0"), Plain(" - 0x"), Field("x", 8, "0"), Plain(": "),
                                 Conv("s"), Plain(" ("), Conv("u"), Plain(" bytes)"), Plain(NL)>>,
                               <<base, end, {<<kind>>}, size>>)
    BY <1>2 DEF EntryText
  <2> HIDE DEF base, size, end, kind
  <2> QED
    BY <2>1, EntryIsLine
<1>4. ShowsNumber(a, base, 16, 8, "0") /\ ShowsNumber(b, end, 16, 8, "0") /\ ShowsNumber(c, size, 10, 0, Space)
  <2>1. base \in Nat /\ end \in Nat /\ size \in Nat
    BY <1>1
  <2> HIDE DEF base, end, size
  <2> QED
    BY <2>1, NumberShown
<1> HIDE DEF a, b, c
<1> QED
  BY <1>3, <1>4
==============================================================================
