-------------------------------- MODULE Shell --------------------------------
(***************************************************************************)
(* src/kernel/shell.c on the text console: the line editor, execute_cmd    *)
(* with its tokenizer, which cuts cmd_buf in place, the dispatch table and *)
(* echo.  One step prints one character.                                   *)
(***************************************************************************)
EXTENDS VgaText, SequencesExt

CONSTANTS
  NUL, DEL,
  Letters,    \* every other character a line can get
  Marks,      \* and those that only the messages have
  Prompt,     \* PROMPT
  CmdMaxLen,  \* CMD_MAX_LEN
  MaxArgs,    \* the length of argv, 16
  Command,    \* cmd_table: what the first word of a line runs
  Text,       \* what a command that only prints prints
  NoNewline, Help,  \* the options of echo
  MaxOdd      \* bound: the tabs and NULs typed into lines

\* What a line can hold, and what the console can be given.
LineChars == Letters \cup {Space, TAB, NUL}
Printable == Letters \cup Marks \cup {Space}
Output    == Printable \cup {NL, TAB, BS, NUL}

\* The longest line fits beside the prompt (8 + 64 <= 80, shell.c:13-14), and
\* no message has a carriage return.
ASSUME ShellAssumption ==
  /\ CmdMaxLen \in Nat \ {0} /\ MaxArgs \in Nat \ {0} /\ MaxOdd \in Nat
  /\ {NUL, DEL} \cap (Controls \cup {Space}) = {} /\ NUL # DEL
  /\ (Letters \cup Marks) \cap (Controls \cup {Space, NUL, DEL}) = {}
  /\ Prompt \in Seq(Printable) /\ Len(Prompt) + CmdMaxLen <= Width
  /\ \A name \in DOMAIN Command : Command[name] \in DOMAIN Text \cup {"clear"}
  /\ "echo" \in DOMAIN Text
  /\ \A name \in DOMAIN Text : Text[name] \in Seq(Printable \cup {NL})

VARIABLES
  cmd_buf, cmd_len,  \* the line, with its terminator once Enter was hit
  argv,              \* the positions of the words found so far
  p,                 \* the tokenizer's pointer
  at,                \* where shell_run is
  out,               \* what vga_puts and vga_putchar still have to print
  typed,             \* the line as it was when Enter was hit
  odd                \* the tabs and NULs typed so far

shellVars == <<cmd_buf, cmd_len, argv, p, at, out, typed, odd>>
allVars   == <<vgaVars, shellVars>>

InitShell ==
  /\ InitVga
  /\ cmd_buf = <<>> /\ cmd_len = 0 /\ argv = <<>> /\ p = 1
  /\ at = "read" /\ out = Prompt /\ typed = <<>> /\ odd = 0

\* vga_putchar prints the next character.
PutNext ==
  /\ out # <<>>
  /\ Putchar(Head(out))
  /\ out' = Tail(out)
  /\ UNCHANGED <<cmd_buf, cmd_len, argv, p, at, typed, odd>>

Reading == at = "read" /\ out = <<>>

\* What shell_read_char makes of a byte from the serial line.
FromSerial(c) == CASE c = CR -> NL [] c = DEL -> BS [] OTHER -> c

Enter ==
  /\ out' = <<NL>> /\ at' = "split"
  /\ cmd_buf' = Append(SubSeq(cmd_buf, 1, cmd_len), NUL)
  /\ typed' = SubSeq(cmd_buf, 1, cmd_len) /\ argv' = <<>> /\ p' = 1
  /\ UNCHANGED <<cmd_len, odd>>

Erase ==
  /\ IF cmd_len > 0
     THEN cmd_len' = cmd_len - 1 /\ out' = <<BS>>
     ELSE UNCHANGED <<cmd_len, out>>
  /\ UNCHANGED <<cmd_buf, argv, p, at, typed, odd>>

Store(c) ==
  /\ IF cmd_len < CmdMaxLen - 1
     THEN /\ cmd_buf' = Append(SubSeq(cmd_buf, 1, cmd_len), c) /\ cmd_len' = cmd_len + 1
          /\ out' = <<c>> /\ odd' = IF c \in {TAB, NUL} THEN odd + 1 ELSE odd
     ELSE UNCHANGED <<cmd_buf, cmd_len, out, odd>>
  /\ UNCHANGED <<argv, p, at, typed>>

\* One turn of shell_run's loop up to the commands.
Got(c) ==
  /\ Reading /\ (c \in {TAB, NUL} => odd < MaxOdd)
  /\ CASE c = NL -> Enter [] c = BS -> Erase [] OTHER -> Store(c)
  /\ UNCHANGED vgaVars

KeyboardChars == Letters \cup {Space, NL, TAB, BS}
SerialChars   == KeyboardChars \cup {NUL, CR, DEL}

ReadKeyboard == \E c \in KeyboardChars : Got(c)
ReadSerial   == \E c \in SerialChars : Got(FromSerial(c))

------------------------------------------------------------------------------
(* execute_cmd. *)

Splitting == at = "split" /\ out = <<>>

\* The first position from i on with one of the characters, or without any.
FirstOf(i, S)    == CHOOSE j \in i .. Len(cmd_buf) :
                      cmd_buf[j] \in S /\ \A k \in i .. j - 1 : cmd_buf[k] \notin S
FirstNotOf(i, S) == CHOOSE j \in i .. Len(cmd_buf) :
                      cmd_buf[j] \notin S /\ \A k \in i .. j - 1 : cmd_buf[k] \in S

\* A tokenizer that leaves the space after a word where it is.
SplitWordUncut ==
  /\ Splitting /\ cmd_buf[p] # NUL /\ Len(argv) < MaxArgs
  /\ LET start == FirstNotOf(p, {Space})
         end   == FirstOf(start, {Space, NUL})
     IN  IF cmd_buf[start] = NUL
         THEN p' = start /\ UNCHANGED <<argv, cmd_buf>>
         ELSE /\ argv' = Append(argv, start)
              /\ p' = IF cmd_buf[end] = Space THEN end + 1 ELSE end
              /\ UNCHANGED cmd_buf
  /\ UNCHANGED <<vgaVars, cmd_len, at, out, typed, odd>>

\* One turn of the tokenizer's loop: skip spaces, note the word, end it.
SplitWord ==
  /\ Splitting /\ cmd_buf[p] # NUL /\ Len(argv) < MaxArgs
  /\ LET start == FirstNotOf(p, {Space})
         end   == FirstOf(start, {Space, NUL})
     IN  IF cmd_buf[start] = NUL
         THEN p' = start /\ UNCHANGED <<argv, cmd_buf>>
         ELSE /\ argv' = Append(argv, start)
              /\ cmd_buf' = [cmd_buf EXCEPT ![end] = NUL]
              /\ p' = IF cmd_buf[end] = Space THEN end + 1 ELSE end
  /\ UNCHANGED <<vgaVars, cmd_len, at, out, typed, odd>>

SplitDone ==
  /\ Splitting /\ (cmd_buf[p] = NUL \/ Len(argv) = MaxArgs)
  /\ at' = "dispatch"
  /\ UNCHANGED <<vgaVars, cmd_buf, cmd_len, argv, p, out, typed, odd>>

\* The string argv[i] points to.
Word(i) == SubSeq(cmd_buf, argv[i], FirstOf(argv[i], {NUL}) - 1)
Args    == [i \in 1 .. Len(argv) |-> Word(i)]

\* echo: leading options, then the words with a space between two of them.
EchoText(args) ==
  LET Leading(n) == \A i \in 2 .. n : args[i] = NoNewline
      last == CHOOSE n \in 1 .. Len(args) :
                Leading(n) /\ (n = Len(args) \/ args[n + 1] # NoNewline)
      words == [i \in 1 .. Len(args) - last |->
                  IF i = Len(args) - last THEN args[last + i] ELSE Append(args[last + i], Space)]
  IN  IF last < Len(args) /\ args[last + 1] = Help THEN Text["echo"]
      ELSE FlattenSeq(words) \o (IF last > 1 THEN <<>> ELSE <<NL>>)

Unknown(word) == word \o <<NL>>

\* The table is searched for argv[0] and its function called.  The line is
\* empty again afterwards (what is left of the old one in cmd_buf is never read).
Dispatch ==
  /\ at = "dispatch" /\ out = <<>>
  /\ cmd_len' = 0 /\ cmd_buf' = <<>> /\ at' = "prompt"
  /\ argv' = <<>> /\ p' = 1 /\ typed' = <<>> /\ UNCHANGED odd
  /\ IF argv = <<>>
     THEN out' = <<>> /\ UNCHANGED vgaVars
     ELSE LET name == Args[1] IN
          IF name \notin DOMAIN Command
          THEN out' = Unknown(name) /\ UNCHANGED vgaVars
          ELSE IF Command[name] = "clear"
          THEN Clear /\ out' = <<>>
          ELSE /\ out' = IF Command[name] = "echo" THEN EchoText(Args) ELSE Text[Command[name]]
               /\ UNCHANGED vgaVars

\* A shell_run that prints the prompt where the command left the cursor.
ShowPromptAnywhere ==
  /\ at = "prompt" /\ out = <<>>
  /\ out' = Prompt /\ at' = "read"
  /\ UNCHANGED <<vgaVars, cmd_buf, cmd_len, argv, p, typed, odd>>

\* The prompt starts a line of its own.
ShowPrompt ==
  /\ at = "prompt" /\ out = <<>>
  /\ out' = (IF col # 0 THEN <<NL>> ELSE <<>>) \o Prompt /\ at' = "read"
  /\ UNCHANGED <<vgaVars, cmd_buf, cmd_len, argv, p, typed, odd>>

NextShell ==
  \/ PutNext \/ ReadKeyboard \/ ReadSerial
  \/ SplitWord \/ SplitDone \/ Dispatch \/ ShowPrompt

SpecShell == InitShell /\ [][NextShell]_allVars

------------------------------------------------------------------------------
(* Properties. *)

\* While the user edits, the cursor's line shows the prompt and the characters
\* that Enter would run, and nothing else is on or below it (shell.c:186-206).
\* Said of sessions without tabs, which are one character in cmd_buf and several
\* columns on the screen, and without NULs.
LineShown ==
  Reading /\ odd = 0 =>
    LET shown == Prompt \o SubSeq(cmd_buf, 1, cmd_len) IN
    /\ col = Len(shown)
    /\ \A i \in 1 .. Len(shown) :
         cells[row * Width + i - 1] = shown[i]
    /\ \A i \in Offsets : i >= hwcur => cells[i] = Space

\* The line up to its first NUL, and the words of it.
Visible(line) == IF NUL \in ToSet(line)
                 THEN SubSeq(line, 1, SelectInSeq(line, LAMBDA c : c = NUL) - 1) ELSE line
Starts(line) == {i \in 1 .. Len(line) : line[i] # Space /\ (i = 1 \/ line[i - 1] = Space)}
WordAt(line, i) ==
  SubSeq(line, i, CHOOSE j \in i .. Len(line) :
                    /\ \A k \in i .. j : line[k] # Space
                    /\ j = Len(line) \/ line[j + 1] = Space)

\* The command gets the words of the line up to its first NUL, in their order,
\* all of them or the first MaxArgs, although the tokenizer works in the buffer
\* it reads (shell.c:129-135).
ArgsAreWords ==
  at = "dispatch" =>
    LET line == Visible(typed) IN
    /\ \A i, j \in DOMAIN argv : i < j => argv[i] < argv[j]
    /\ \A i \in DOMAIN argv : argv[i] \in Starts(line) /\ Word(i) = WordAt(line, argv[i])
    /\ \A s \in Starts(line) \ ToSet(argv) :
         Len(argv) = MaxArgs /\ \A i \in DOMAIN argv : argv[i] < s
==============================================================================
