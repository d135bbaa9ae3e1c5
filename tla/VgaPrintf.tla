----------------------------- MODULE VgaPrintf ------------------------------
(***************************************************************************)
(* The printf of src/kernel/vga.c as a function from a format and its      *)
(* arguments to the characters vga_putchar is given, and what ticks and    *)
(* mem of src/kernel/shell.c print with it.  A stretch of fixed text is    *)
(* one character here; numbers are words of IntMod values.                 *)
(***************************************************************************)
EXTENDS VgaText, SequencesExt

CONSTANT IntMod  \* the values of an int, 2^32

\* A negative int is a word in the upper half.
ASSUME IntAssumption == IntMod \in Nat /\ IntMod > 1 /\ IntMod % 2 = 0

Digit == <<"0", "1", "2", "3", "4", "5", "6", "7", "8", "9", "a", "b", "c", "d", "e", "f">>

\* The digits of a number, the least first: 0 has none.
DigitsUp(val, base) ==
  LET up[v \in Nat] == IF v = 0 THEN <<>> ELSE <<Digit[(v % base) + 1]>> \o up[v \div base]
  IN  up[val]

\* print_uint fills buf from the least digit on, pads it, and prints it backwards.
PrintUint(val, base, width, pad) ==
  LET digits == IF val = 0 THEN <<"0">> ELSE DigitsUp(val, base)
  IN  Reverse(digits \o [i \in 1 .. Max({0, width - Len(digits)}) |-> pad])

\* print_int: the sign comes before the padding, and takes one of its places.
PrintInt(val, width, pad) ==
  IF val >= IntMod \div 2
  THEN <<"-">> \o PrintUint(IntMod - val, 10, IF width > 0 THEN width - 1 ELSE 0, pad)
  ELSE PrintUint(val, 10, width, pad)

\* A format is a sequence of plain characters and directives.  The length
\* modifier is left out: a long is a word like an int.
Plain(c)               == [conv |-> "plain", text |-> c, width |-> 0, pad |-> Space]
Field(conv, width, pad) == [conv |-> conv, text |-> conv, width |-> width, pad |-> pad]
Conv(conv)             == Field(conv, 0, Space)

TakesArgument == {"c", "s", "d", "i", "u", "x", "p"}

\* What one item prints.  A string is the set of what the pointer points to:
\* nothing for the null pointer.
Converted(f, arg) ==
  CASE f.conv = "plain"      -> <<f.text>>
    [] f.conv = "c"          -> <<arg>>
    [] f.conv = "s"          -> IF arg = {} THEN <<"(null)">> ELSE CHOOSE s \in arg : TRUE
    [] f.conv \in {"d", "i"} -> PrintInt(arg, f.width, f.pad)
    [] f.conv = "u"          -> PrintUint(arg, 10, f.width, f.pad)
    [] f.conv = "x"          -> PrintUint(arg, 16, f.width, f.pad)
    [] f.conv = "p"          -> <<"0", "x">> \o PrintUint(arg, 16, 8, "0")
    [] f.conv = "%"          -> <<"%">>
    [] OTHER                 -> <<"%", f.text>>

\* What st has printed, and one item more, with the arguments left for it.
PrintItem(st, f) ==
  IF f.conv \in TakesArgument
  THEN [text |-> st.text \o Converted(f, Head(st.rest)), rest |-> Tail(st.rest)]
  ELSE [text |-> st.text \o Converted(f, 0), rest |-> st.rest]

\* The first n items, each of whose directives takes the next argument.
Printed(fmt, args, n) ==
  LET upTo[k \in Nat] == IF k = 0 THEN [text |-> <<>>, rest |-> args] ELSE PrintItem(upTo[k - 1], fmt[k])
  IN  upTo[n]

\* vga_vprintf walks the format once.
VPrintf(fmt, args) == Printed(fmt, args, Len(fmt)).text

------------------------------------------------------------------------------
(* Two commands of the shell. *)

TicksText(ticks) ==
  VPrintf(<<Plain("System ticks: "), Conv("u"), Plain(NL)>>, <<ticks>>)

\* e820_type_str.
E820TypeStr(type) ==
  CASE type = 1 -> "Usable"
    [] type = 2 -> "Reserved"
    [] type = 3 -> "ACPI Reclaimable"
    [] type = 4 -> "ACPI NVS"
    [] type = 5 -> "Bad Memory"
    [] OTHER    -> "Unknown"

\* One turn of the loop of mem: the low halves of a region, and its last byte,
\* computed in words.
EntryText(e) ==
  LET base_lo == e.base % IntMod
      len_lo  == e.length % IntMod
      end     == (base_lo + len_lo - 1) % IntMod
      hex     == Field("x", 8, "0")
  IN  VPrintf(<<Plain("  0x"), hex, Plain(" - 0x"), hex, Plain(": "), Conv("s"),
                Plain(" ("), Conv("u"), Plain(" bytes)"), Plain(NL)>>,
              <<base_lo, end, {<<E820TypeStr(e.type)>>}, len_lo>>)

\* cmd_mem, given the boot information and the entries it points to.
MemText(bi, entries) ==
  VPrintf(<<Plain("Boot drive: 0x"), Field("x", 2, "0"), Plain(NL),
            Plain("Mapa de memoria: "), Conv("u"), Plain(" entradas"), Plain(NL)>>,
          <<bi.boot_drive, bi.mmap_count>>)
  \o FlattenSeq([i \in 1 .. bi.mmap_count |-> EntryText(entries[i])])
  \o VPrintf(<<Plain("Kernel heap: base=0x"), Field("x", 8, "0"), Plain(", size="), Conv("u"),
               Plain(", used="), Conv("u"), Plain(NL)>>,
             <<bi.heap_base, bi.heap_capacity, bi.heap_offset>>)

------------------------------------------------------------------------------
(* What is promised of a number. *)

DigitValue(c) == CHOOSE d \in 0 .. 15 : Digit[d + 1] = c

\* The number a sequence of digits stands for.
ValueOf(s, base) ==
  LET read[n \in 0 .. Len(s)] == IF n = 0 THEN 0 ELSE read[n - 1] * base + DigitValue(s[n])
  IN  read[Len(s)]

\* Digits of the base, none to spare, that stand for v.
IsNumeral(d, v, base) ==
  /\ d # <<>> /\ \A i \in 1 .. Len(d) : \E j \in 0 .. base - 1 : d[i] = Digit[j + 1]
  /\ ValueOf(d, base) = v
  /\ Len(d) > 1 => d[1] # "0"

\* The number at the end, behind no more padding than the width asks for.
ShowsNumber(s, v, base, width, pad) ==
  /\ Len(s) >= width
  /\ \E k \in 0 .. Len(s) :
       /\ IsNumeral(SubSeq(s, k + 1, Len(s)), v, base)
       /\ \A i \in 1 .. k : s[i] = pad
       /\ k > 0 => Len(s) = width

\* A sign in front of the magnitude; it takes one place of the width.
ShowsInt(s, v, width, pad) ==
  IF v >= IntMod \div 2
  THEN s # <<>> /\ s[1] = "-" /\ ShowsNumber(Tail(s), IntMod - v, 10, Max({0, width - 1}), pad)
  ELSE ShowsNumber(s, v, 10, width, pad)
==============================================================================
