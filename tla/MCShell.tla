------------------------------ MODULE MCShell -------------------------------
(* Lines of up to seven characters on a screen of two lines.  With a letter *)
(* there are the commands e (echo), ee (clear) and eee (ticks), the options *)
(* e and ee of echo, and unknown names made of tabs.                        *)
EXTENDS Shell, VgaPrintf

MCPrompt  == <<">">>
MCCommand == (<<"e">> :> "echo") @@ (<<"e", "e">> :> "clear") @@ (<<"e", "e", "e">> :> "ticks")
MCText    == ("ticks" :> TicksText(10)) @@ ("echo" :> <<"e", NL>>)
MCNoNewline == <<"e">>
MCHelp    == <<"e", "e">>

------------------------------------------------------------------------------
(* VgaPrintf on bounded inputs, words of 16 bits. *)

Sample == 0 .. 300 \cup {IntMod \div 2 - 1, IntMod \div 2, IntMod \div 2 + 1, IntMod - 2, IntMod - 1}
Widths == {0, 1, 2, 8}

\* Every word is shown, padded with zeros or blanks, and fits into the twelve
\* characters of buf.
ASSUME NumbersReadBack ==
  \A v \in Sample, w \in Widths, base \in {10, 16}, pad \in {"0", Space} :
    LET s == PrintUint(v, base, w, pad)
    IN  ShowsNumber(s, v, base, w, pad) /\ Len(s) <= 12

\* So is every int, the most negative one too, whose negation is itself.
ASSUME SignedReadBack ==
  \A v \in Sample, w \in Widths : ShowsInt(PrintInt(v, w, "0"), v, w, "0")

Regions == [base : {0, 5, IntMod - 16, IntMod, IntMod + 5}, length : {1, 11, 16, IntMod, 2 * IntMod - 5},
            type : {1, 6}]

\* The line of a region inside the low words names its first and last byte and
\* its size; a region of a multiple of IntMod bytes is shown with none.
ASSUME RegionLine ==
  \A e \in Regions :
    LET s == EntryText(e)
    IN  /\ e.base + e.length <= IntMod =>
             /\ ValueOf(SubSeq(s, 2, 9), 16) = e.base
             /\ ValueOf(SubSeq(s, 11, 18), 16) = e.base + e.length - 1
        /\ e.length < IntMod => ValueOf(SubSeq(s, 22, Len(s) - 2), 10) = e.length
        /\ e.length = IntMod => s[22] = "0"

\* mem prints every entry it counts, each on a line of its own.
ASSUME LinesOfMem ==
  \A n \in 0 .. 3 :
    LET bi == [boot_drive |-> 128, mmap_count |-> n, heap_base |-> 64, heap_capacity |-> 32, heap_offset |-> 0]
        s  == MemText(bi, [i \in 1 .. n |-> [base |-> 16 * i, length |-> 16, type |-> i]])
    IN  /\ Cardinality({i \in DOMAIN s : s[i] = NL}) = n + 3
        /\ SubSeq(s, 1, 4) = <<"Boot drive: 0x", "8", "0", NL>>

\* Directives take their arguments in turn, and an unknown one is shown.
ASSUME DirectivesInTurn ==
  VPrintf(<<Conv("c"), Conv("%"), Conv("d"), Conv("k"), Conv("s"), Conv("p")>>,
          <<"a", IntMod - 7, {}, 255>>)
    = <<"a", "%", "-", "7", "%", "k", "(null)", "0", "x">> \o PrintUint(255, 16, 8, "0")
==============================================================================
