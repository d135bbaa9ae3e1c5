----------------------------- MODULE MCKeyboard -----------------------------
(***************************************************************************)
(* Keyboard with a handful of keys and the entries 0x10 (Q), 0x1A and 0x38 *)
(* of the six arrays in Scancodes.                                         *)
(***************************************************************************)
EXTENDS Keyboard, Scancodes

MCKeys == {"lshift", "altgr", "caps", "alt", "q"}

AllMake == [lshift |-> <<42>>, rshift |-> <<54>>, altgr |-> <<224, 56>>, alt |-> <<56>>,
            caps |-> <<58>>, q |-> <<16>>, acute |-> <<26>>]
AllBreak == [lshift |-> <<170>>, rshift |-> <<182>>, altgr |-> <<224, 184>>, alt |-> <<184>>,
             caps |-> <<186>>, q |-> <<144>>, acute |-> <<154>>]
MCMake  == [k \in Keys |-> AllMake[k]]
MCBreak == [k \in Keys |-> AllBreak[k]]

MCShift     == Keys \cap {"lshift", "rshift"}
MCAltGr     == Keys \cap {"altgr"}
MCCaps      == Keys \cap {"caps"}
MCTypematic == Keys \cap {"q"}

\* A letter, a key whose character depends on layout and layer, and 0x38.
MCCodes == {16, 26, 56}
Given(table) == [c \in MCCodes |-> table[c]]
MCTable ==
  [US    |-> [normal |-> Given(UsNormal), shift |-> Given(UsShift), altgr |-> Given(UsAltGr)],
   ABNT2 |-> [normal |-> Given(Abnt2Normal), shift |-> Given(Abnt2Shift),
              altgr |-> Given(Abnt2AltGr)]]
MCChar == UNION {{MCTable[l][y][c] : c \in MCCodes} : l \in Layouts, y \in Layers} \ {NoChar}
MCFlip == [c \in MCChar \cup {NoChar} |-> Flip(c)]
=============================================================================
