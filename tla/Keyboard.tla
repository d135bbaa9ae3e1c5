------------------------------ MODULE Keyboard ------------------------------
(***************************************************************************)
(* src/kernel/keyboard.c: the scancode decoder.                            *)
(*                                                                         *)
(* The circular buffer behind kb_push appears here as the LossyFifo it     *)
(* implements (theorem RingRefinesFifo of ConsoleProofs): Offer is kb_push *)
(* in the handler, Take and Miss are finished calls of keyboard_read and   *)
(* keyboard_getchar.                                                       *)
(*                                                                         *)
(* keyboard_handler runs once per byte of the PS/2 controller.  Scancodes  *)
(* of one key press can be several bytes, and the decoder remembers        *)
(* between calls which modifiers are held (kb_shift, kb_altgr, kb_caps)    *)
(* and whether an 0xE0 prefix is pending (kb_ext).  The user, the physical *)
(* keys and the bytes in flight are the environment: each byte carries the *)
(* layer and the Caps Lock lamp that were in force when its key went down, *)
(* which is what the decoder must reproduce when it gets to that byte.     *)
(***************************************************************************)
EXTENDS LossyFifo, FiniteSets

CONSTANTS
  Keys,       \* the physical keys of the model
  MakeCode,   \* [Keys -> Seq(0..255)]: the bytes a press sends
  BreakCode,  \* [Keys -> Seq(0..255)]: the bytes a release sends
  ShiftKeys,  \* the subset of Keys whose cap says Shift
  AltGrKeys,  \* the subset of Keys whose cap says AltGr
  CapsKeys,   \* the subset of Keys whose cap says Caps Lock
  Typematic,  \* the keys that repeat their make code while held
  Codes,      \* the make codes the tables below are given for
  Table,      \* [Layouts -> [Layers -> [Codes -> Char \cup {NUL}]]]
  FlipCase,   \* [Char \cup {NUL} -> Char \cup {NUL}]: c ^= 0x20 on ASCII letters
  WireCap     \* bound: bytes in flight between the keyboard and port 0x60

Layouts == {"US", "ABNT2"}
Layers  == {"normal", "shift", "altgr"}

PREFIX == 224    \* 0xE0
LSHIFT == 42     \* 0x2A
RSHIFT == 54     \* 0x36
CAPS   == 58     \* 0x3A
ALT    == 56     \* 0x38
BREAK  == 128    \* bit 7 of a break code

ASSUME CharAssumption  == NUL \notin Char
ASSUME TableAssumption ==
  /\ Table \in [Layouts -> [Layers -> [Codes -> Char \cup {NUL}]]]
  /\ FlipCase \in [Char \cup {NUL} -> Char \cup {NUL}]
  /\ FlipCase[NUL] = NUL
  /\ ShiftKeys \cup AltGrKeys \cup CapsKeys \cup Typematic \subseteq Keys

\* The codes of scancode set 1: a press sends a make code and the release the
\* same with bit 7 set, after 0xE0 both for an extended key, and Caps Lock does
\* not repeat.  There is one key that sets kb_shift and one that sets kb_altgr,
\* because the release of either Shift clears kb_shift; and no extended key has
\* the code of a modifier, as Print Screen does.
Sends(k, c)         == MakeCode[k] = <<c>> /\ BreakCode[k] = <<c + BREAK>>
SendsExtended(k, c) == MakeCode[k] = <<PREFIX, c>> /\ BreakCode[k] = <<PREFIX, c + BREAK>>
OrdinaryCodes == (0 .. BREAK - 1) \ {LSHIFT, RSHIFT, CAPS, PREFIX - BREAK}

ASSUME KeysAssumption ==
  /\ \A k \in ShiftKeys : Sends(k, LSHIFT) \/ Sends(k, RSHIFT)
  /\ \A k \in AltGrKeys : SendsExtended(k, ALT)
  /\ \A k \in CapsKeys : Sends(k, CAPS)
  /\ \A k \in Keys \ (ShiftKeys \cup AltGrKeys \cup CapsKeys) :
       \E c \in OrdinaryCodes : Sends(k, c) \/ (c # ALT /\ SendsExtended(k, c))
  /\ \A j, k \in ShiftKeys : j = k
  /\ \A j, k \in AltGrKeys : j = k
  /\ {ShiftKeys \cap AltGrKeys, ShiftKeys \cap CapsKeys, AltGrKeys \cap CapsKeys,
      Typematic \cap CapsKeys} = {{}}

VARIABLES
  shift, altgr, caps, ext,  \* kb_shift, kb_altgr, kb_caps, kb_ext
  mapOf,      \* [Layers -> Layouts]: whose table kb_map, kb_map_shift and
              \* kb_map_altgr point to
  target,     \* the argument of the last keyboard_set_layout
  switching,  \* the pointers that call has still to store
  down,       \* the physical keys held
  lamp,       \* Caps Lock as the user counts presses
  wire        \* bytes sent and not read yet, oldest first

modVars  == <<shift, altgr, caps, ext>>
mapVars  == <<mapOf, target, switching>>
userVars == <<down, lamp, wire>>
kbdVars  == <<vars, modVars, mapVars, userVars>>

\* keyboard_init: everything released, the ABNT2 tables.
InitDriver ==
  /\ shift = FALSE /\ altgr = FALSE /\ caps = FALSE /\ ext = FALSE
  /\ mapOf = [l \in Layers |-> "ABNT2"]
  /\ target = "ABNT2"
  /\ switching = {}

InitUser == down = {} /\ lamp = FALSE /\ wire = <<>>

InitKbd == Init /\ InitDriver /\ InitUser

------------------------------------------------------------------------------
(* The environment: fingers on keys.  All of it is external. *)

\* The layer the caps of the held keys promise.
LayerOf(keys) ==
  IF keys \cap AltGrKeys # {} THEN "altgr"
  ELSE IF keys \cap ShiftKeys # {} THEN "shift" ELSE "normal"

Send(bytes, layer, lit) ==
  /\ Len(wire) + Len(bytes) <= WireCap
  /\ wire' = wire \o [i \in 1 .. Len(bytes) |->
                        [byte |-> bytes[i], layer |-> layer, lit |-> lit]]

PressKey(k) ==
  /\ k \notin down
  /\ down' = down \cup {k}
  /\ lamp' = (lamp # (k \in CapsKeys))
  /\ Send(MakeCode[k], LayerOf(down), lamp)

ReleaseKey(k) ==
  /\ k \in down
  /\ down' = down \ {k}
  /\ UNCHANGED lamp
  /\ Send(BreakCode[k], LayerOf(down), lamp)

RepeatKey(k) ==
  /\ k \in down \cap Typematic
  /\ Send(MakeCode[k], LayerOf(down), lamp)
  /\ UNCHANGED <<down, lamp>>

User ==
  /\ \E k \in Keys : PressKey(k) \/ ReleaseKey(k) \/ RepeatKey(k)
  /\ UNCHANGED <<vars, modVars, mapVars>>

------------------------------------------------------------------------------
(* keyboard_handler, for a byte b read from port 0x60. *)

IsBreak(b)  == b >= BREAK /\ b # PREFIX
Released(b) == b - BREAK

Prefix(b) ==
  /\ b = PREFIX
  /\ ext' = TRUE
  /\ UNCHANGED <<vars, shift, altgr, caps>>

\* A break that does not end the prefix.
ReleaseKeepsPrefix(b) ==
  /\ IsBreak(b)
  /\ shift' = (shift /\ Released(b) \notin {LSHIFT, RSHIFT})
  /\ altgr' = (altgr /\ ~(ext /\ Released(b) = ALT))
  /\ UNCHANGED <<vars, caps, ext>>

\* A release: either Shift ends kb_shift, whichever one set it.
Release(b) ==
  /\ IsBreak(b)
  /\ shift' = (shift /\ Released(b) \notin {LSHIFT, RSHIFT})
  /\ altgr' = (altgr /\ ~(ext /\ Released(b) = ALT))
  /\ ext' = FALSE
  /\ UNCHANGED <<vars, caps>>

MakeShift(b) ==
  /\ b \in {LSHIFT, RSHIFT}
  /\ shift' = TRUE
  /\ ext' = FALSE
  /\ UNCHANGED <<vars, altgr, caps>>

MakeCaps(b) ==
  /\ b = CAPS
  /\ caps' = ~caps
  /\ ext' = FALSE
  /\ UNCHANGED <<vars, shift, altgr>>

MakeAltGr(b) ==
  /\ b = ALT /\ ext
  /\ altgr' = TRUE
  /\ ext' = FALSE
  /\ UNCHANGED <<vars, shift, caps>>

IsCharMake(b) == b < BREAK /\ b \notin {LSHIFT, RSHIFT, CAPS} /\ ~(b = ALT /\ ext)

ActiveLayer == IF altgr THEN "altgr" ELSE IF shift THEN "shift" ELSE "normal"

\* Shift before AltGr.
DecodeShiftFirst(code) ==
  LET layer == IF shift THEN "shift" ELSE IF altgr THEN "altgr" ELSE "normal"
      c     == Table[mapOf[layer]][layer][code]
  IN  IF caps THEN FlipCase[c] ELSE c

\* The character of a make code: AltGr wins over Shift, Caps Lock flips letters.
Decode(code) ==
  LET c == Table[mapOf[ActiveLayer]][ActiveLayer][code]
  IN  IF caps THEN FlipCase[c] ELSE c

\* if (c) kb_push(c)
MakeChar(b) ==
  /\ IsCharMake(b)
  /\ ext' = FALSE
  /\ UNCHANGED <<shift, altgr, caps>>
  /\ IF Decode(b) # NUL THEN Offer(Decode(b)) ELSE UNCHANGED vars

HandleByte(b) ==
  Prefix(b) \/ Release(b) \/ MakeShift(b) \/ MakeCaps(b) \/ MakeAltGr(b) \/ MakeChar(b)

\* One IRQ 1: the handler takes the oldest byte from the controller.
KeyboardHandler ==
  /\ wire # <<>>
  /\ HandleByte(Head(wire).byte)
  /\ wire' = Tail(wire)
  /\ UNCHANGED <<mapVars, down, lamp>>

------------------------------------------------------------------------------
(* keyboard_set_layout: three pointers, stored one at a time with interrupts *)
(* enabled.  They are not volatile: the compiler picks the order.            *)

SetLayout(l) ==
  /\ switching = {}
  /\ target' = l
  /\ switching' = Layers
  /\ UNCHANGED <<vars, modVars, userVars, mapOf>>

StoreMap(layer) ==
  /\ layer \in switching
  /\ switching' = switching \ {layer}
  /\ mapOf' = [mapOf EXCEPT ![layer] = target]
  /\ UNCHANGED <<vars, modVars, userVars, target>>

\* keyboard_get_layout looks at kb_map only.
GetLayout == mapOf["normal"]

NextKbd ==
  \/ User
  \/ KeyboardHandler
  \/ \E l \in Layouts : SetLayout(l)
  \/ \E layer \in Layers : StoreMap(layer)
  \/ (Take \/ Miss) /\ UNCHANGED <<modVars, mapVars, userVars>>

SpecKbd == InitKbd /\ [][NextKbd]_kbdVars

------------------------------------------------------------------------------
(* Properties. *)

\* A bounded queue, BOOLEAN modifiers, pointers to real tables.
KbdTypeOK ==
  /\ queue \in Seq(Char) /\ Len(queue) <= Capacity
  /\ result \in Char \cup {NUL}
  /\ {shift, altgr, caps, ext} \subseteq BOOLEAN
  /\ mapOf \in [Layers -> Layouts]
  /\ target \in Layouts
  /\ switching \subseteq Layers
  /\ down \subseteq Keys
  /\ lamp \in BOOLEAN
  /\ Len(wire) <= WireCap
  /\ \A i \in 1 .. Len(wire) :
       wire[i] \in [byte : 0 .. 255, layer : Layers, lit : BOOLEAN]

\* When every byte has been handled the decoder's idea of the modifiers is
\* the keyboard's, and no prefix is left over (keyboard.c:9-13).
ModifiersTrackKeys ==
  wire = <<>> =>
    /\ shift <=> down \cap ShiftKeys # {}
    /\ altgr <=> down \cap AltGrKeys # {}
    /\ caps <=> lamp
    /\ ~ext

\* The character typed: what the keys held at the press select in the layout
\* that keyboard_get_layout names.
Typed(entry) ==
  LET c == Table[GetLayout][entry.layer][entry.byte]
  IN  IF entry.lit THEN FlipCase[c] ELSE c

\* However late the byte of a key is handled, and whatever was pressed or
\* released since, it decodes to the character typed.  Not promised while a
\* layout switch is half done (keyboard.c:295-310).
DecodesAsTyped ==
  (wire # <<>> /\ switching = {} /\ IsCharMake(Head(wire).byte))
    => Decode(Head(wire).byte) = Typed(Head(wire))
==============================================================================
