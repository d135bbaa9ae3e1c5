-------------------------------- MODULE Video --------------------------------
(***************************************************************************)
(* src/kernel/video.c: video modes set through int 10h, and the record of  *)
(* the mode that is on.  The video BIOS and the adapter are external: a    *)
(* BIOS has a list of VBE modes, the adapter is in one mode and its DAC    *)
(* holds a palette, which every mode switch resets.                        *)
(***************************************************************************)
EXTENDS Integers, Sequences

CONSTANTS
  Bioses,    \* the video BIOSes a machine may have
  MaxModes,  \* VBE_MAX_MODES, 128
  ByteMod    \* 2^8, the width bpp is cut to

\* A mode as current_mode and ModeInfoBlock describe it; rgb is the position
\* and the size of the three channels.
Mode(kind, fb, width, height, pitch, bpp, rgb) ==
  [kind |-> kind, fb |-> fb, width |-> width, height |-> height,
   pitch |-> pitch, bpp |-> bpp, rgb |-> rgb]

NoRgb == <<<<0, 0>>, <<0, 0>>, <<0, 0>>>>
Zero  == Mode("text", 0, 0, 0, 0, 0, NoRgb)
Text  == Mode("text", 753664, 80, 25, 160, 16, NoRgb)
Vga13 == Mode("vga13", 655360, 320, 200, 320, 8, NoRgb)

VARIABLES
  bios,     \* vesa: it answers 4F00 with "VESA"; list: its modes; inBlock: the
            \* list lies in the VbeInfoBlock, where 4F01 writes; external
  rmReady,  \* realmode_is_ready(): never changes after realmode_init
  vbe,      \* vbe_available
  current,  \* current_mode
  adapter,  \* the mode the adapter is in; external
  dac,      \* the palette in the DAC; external
  asked     \* history: width, height and bpp of the last video_set_vbe that
            \* succeeded

videoVars == <<bios, rmReady, vbe, current, adapter, dac, asked>>

NotAsked == <<0, 0, 0>>

InitVideo ==
  /\ bios \in Bioses /\ rmReady \in BOOLEAN
  /\ vbe = FALSE /\ current = Zero
  /\ adapter = Text /\ dac = "bios" /\ asked = NotAsked

\* A BIOS mode switch; the DAC gets the BIOS's palette.
BiosSwitches(m) == adapter' = m /\ dac' = "bios"

\* video_init, which kernel_main calls when the trampoline is ready.
VideoInit ==
  /\ current' = IF rmReady THEN Text ELSE current
  /\ vbe' = (rmReady /\ bios.vesa)
  /\ UNCHANGED <<bios, rmReady, adapter, dac, asked>>

\* video_set_text; ok is what it returns.
SetText(ok) ==
  /\ ok = rmReady
  /\ IF ok THEN BiosSwitches(Text) /\ current' = Text ELSE UNCHANGED <<adapter, dac, current>>
  /\ UNCHANGED <<bios, rmReady, vbe, asked>>

\* The palette goes to the DAC before the mode switch that resets it.
SetVga13PaletteFirst(ok) ==
  /\ ok = rmReady
  /\ IF ok THEN BiosSwitches(Vga13) /\ current' = Vga13 ELSE UNCHANGED <<adapter, dac, current>>
  /\ UNCHANGED <<bios, rmReady, vbe, asked>>

\* video_set_vga13 installs the 3-3-2 palette after the switch.
SetVga13(ok) ==
  /\ ok = rmReady
  /\ IF ok THEN adapter' = Vga13 /\ dac' = "332" /\ current' = Vga13
           ELSE UNCHANGED <<adapter, dac, current>>
  /\ UNCHANGED <<bios, rmReady, vbe, asked>>

------------------------------------------------------------------------------
(* video_set_vbe *)

\* The places of the BIOS's list that can be read in place: a 4F01 call has
\* overwritten what follows the first.
ListedInPlace == 1 .. IF bios.inBlock THEN 1 ELSE Len(bios.list)

\* vbe_collect_modes copies the list before any 4F01, MaxModes of it at most.
Listed == 1 .. IF Len(bios.list) < MaxModes THEN Len(bios.list) ELSE MaxModes

\* The tests of the loop: 4F01 answers, the mode is supported, graphic and has
\* a linear framebuffer, the resolution is the one asked and the memory model
\* is one the bridge converts.
Usable(m, width, height) ==
  /\ m.answers
  /\ {"supported", "graphics", "linear"} \subseteq m.attributes
  /\ m.mode.width = width /\ m.mode.height = height
  /\ m.model \in {"packed", "direct"}

\* vbe_score_bpp
Score(m, bpp) ==
  IF m.mode.bpp = bpp THEN 2 ELSE IF m.mode.bpp \in {15, 16, 24, 32} THEN 1 ELSE 0

\* The places of the modes the loop would take, and of the mode it keeps: of
\* those with the highest score the first.
Candidates(width, height, bpp) ==
  {i \in Listed : Usable(bios.list[i], width, height) /\ Score(bios.list[i], bpp) > 0}

Best(width, height, bpp) ==
  {i \in Candidates(width, height, bpp) : \A j \in Candidates(width, height, bpp) :
     \/ Score(bios.list[j], bpp) < Score(bios.list[i], bpp)
     \/ Score(bios.list[j], bpp) = Score(bios.list[i], bpp) /\ i <= j}

\* The modes, one at most, that video_set_vbe asks 4F02 for.
Found(width, height, bpp) ==
  IF rmReady /\ vbe
  THEN {m \in {bios.list[i].mode : i \in Best(width, height, bpp)} : m.fb # 0}
  ELSE {}

\* The candidate is recorded although the BIOS may refuse it.
SetVbeUnchecked(width, height, bpp, ok) ==
  /\ \/ \E m \in Found(width, height, bpp) :
           /\ current' = m /\ asked' = <<width, height, bpp>>
           /\ IF ok THEN BiosSwitches(m) ELSE UNCHANGED <<adapter, dac>>
     \/ ~ok /\ UNCHANGED <<adapter, dac, current, asked>>
  /\ UNCHANGED <<bios, rmReady, vbe>>

\* video_set_vbe: 4F02 may refuse the mode, which leaves the adapter as it was.
SetVbe(width, height, bpp, ok) ==
  /\ \/ /\ ok
        /\ \E m \in Found(width, height, bpp) : BiosSwitches(m) /\ current' = m
        /\ asked' = <<width, height, bpp>>
     \/ ~ok /\ UNCHANGED <<adapter, dac, current, asked>>
  /\ UNCHANGED <<bios, rmReady, vbe>>
==============================================================================
