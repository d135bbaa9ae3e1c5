------------------------------- MODULE CmdVideo ------------------------------
(***************************************************************************)
(* src/kernel/cmd_video.c: the commands mode and gfxdemo, over video.c,    *)
(* gfx_bridge.c and kalloc.c.  Keys and serial bytes keep arriving while   *)
(* gfxdemo runs.                                                           *)
(***************************************************************************)
EXTENDS GfxBridge

CONSTANTS
  Specs,    \* the arguments typed: word "text", "vga13", "size" or "other", and
            \* the numbers of a size
  Colours,  \* the colours of the pixel
  KeyCap    \* bound: keys and serial bytes waiting, one each less than the rings

ASSUME ColoursAssumption == Colours \subseteq [1 .. 3 -> 0 .. 255]

VARIABLES
  step,  \* where the shell or the command is
  last,  \* history: the last command that ended
  still, \* the argument of gfxdemo
  keys,  \* how many characters keyboard.c holds
  bytes  \* how many bytes the UART holds

cmdVars   == <<step, last, still, keys, bytes>>
videoMachine == <<kvars, videoVars, bridgeVars, cmdVars>>

InitCmd ==
  /\ InitK /\ InitVideo /\ InitBridge
  /\ step = "boot" /\ last = "none" /\ still = FALSE
  /\ keys = 0 /\ bytes = 0

\* kernel_main: video_init, and kalloc_init after it.
KernelMain ==
  /\ UNCHANGED <<bridgeVars, last, still, keys, bytes>>
  /\ \/ /\ step = "boot" /\ step' = "kalloc"
        /\ VideoInit /\ UNCHANGED kvars
     \/ /\ step = "kalloc" /\ UNCHANGED videoVars
        /\ (\E m \in Maps : KallocInit(m)) \/ ScanEntry \/ FinishInit
        /\ step' = IF pc' \in {"ready", "failed"} THEN "shell" ELSE step

------------------------------------------------------------------------------
(* apply_mode *)

\* parse_uint
ParseUint(typed) == typed % W32

\* parse_mode_spec: width, height and bpp, or nothing; a width of 0 stands for
\* vga13.
ParseModeSpec(spec) ==
  CASE spec.word = "vga13" -> <<0, 0, 8>>
    [] spec.word = "size"  -> <<ParseUint(spec.width), ParseUint(spec.height), ParseUint(spec.bpp)>>
    [] OTHER               -> <<>>

\* apply_mode(spec) returning ok.
ApplyMode(spec, ok) ==
  LET size == ParseModeSpec(spec)
  IN  \/ spec.word = "text" /\ SetText(ok)
      \/ spec.word # "text" /\ size = <<>> /\ ~ok /\ UNCHANGED videoVars
      \/ size # <<>> /\ size[1] = 0 /\ SetVga13(ok)
      \/ size # <<>> /\ size[1] # 0 /\ SetVbe(size[1], size[2], size[3] % ByteMod, ok)

\* A switch changes what is on the screen.
Cleared == pixel' = IF adapter' = adapter /\ dac' = dac THEN pixel ELSE NoPixel

\* cmd_video_mode
CallMode(spec) ==
  /\ step = "shell" /\ last' = "mode"
  /\ \E ok \in BOOLEAN : ApplyMode(spec, ok)
  /\ Cleared
  /\ UNCHANGED <<kvars, ready, shape, colour, depth, pending, drawn, step, still, keys, bytes>>

------------------------------------------------------------------------------
(* cmd_video_gfxdemo *)

CallDemo(spec, alone) ==
  /\ step = "shell" /\ still' = alone
  /\ \E ok \in BOOLEAN : ApplyMode(spec, ok) /\ step' = IF ok THEN "bridge" ELSE "failed"
  /\ Cleared
  /\ UNCHANGED <<kvars, ready, shape, colour, depth, pending, drawn, last, keys, bytes>>

\* gfx_bridge_init, allocation by allocation.
InitializeBridge ==
  /\ \E ok \in BOOLEAN :
       \/ step = "bridge" /\ BridgeStart(ok) /\ step' = IF ok THEN "colour" ELSE "failed"
       \/ step = "colour" /\ BridgeColour(ok) /\ step' = IF ok THEN "depth" ELSE "failed"
       \/ step = "depth" /\ BridgeDepth(ok) /\ step' = IF ok THEN "frame" ELSE "failed"
  /\ UNCHANGED <<last, still, keys, bytes>>

\* The demo leaves its mode on when it could not start.
DemoFailsQuietly ==
  /\ step = "failed" /\ step' = "shell" /\ last' = "gfxdemo"
  /\ UNCHANGED <<kvars, videoVars, bridgeVars, still, keys, bytes>>

\* Either failure: video_set_text, and back to the shell.
DemoFails ==
  /\ step = "failed" /\ step' = "shell" /\ last' = "gfxdemo"
  /\ \E ok \in BOOLEAN : SetText(ok)
  /\ Cleared
  /\ UNCHANGED <<kvars, ready, shape, colour, depth, pending, drawn, still, keys, bytes>>

\* The loop that only a key of the keyboard ends.
DemoFrameKeyboardOnly ==
  /\ step = "frame"
  /\ IF still \/ keys = 0 THEN \E c \in Colours : DrawFrame(c)
     ELSE UNCHANGED <<kvars, videoVars, bridgeVars>>
  /\ step' = IF still \/ keys # 0 THEN "leave" ELSE step
  /\ UNCHANGED <<last, still, keys, bytes>>

\* One frame with still, else one turn of the loop: it ends when a key or a
\* serial byte waits.
DemoFrame ==
  /\ step = "frame"
  /\ IF still \/ (keys = 0 /\ bytes = 0) THEN \E c \in Colours : DrawFrame(c)
     ELSE UNCHANGED <<kvars, videoVars, bridgeVars>>
  /\ step' = IF still \/ keys # 0 \/ bytes # 0 THEN "leave" ELSE step
  /\ UNCHANGED <<last, still, keys, bytes>>

\* The key and the byte that wait are taken, the text mode comes back.
DemoLeaves ==
  /\ step = "leave" /\ step' = "shell" /\ last' = "gfxdemo"
  /\ keys' = IF keys # 0 THEN keys - 1 ELSE 0
  /\ bytes' = IF bytes # 0 THEN bytes - 1 ELSE 0
  /\ \E ok \in BOOLEAN : SetText(ok)
  /\ Cleared
  /\ UNCHANGED <<kvars, ready, shape, colour, depth, pending, drawn, still>>

Demo == InitializeBridge \/ DemoFails \/ DemoFrame \/ DemoLeaves

------------------------------------------------------------------------------
(* Input. *)

KeyTyped == keys < KeyCap /\ keys' = keys + 1
            /\ UNCHANGED <<kvars, videoVars, bridgeVars, step, last, still, bytes>>

ByteSent == bytes < KeyCap /\ bytes' = bytes + 1
            /\ UNCHANGED <<kvars, videoVars, bridgeVars, step, last, still, keys>>

\* shell_read_char between two commands.
ShellReads ==
  /\ step = "shell"
  /\ \/ keys # 0 /\ keys' = keys - 1 /\ UNCHANGED bytes
     \/ keys = 0 /\ bytes # 0 /\ bytes' = bytes - 1 /\ UNCHANGED keys
  /\ UNCHANGED <<kvars, videoVars, bridgeVars, step, last, still>>

NextCmd ==
  \/ KernelMain
  \/ \E spec \in Specs : CallMode(spec) \/ \E alone \in BOOLEAN : CallDemo(spec, alone)
  \/ Demo
  \/ KeyTyped \/ ByteSent \/ ShellReads

SpecCmd == InitCmd /\ [][NextCmd]_videoMachine

\* The CPU goes on with a command that runs; nobody has to type.
FairSpecCmd == SpecCmd /\ WF_videoMachine(Demo)

------------------------------------------------------------------------------
(* Properties. *)

\* Whenever a mode could be switched at all, current_mode describes the mode
\* the adapter is in: gfx_bridge.c and gfxdemo's report write and read where
\* it says (video.c:89-97, 210-217, 327-340).
RecordedIsShown == rmReady /\ step # "boot" => current = adapter

\* video_set_vbe gives the resolution asked for, and the bpp asked for when one
\* of the modes it lists has it (video.h: "bpp igual ao pedido; se nao houver,
\* aceita ... outro bpp direto"; video.c:227-246, 278-325).
ModeAsAsked ==
  adapter.kind = "vbe" =>
    /\ adapter.width = asked[1] /\ adapter.height = asked[2]
    /\ adapter.bpp # asked[3] =>
         \A i \in 1 .. Len(bios.list) :
           ~ (i <= MaxModes /\ Usable(bios.list[i], asked[1], asked[2])
                            /\ bios.list[i].mode.bpp = asked[3])

\* A frame is drawn in a backbuffer and a depth buffer of the size of the mode
\* on the screen, each in pages kalloc handed out for it and no one else's, and
\* converted for that mode (gfx_bridge.c:17-21, 81-116, 143-190).
FrameFits ==
  step = "frame" =>
    /\ ready /\ shape = adapter /\ shape.kind # "text"
    /\ \E i, j \in 1 .. Len(blocks) :
         /\ i < j
         /\ blocks[i].addr = colour /\ blocks[j].addr = depth
         /\ shape.width * shape.height * 4 <= blocks[i].size
         /\ shape.width * shape.height * 4 <= blocks[j].size

\* The pixel on the screen has the colour drawn, but for the bits its mode
\* does not have: indices mean colours only under the palette they were made
\* for.  8-bit VBE modes are left out, where nothing installs it
\* (video.c:106-119, gfx_bridge.c:37-71, 157-184).
ColoursShown ==
  pixel # NoPixel /\ (adapter.kind = "vga13" \/ adapter.bpp > 8) =>
    /\ adapter.bpp = 8 => dac = "332"
    /\ \A i \in 1 .. 3 : LET error == Shown[i] - drawn[i] IN
         -(2 ^ (8 - ChannelBits[i])) < error /\ error < 2 ^ (8 - ChannelBits[i])

\* However gfxdemo ends, the screen is in text mode again (cmd_video.c:370-383,
\* 402-409).
TextComesBack == step = "shell" /\ last = "gfxdemo" => adapter.kind = "text"

\* A key or a serial byte ends the animation: with the shell invisible there is
\* no other way out (cmd_video.c:394-399).
InputEndsDemo == (step = "frame" /\ (keys # 0 \/ bytes # 0)) ~> step = "shell"
==============================================================================
